---------------------------- MODULE OtaWsEnc_proofs ---------------------------
(* What the device promises in pre-encrypted mode, for every set of files,  *)
(* every length of header and block and every chunk a client may send.      *)
EXTENDS OtaWsEnc, OtaDevice_proofs

USE DEF Slots, Other, update_partition

----------------------------------------------------------------------------
(* How much plaintext a number of bytes gives.                              *)

\* Rounding down to whole blocks keeps the order.
LEMMA Floor ==
    ASSUME NEW a \in Nat, NEW b \in Nat, a <= b
    PROVE  /\ a - (a % BLOCK) \in 0 .. a
           /\ a - (a % BLOCK) <= b - (b % BLOCK)
  <1> DEFINE q == a \div BLOCK
             r == b \div BLOCK
  <1>0. BLOCK \in Nat \ {0}
    BY EncFileAssumption
  <1>1. /\ q \in Int /\ r \in Int
        /\ a % BLOCK \in 0 .. BLOCK - 1 /\ b % BLOCK \in 0 .. BLOCK - 1
    BY <1>0
  <1>2. a = BLOCK * q + (a % BLOCK) /\ b = BLOCK * r + (b % BLOCK)
    BY <1>0
  <1>3. a % BLOCK <= a
    BY <1>0
  <1>4. q <= r
    <2>1. SUFFICES ASSUME q >= r + 1 PROVE FALSE
      BY <1>1
    <2> HIDE DEF q, r
    <2>2. BLOCK * q >= BLOCK * (r + 1)
      BY <1>0, <1>1, <2>1
    <2>3. BLOCK * (r + 1) = BLOCK * r + BLOCK
      BY <1>0, <1>1
    <2> QED
      BY <1>0, <1>1, <1>2, <2>2, <2>3
  <1> HIDE DEF q, r
  <1>5. BLOCK * q <= BLOCK * r
    BY <1>0, <1>1, <1>4
  <1> QED
    BY <1>0, <1>1, <1>2, <1>3, <1>5

\* The plaintext of a file grows with what was supplied of it, and there is none
\* before the header is over.
LEMMA PlaintextGrows ==
    ASSUME NEW l \in Nat \ {0}, NEW s \in Nat, NEW t \in Nat, s <= t, t <= EncHeader + l
    PROVE  /\ Stream!Plaintext(l, s) \in 0 .. l
           /\ Stream!Plaintext(l, s) <= Stream!Plaintext(l, t)
           /\ Stream!Plaintext(l, s) > 0 => s > EncHeader
  <1>0. EncHeader \in Nat
    BY EncFileAssumption
  <1>1. CASE s <= EncHeader
    <2>1. Stream!Plaintext(l, s) = 0
      BY <1>0, <1>1 DEF Stream!Plaintext
    <2>2. Stream!Plaintext(l, t) >= 0
      <3>1. CASE t > EncHeader
        <4>1. t - EncHeader \in Nat
          BY <1>0, <3>1
        <4>2. (t - EncHeader) - ((t - EncHeader) % BLOCK) >= 0
          BY <4>1, Floor
        <4> QED
          BY <1>0, <3>1, <4>2 DEF Stream!Plaintext
      <3> QED
        BY <1>0, <3>1 DEF Stream!Plaintext
    <2> QED
      BY <2>1, <2>2
  <1>2. CASE s > EncHeader
    <2> DEFINE a == s - EncHeader
               b == t - EncHeader
    <2>1. a \in Nat /\ b \in Nat /\ a <= b /\ b <= l
      BY <1>0, <1>2
    <2>2. /\ a - (a % BLOCK) \in 0 .. a /\ b - (b % BLOCK) \in 0 .. b
          /\ a - (a % BLOCK) <= b - (b % BLOCK)
      BY <2>1, Floor
    <2>3. /\ Stream!Plaintext(l, s) = IF a = l THEN l ELSE a - (a % BLOCK)
          /\ Stream!Plaintext(l, t) = IF b = l THEN l ELSE b - (b % BLOCK)
      BY <1>0, <1>2 DEF Stream!Plaintext
    <2> HIDE DEF a, b
    <2> QED
      BY <1>2, <2>1, <2>2, <2>3
  <1> QED
    BY <1>0, <1>1, <1>2

----------------------------------------------------------------------------
(* A call of the decoder, and one of the backend that succeeds.             *)

Text == [of : Image \cup {NoImage}, at : Nat, len : Nat]

\* What a session knows of the file it decodes.
LEMMA InFile ==
    ASSUME NEW c \in EncChunk
    PROVE  /\ c.of \in EncFile /\ c.at \in Nat /\ c.len \in Nat
           /\ Plain[c.of] \in Image
           /\ ImageSize[Plain[c.of]] \in Nat \ {0}
           /\ c.at + c.len <= EncHeader + ImageSize[Plain[c.of]]
  <1>1. c.of \in EncFile /\ c.at \in Nat /\ c.len \in Nat /\ c.at + c.len <= EncSize(c.of)
    BY FlashAssumption, EncFileAssumption DEF EncChunk
  <1>2. Plain[c.of] \in Image
    BY <1>1, EncFileAssumption
  <1>3. ImageSize[Plain[c.of]] \in 1 .. SlotSize
    BY <1>2, FlashAssumption
  <1> QED
    BY <1>1, <1>2, <1>3, FlashAssumption DEF EncSize

\* Whatever comes, the decoder gives back a piece of plaintext.  While every byte
\* comes in its place it is the one that follows what the flash holds.
LEMMA OutputOf ==
    ASSUME TypeOK, PipelineInv, ota_started = 1, NEW c \in EncChunk, NEW p \in Outputs(c)
    PROVE  /\ p \in Text
           /\ InPlace(c) => LET l == ImageSize[Plain[c.of]]
                            IN  /\ p.of = Plain[c.of]
                                /\ p.at = enc.got
                                /\ enc.got + p.len = Stream!Plaintext(l, enc.read + c.len)
                                /\ enc.got + p.len > 0 => enc.read + c.len > EncHeader
           /\ ~InPlace(c) => p.of = NoImage
           /\ p.of \in Image => p.at + p.len <= ImageSize[p.of]
  <1> DEFINE l == ImageSize[Plain[c.of]]
  <1>t. enc.read \in Nat /\ enc.got \in Nat /\ enc.wrong \in BOOLEAN
    BY DEF TypeOK, EncType
  <1>c. /\ c.of \in EncFile /\ c.at \in Nat /\ c.len \in Nat
        /\ Plain[c.of] \in Image /\ l \in Nat \ {0} /\ c.at + c.len <= EncHeader + l
    BY InFile
  <1> HIDE DEF l
  <1>1. CASE InPlace(c)
    <2>1. ~enc.wrong /\ c.at = enc.read /\ (enc.read = 0 \/ c.of = enc.of)
      BY <1>1 DEF InPlace
    <2>2. /\ p.of = Plain[c.of] /\ p.at = enc.got
          /\ p.len = Stream!Plaintext(l, enc.read + c.len) - enc.got
          /\ p = [of |-> p.of, at |-> p.at, len |-> p.len]
      BY <1>1 DEF Outputs, l
    <2>3. /\ Stream!Plaintext(l, enc.read + c.len) \in 0 .. l
          /\ Stream!Plaintext(l, enc.read) <= Stream!Plaintext(l, enc.read + c.len)
          /\ Stream!Plaintext(l, enc.read + c.len) > 0 => enc.read + c.len > EncHeader
      <3>1. /\ enc.read + c.len \in Nat /\ enc.read <= enc.read + c.len
            /\ enc.read + c.len <= EncHeader + l
        BY <1>t, <1>c, <2>1
      <3> QED
        BY <1>t, <1>c, <3>1, PlaintextGrows
    <2>4. enc.got <= Stream!Plaintext(l, enc.read + c.len)
      <3>1. CASE enc.read = 0
        BY <3>1, <2>3, <1>t DEF PipelineInv, Erased
      <3>2. CASE enc.read > 0
        <4>1. enc.got = Stream!Plaintext(l, enc.read)
          BY <3>2, <2>1 DEF PipelineInv, l
        <4> QED
          BY <4>1, <2>3
      <3> QED
        BY <3>1, <3>2, <1>t
    <2> QED
      BY <1>1, <1>c, <1>t, <2>2, <2>3, <2>4 DEF Text, l
  <1>2. CASE ~InPlace(c)
    <2>1. PICK n \in 0 .. c.len + BLOCK - 1 : p = Garbage(n)
      BY <1>2 DEF Outputs
    <2>2. n \in Nat
      BY <1>c, <2>1, EncFileAssumption
    <2> QED
      BY <1>2, <2>1, <2>2, FlashAssumption DEF Text, Garbage
  <1> QED
    BY <1>1, <1>2

\* A call of the decoder keeps the types.
LEMMA DecryptType ==
    ASSUME TypeOK, PipelineInv, ota_started = 1, NEW c \in EncChunk, NEW e \in decrypt_data(c)
    PROVE  e \in EncType /\ e.heap = enc.heap /\ e.handle = "live"
  <1>t. enc \in EncType /\ enc.handle = "live"
    BY DEF TypeOK, PipelineInv
  <1>g. Garbage(0) \in Text
    BY DEF Text, Garbage
  <1>1. ASSUME NEW n \in Nat
        PROVE  /\ Fed(c, n) \in EncType
               /\ Fed(c, n).heap = enc.heap /\ Fed(c, n).handle = "live"
    <2>1. c.of \in EncFile /\ c.len \in Nat
      BY InFile
    <2> DEFINE w == IF InPlace(c) THEN enc.wrong ELSE TRUE
    <2>2. w \in BOOLEAN
      BY <1>t DEF EncType
    <2>3. Fed(c, n) = [enc EXCEPT !.of = c.of, !.read = enc.read + c.len,
                                  !.got = enc.got + n, !.wrong = w]
      BY DEF Fed
    <2>4. enc.read + c.len \in Nat /\ enc.got + n \in Nat /\ c.of \in EncFile \cup {NoImage}
      BY <1>t, <2>1 DEF EncType
    <2> HIDE DEF w
    <2>5. Fed(c, n) \in EncType
      <3> DEFINE r == enc.read + c.len
                 g == enc.got + n
      <3>1. Fed(c, n) = [enc EXCEPT !.of = c.of, !.read = r, !.got = g, !.wrong = w]
        BY <2>3
      <3>2. r \in Nat /\ g \in Nat
        BY <2>4
      <3> HIDE DEF r, g
      <3> QED
        BY <1>t, <2>2, <2>4, <3>1, <3>2 DEF EncType
    <2> QED
      BY <1>t, <2>3, <2>5 DEF EncType
  <1>2. ASSUME NEW p \in Outputs(c), e = realloc(Fed(c, p.len), p)
        PROVE  e \in EncType /\ e.heap = enc.heap /\ e.handle = "live"
    <2>1. p \in Text
      BY OutputOf
    <2>2. p.len \in Nat
      BY <2>1 DEF Text
    <2>3. Fed(c, p.len) \in EncType /\ Fed(c, p.len).heap = enc.heap /\ Fed(c, p.len).handle = "live"
      BY <2>2, <1>1
    <2> QED
      BY <1>2, <1>g, <2>1, <2>3 DEF realloc, EncType, Text
  <1>3. ASSUME e = realloc_fails(Fed(c, 0))
        PROVE  e \in EncType /\ e.heap = enc.heap /\ e.handle = "live"
    <2>1. 0 \in Nat
      OBVIOUS
    <2>2. Fed(c, 0) \in EncType /\ Fed(c, 0).heap = enc.heap /\ Fed(c, 0).handle = "live"
      BY <1>1, <2>1
    <2> QED
      BY <1>3, <2>2 DEF realloc_fails, EncType
  <1>4. (\E p \in Outputs(c) : e = realloc(Fed(c, p.len), p)) \/ e = realloc_fails(Fed(c, 0))
    BY DEF decrypt_data
  <1> QED
    BY <1>2, <1>3, <1>4

\* write_ota_ws but for the flag it sets, which a reset takes back.
Lands(e) ==
    /\ HeaderFits(e)
    /\ e.data_out = "live"
    /\ IF e.text.len > 0 THEN esp_ota_write(update_partition, e.text)
                         ELSE slot' = slot

LEMMA WriteLands == \A e : write_ota_ws(e) => Lands(e)
  BY DEF write_ota_ws, Lands

\* When write_ota_ws returns ESP_OK the chunk was not empty, its buffer could be
\* had, and the flash holds what the decoder gave back so far.
LEMMA WriteStep ==
    ASSUME TypeOK, PipelineInv, ota_started = 1,
           NEW c \in EncChunk, NEW e \in decrypt_data(c), Lands(e)
    PROVE  LET k == slot'[update_partition]
               l == ImageSize[Plain[e.of]]
           IN  /\ e.data_out = "live"
               /\ e.read = enc.read + c.len /\ e.read > 0
               /\ slot' \in [Slots -> Content]
               /\ k.wrote = e.got
               /\ k.of \in Image /\ k.good > 0 => e.read > EncHeader
               /\ ~e.wrong => /\ e.of \in EncFile
                              /\ k.of = Plain[e.of] /\ k.good = k.wrote
                              /\ k.wrote = Stream!Plaintext(l, e.read)
  <1> DEFINE k == slot[update_partition]
             kk == slot'[update_partition]
  <1>1. e.data_out = "live"
    BY DEF Lands
  <1>t. /\ enc \in EncType /\ slot \in [Slots -> Content] /\ update_partition \in Slots
        /\ enc.read \in Nat /\ enc.got \in Nat
        /\ k \in Content
    BY DEF TypeOK, EncType, FlashTypeOK
  <1>2. PICK p \in Outputs(c) : c.len # 0 /\ e = realloc(Fed(c, p.len), p)
    <2>1. e # realloc_fails(Fed(c, 0))
      BY <1>1, <1>t DEF realloc_fails, Fed, EncType
    <2> QED
      BY <2>1 DEF decrypt_data
  <1>p. /\ p \in Text
        /\ InPlace(c) => LET l == ImageSize[Plain[c.of]]
                         IN  /\ p.of = Plain[c.of]
                             /\ p.at = enc.got
                             /\ enc.got + p.len = Stream!Plaintext(l, enc.read + c.len)
                             /\ enc.got + p.len > 0 => enc.read + c.len > EncHeader
        /\ ~InPlace(c) => p.of = NoImage
    BY OutputOf
  <1>c. c.of \in EncFile /\ c.len \in Nat /\ c.len > 0 /\ Plain[c.of] \in Image
    BY InFile, <1>2
  <1>3. /\ e.read = enc.read + c.len
        /\ e.got = enc.got + p.len
        /\ e.of = c.of
        /\ e.text = IF p.len > 0 THEN p ELSE Garbage(0)
    BY <1>2, <1>t DEF realloc, Fed, EncType
  <1>w. ~InPlace(c) => e.wrong
    BY <1>2, <1>t DEF realloc, Fed, EncType
  <1>4. e.text.len = p.len
    BY <1>3, <1>p DEF Garbage, Text
  <1>5. k.wrote = enc.got /\ (enc.read = 0 => k = Erased)
    BY DEF PipelineInv
  <1>6. enc.read = 0 => p.len > 0
    BY <1>4, <1>p, EncFileAssumption DEF Lands, HeaderFits, PipelineInv, Text
  <1>7. CASE p.len > 0
    <2>1. k.wrote + p.len <= SlotSize /\ slot' = [slot EXCEPT ![update_partition] = Appended(k, p)]
      BY <1>3, <1>4, <1>7 DEF Lands, esp_ota_write
    <2>2. kk = Appended(k, p)
      BY <1>t, <2>1
    <2>3. Appended(k, p) \in Content /\ Appended(k, p).wrote = k.wrote + p.len
      BY <1>p, <1>t, <2>1, AppendedType DEF Text
    <2>4. slot' \in [Slots -> Content]
      BY <1>t, <2>1, <2>3
    <2> HIDE DEF k, kk
    <2>5. CASE InPlace(c)
      <3>1. k.good = k.wrote /\ p.at = k.wrote /\ (k.wrote = 0 \/ k.of = p.of)
        <4>1. CASE enc.read = 0
          BY <4>1, <1>5, <1>p, <2>5 DEF Erased
        <4>2. CASE enc.read > 0
          BY <4>2, <1>5, <1>p, <2>5 DEF InPlace, PipelineInv, k
        <4> QED
          BY <4>1, <4>2, <1>t
      <3>2. kk.of = p.of /\ kk.good = k.good + p.len /\ kk.wrote = k.wrote + p.len
        BY <2>2, <3>1 DEF Appended
      <3> QED
        BY <1>1, <1>3, <1>5, <1>c, <1>p, <1>t, <2>4, <2>5, <3>1, <3>2 DEF kk
    <2>6. CASE ~InPlace(c)
      <3>1. kk.of = NoImage \/ (kk.of = k.of /\ kk.good = k.good)
        BY <1>p, <1>t, <2>2, <2>6 DEF Appended, Content
      <3>2. k.of \in Image /\ k.good > 0 => enc.read > EncHeader
        BY DEF PipelineInv, k
      <3>3. kk.of \in Image /\ kk.good > 0 => e.read > EncHeader
        BY <1>3, <1>c, <1>t, <3>1, <3>2, FlashAssumption, EncFileAssumption
      <3> QED
        BY <1>1, <1>3, <1>5, <1>w, <1>c, <1>t, <2>2, <2>3, <2>4, <2>6, <3>3 DEF kk
    <2> QED
      BY <2>5, <2>6
  <1>8. CASE p.len = 0
    <2>1. slot' = slot /\ enc.read > 0
      BY <1>3, <1>4, <1>6, <1>8, <1>t DEF Lands
    <2>2. k.of \in Image /\ k.good > 0 => enc.read > EncHeader
      BY DEF PipelineInv
    <2>3. CASE InPlace(c)
      <3>1. k.of = Plain[c.of] /\ k.good = k.wrote
        BY <2>1, <2>3 DEF InPlace, PipelineInv
      <3> QED
        BY <1>1, <1>3, <1>5, <1>8, <1>w, <1>c, <1>p, <1>t, <2>1, <2>2, <2>3, <3>1, EncFileAssumption
    <2>4. CASE ~InPlace(c)
      BY <1>1, <1>3, <1>5, <1>8, <1>w, <1>c, <1>p, <1>t, <2>1, <2>2, <2>4, EncFileAssumption
    <2> QED
      BY <2>3, <2>4
  <1>9. p.len \in Nat
    BY <1>p DEF Text
  <1> QED
    BY <1>7, <1>8, <1>9

----------------------------------------------------------------------------
(* The steps.  Typing and the pipeline are inductive only together: that    *)
(* the decoder gives back no negative length follows from what the flash    *)
(* holds already.                                                           *)

\* What abort_ota_ws leaves of handle and buffer, whatever it finds.
LEMMA AbortLeaves ==
    ASSUME NEW e, e.heap \in {"sound", "corrupt"}
    PROVE  /\ abort_ota_ws(e) \in EncType
           /\ abort_ota_ws(e).handle = "NULL"
           /\ abort_ota_ws(e).data_out = "NULL"
  BY DEF abort_ota_ws, Unused, Freed, Garbage, EncType

LEMMA UnusedType ==
    ASSUME enc \in EncType
    PROVE  /\ Unused \in EncType
           /\ [Unused EXCEPT !.handle = "live", !.heap = enc.heap] \in EncType
  BY DEF Unused, Garbage, EncType

\* A step keeps the types.
LEMMA TypeStep == TypeOK /\ PipelineInv /\ [Next]_vars => TypeOK'
  <1> SUFFICES ASSUME TypeOK, PipelineInv, [Next]_vars PROVE TypeOK'
    OBVIOUS
  <1>t. /\ FlashTypeOK /\ image_header_was_checked \in BOOLEAN
        /\ enc \in EncType /\ HttpTypeOK
    BY DEF TypeOK
  <1>e. Erased \in Content
    BY FlashAssumption DEF Erased, Content
  <1>n. NewState \in ImgState
    BY DEF NewState, ImgState
  <1>f. ASSUME NEW code \in {"otaCancel", "otaError"}, NEW ret \in {"OK", "FAIL"}, NEW e,
               e.heap \in {"sound", "corrupt"}, Failed(code, ret, e)
        PROVE  HttpTypeOK' /\ handle' = "closed" /\ enc' \in EncType
    BY <1>f, <1>t, HttpTyping, AbortLeaves DEF Failed, esp_ota_abort
  <1>h. enc.heap \in {"sound", "corrupt"}
    BY <1>t DEF EncType
  <1>g. ASSUME NEW ret \in {"OK", "FAIL"}, no_reply(ret), UNCHANGED encVars PROVE TypeOK'
    <2>1. HttpTypeOK'
      BY <1>g, <1>t, HttpTyping
    <2> QED
      BY <2>1, <1>g, <1>t DEF encVars, flashVars, FlashTypeOK, TypeOK
  <1>r. Restarted => image_header_was_checked' \in BOOLEAN /\ HttpTypeOK' /\ enc' \in EncType
    BY <1>t, HttpTyping, UnusedType DEF Restarted
  <1>1. CASE Handshake
    <2>1. HttpTypeOK'
      BY <1>1, <1>t, HttpTyping DEF Handshake
    <2> QED
      BY <2>1, <1>1, <1>t DEF Handshake, encVars, flashVars, FlashTypeOK, TypeOK
  <1>2. ASSUME NEW code \in {"otaCancel", "otaError"}, NEW ret \in {"OK", "FAIL"},
               Stopped(code, ret)
        PROVE  TypeOK'
    BY <1>2, <1>f, <1>h, <1>t DEF Stopped, FlashTypeOK, TypeOK
  <1>3. ASSUME NEW n \in SizeValues, OtaSize(n) PROVE TypeOK'
    <2>1. CASE start_ota_ws /\ size_accepted(n)
      <3>1. HttpTypeOK' /\ image_header_was_checked' \in BOOLEAN /\ enc' \in EncType
        BY <2>1, <1>t, HttpTyping, UnusedType, SizeAssumption DEF start_ota_ws
      <3>2. FlashTypeOK'
        BY <2>1, <1>t, <1>e, FlashAssumption
        DEF start_ota_ws, esp_ota_begin, esp_ota_begin_as, FlashTypeOK
      <3> QED
        BY <3>1, <3>2 DEF TypeOK
    <2>2. CASE start_ota_ws_fails /\ Failed("otaError", "FAIL", enc)
      <3>1. slot' \in [Slots -> Content]
        BY <2>2, <1>t, <1>e DEF start_ota_ws_fails, esp_ota_begin_fails, FlashTypeOK
      <3>2. HttpTypeOK' /\ handle' = "closed" /\ enc' \in EncType
        BY <2>2, <1>f, <1>h
      <3> QED
        BY <2>2, <3>1, <3>2, <1>t
        DEF start_ota_ws_fails, esp_ota_begin_fails, FlashTypeOK, TypeOK
    <2>3. CASE start_ota_ws_no_handle /\ Failed("otaError", "FAIL", NoHandle)
      <3>1. slot' \in [Slots -> Content] /\ leaked' \in 0 .. MaxLeaks
        BY <2>3, <1>t, <1>e, FlashAssumption
        DEF start_ota_ws_no_handle, esp_ota_begin_as, FlashTypeOK
      <3>2. NoHandle.heap \in {"sound", "corrupt"}
        <4> DEFINE e == [enc EXCEPT !.handle = "NULL"]
        <4>1. e.heap \in {"sound", "corrupt"}
          BY <1>t DEF EncType
        <4>2. NoHandle = abort_ota_ws(e)
          BY DEF NoHandle
        <4> HIDE DEF e
        <4> QED
          BY <4>1, <4>2, AbortLeaves DEF EncType
      <3>3. HttpTypeOK' /\ handle' = "closed" /\ enc' \in EncType
        BY <2>3, <3>2, <1>f
      <3> QED
        BY <2>3, <3>1, <3>3, <1>t DEF start_ota_ws_no_handle, FlashTypeOK, TypeOK
    <2> QED
      BY <1>3, <2>1, <2>2, <2>3 DEF OtaSize
  <1>4. CASE ConfirmApp
    <2>1. CASE rollback_ota_ws_confirm /\ no_reply("OK")
      <3>1. HttpTypeOK'
        BY <2>1, <1>t, HttpTyping
      <3>2. FlashTypeOK' /\ UNCHANGED <<image_header_was_checked, enc>>
        BY <2>1, <1>t DEF rollback_ota_ws_confirm, esp_ota_mark_app_valid_cancel_rollback,
                          FlashTypeOK, ImgState
      <3> QED
        BY <3>1, <3>2, <1>t DEF TypeOK
    <2> QED
      BY <1>4, <2>1, <1>g DEF ConfirmApp
  <1>5. CASE RollbackApp
    <2>1. CASE rollback_ota_ws_rollback /\ restarted
      <3>1. /\ [img EXCEPT ![boot] = "INVALID"] \in [Slots -> ImgState]
            /\ Other(boot) \in Slots
        BY <1>t DEF FlashTypeOK, ImgState
      <3>2. /\ Reset([img EXCEPT ![boot] = "INVALID"], Other(boot), slot)
            /\ slot' \in [Slots -> Content]
        BY <2>1, <1>t DEF rollback_ota_ws_rollback,
                          esp_ota_mark_app_invalid_rollback_and_reboot, FlashTypeOK
      <3>3. FlashTypeOK'
        BY <3>1, <3>2, ResetType
      <3>4. HttpTypeOK'
        BY <2>1, <1>t, HttpTyping
      <3> QED
        BY <2>1, <3>3, <3>4, <1>t, UnusedType DEF rollback_ota_ws_rollback, TypeOK
    <2> QED
      BY <1>5, <2>1, <1>g DEF RollbackApp
  <1>6. CASE Ignored
    BY <1>6, <1>g DEF Ignored
  <1>7. ASSUME NEW c \in EncChunk, ChunkWritten(c) PROVE TypeOK'
    <2>1. PICK e \in decrypt_data(c) : write_ota_ws(e) /\ enc' = e
      BY <1>7 DEF ChunkWritten
    <2>2. ota_started = 1 /\ chunk_written(c.len) /\ UNCHANGED <<running, boot, img, handle, leaked>>
      BY <1>7 DEF ChunkWritten
    <2>3. slot' \in [Slots -> Content]
      BY <2>1, <2>2, WriteLands, WriteStep
    <2>4. enc' \in EncType
      BY <2>1, <2>2, DecryptType
    <2>5. HttpTypeOK'
      BY <2>2, <1>t, InFile, HttpTyping
    <2> QED
      BY <2>1, <2>2, <2>3, <2>4, <2>5, <1>t DEF write_ota_ws, FlashTypeOK, TypeOK
  <1>8. ASSUME NEW c \in EncChunk, ChunkFails(c) PROVE TypeOK'
    <2>1. /\ ota_started = 1
          /\ UNCHANGED <<running, boot, img, leaked>>
      BY <1>8 DEF ChunkFails
    <2>2. PICK f \in FailedWrites(c) : write_ota_ws_fails(f) /\ Failed("otaError", "FAIL", f.enc)
      BY <1>8 DEF ChunkFails
    <2>3. f.enc.heap \in {"sound", "corrupt"} /\ f.checked \in BOOLEAN
      <3>1. CASE f = [checked |-> image_header_was_checked, enc |-> abort_ota_ws(enc)]
        <4>1. abort_ota_ws(enc).heap \in {"sound", "corrupt"}
          BY <1>h, AbortLeaves DEF EncType
        <4> QED
          BY <3>1, <4>1, <1>t
      <3>2. ASSUME NEW e \in decrypt_data(c),
                   f = [checked |-> HeaderFits(e), enc |-> abort_ota_ws(e)]
            PROVE  f.enc.heap \in {"sound", "corrupt"} /\ f.checked \in BOOLEAN
        <4>1. e.heap \in {"sound", "corrupt"}
          BY <2>1, <1>h, DecryptType
        <4>2. abort_ota_ws(e).heap \in {"sound", "corrupt"}
          BY <4>1, AbortLeaves DEF EncType
        <4>3. HeaderFits(e) \in BOOLEAN
          BY Zenon DEF HeaderFits
        <4> QED
          BY <3>2, <4>2, <4>3
      <3> QED
        BY <3>1, <3>2 DEF FailedWrites
    <2>4. HttpTypeOK' /\ handle' = "closed" /\ enc' \in EncType
      BY <2>2, <2>3, <1>f
    <2> QED
      BY <2>1, <2>2, <2>3, <2>4, <1>t DEF write_ota_ws_fails, FlashTypeOK, TypeOK
  <1>9. ASSUME NEW c \in EncChunk, LastChunkInstalled(c) PROVE TypeOK'
    <2>1. PICK e \in decrypt_data(c) : /\ write_ota_ws(e)
                                       /\ end_ota_ws(e, slot'[update_partition])
                                       /\ enc' = Released(e)
      BY <1>9 DEF LastChunkInstalled
    <2>2. ota_started = 1 /\ last_chunk_installed(c.len) /\ UNCHANGED <<running, leaked>>
      BY <1>9 DEF LastChunkInstalled
    <2>3. slot' \in [Slots -> Content]
      BY <2>1, <2>2, WriteLands, WriteStep
    <2>4. enc' \in EncType
      <3>1. e \in EncType
        BY <2>2, DecryptType
      <3> QED
        BY <2>1, <3>1 DEF Released, Ended, EncType
    <2>5. HttpTypeOK'
      BY <2>2, <1>t, InFile, HttpTyping
    <2>6. /\ boot' = update_partition /\ img' = [img EXCEPT ![update_partition] = NewState]
          /\ handle' = "closed"
      BY <2>1 DEF end_ota_ws, esp_ota_set_boot_partition, esp_ota_end
    <2>7. boot' \in Slots /\ img' \in [Slots -> ImgState]
      BY <2>6, <1>n, <1>t DEF FlashTypeOK
    <2> QED
      BY <2>1, <2>2, <2>3, <2>4, <2>5, <2>6, <2>7, <1>t DEF write_ota_ws, FlashTypeOK, TypeOK
  <1>10. ASSUME NEW c \in EncChunk, LastChunkRefused(c) PROVE TypeOK'
    <2>1. PICK e \in decrypt_data(c) : write_ota_ws(e) /\ Failed("otaError", "FAIL", FailedEnd(e))
      BY <1>10 DEF LastChunkRefused
    <2>2. ota_started = 1 /\ UNCHANGED <<running, leaked, boot, img>>
      BY <1>10 DEF LastChunkRefused, end_ota_ws_fails
    <2>3. slot' \in [Slots -> Content]
      BY <2>1, <2>2, WriteLands, WriteStep
    <2>4. FailedEnd(e).heap \in {"sound", "corrupt"}
      <3>1. e \in EncType
        BY <2>2, DecryptType
      <3>2. Ended(e).heap \in {"sound", "corrupt"}
        BY <3>1 DEF Ended, EncType
      <3> QED
        BY <3>2, AbortLeaves DEF FailedEnd, EncType
    <2>5. HttpTypeOK' /\ handle' = "closed" /\ enc' \in EncType
      BY <2>1, <2>4, <1>f
    <2> QED
      BY <2>1, <2>2, <2>3, <2>5, <1>t DEF write_ota_ws, FlashTypeOK, TypeOK
  <1>11. CASE Restart
    <2>1. SUFFICES FlashTypeOK'
      BY <1>11, <1>r DEF Restart, TypeOK
    <2>2. CASE RestartIdle
      BY <2>2, <1>t, ResetType DEF RestartIdle, FlashTypeOK
    <2>3. ASSUME NEW c \in EncChunk, RestartAfterWrite(c) \/ RestartAfterSelect(c) PROVE FlashTypeOK'
      <3>1. PICK e \in decrypt_data(c) :
              /\ esp_ota_write(update_partition, e.text)
              /\ \/ Reset(img, boot, slot')
                 \/ Reset([img EXCEPT ![update_partition] = NewState], update_partition, slot')
        BY <2>3 DEF RestartAfterWrite, RestartAfterSelect
      <3>2. e.text \in Text
        BY <2>3, DecryptType DEF RestartAfterWrite, RestartAfterSelect, EncType, Text
      <3>3. slot' \in [Slots -> Content]
        BY <3>1, <3>2, <1>t, AppendedType DEF esp_ota_write, FlashTypeOK, Text
      <3>4. CASE Reset(img, boot, slot')
        BY <3>3, <3>4, <1>t, ResetType DEF FlashTypeOK
      <3>5. CASE Reset([img EXCEPT ![update_partition] = NewState], update_partition, slot')
        <4> DEFINE im == [img EXCEPT ![update_partition] = NewState]
        <4>1. im \in [Slots -> ImgState] /\ update_partition \in Slots
          BY <1>n, <1>t DEF FlashTypeOK
        <4>2. Reset(im, update_partition, slot')
          BY <3>5
        <4> HIDE DEF im
        <4> QED
          BY <4>1, <4>2, <3>3, ResetType
      <3> QED
        BY <3>1, <3>4, <3>5
    <2> QED
      BY <1>11, <2>2, <2>3 DEF Restart
  <1>12. CASE UNCHANGED vars
    BY <1>12, <1>t DEF vars, encVars, flashVars, httpVars, FlashTypeOK, HttpTypeOK, TypeOK
  <1> QED
    BY <1>1, <1>2, <1>3, <1>4, <1>5, <1>6, <1>7, <1>8, <1>9, <1>10, <1>11, <1>12
    DEF Next, Handler, Binary

\* Where every path that stops an upload, ends it or resets the chip leaves it.
LEMMA PipelineOver ==
    ASSUME ota_started' = 0, handle' = "closed",
           enc'.handle # "live", enc'.data_out # "live"
    PROVE  PipelineInv'
  BY DEF PipelineInv

\* A step that leaves the upload alone.
LEMMA PipelineStays ==
    ASSUME PipelineInv,
           UNCHANGED <<ota_started, ota_start_chunk, handle, slot, running, enc,
                       image_header_was_checked>>
    PROVE  PipelineInv'
  BY DEF PipelineInv, Stream!Plaintext

\* A step keeps the pipeline.
LEMMA PipelineStep == TypeOK /\ PipelineInv /\ [Next]_vars => PipelineInv'
  <1> SUFFICES ASSUME TypeOK, PipelineInv, [Next]_vars PROVE PipelineInv'
    OBVIOUS
  <1>t. /\ FlashTypeOK /\ image_header_was_checked \in BOOLEAN
        /\ enc \in EncType /\ HttpTypeOK
    BY DEF TypeOK
  <1>f. ASSUME NEW code, NEW ret, NEW e, Failed(code, ret, e) PROVE PipelineInv'
    <2>1. abort_ota_ws(e).handle = "NULL" /\ abort_ota_ws(e).data_out = "NULL"
      BY DEF abort_ota_ws, Unused
    <2> QED
      BY <1>f, <2>1, PipelineOver DEF Failed, ota_error, ClearSession, esp_ota_abort
  <1>r. ASSUME restarted, enc' = Unused, handle' = "closed" PROVE PipelineInv'
    BY <1>r, PipelineOver DEF restarted, ClearSession, Unused
  <1>1. CASE Handshake \/ Ignored
    BY <1>1, PipelineStays DEF Handshake, handshake, Ignored, no_reply, encVars, flashVars
  <1>2. ASSUME NEW code, NEW ret, Stopped(code, ret) PROVE PipelineInv'
    BY <1>2, <1>f DEF Stopped
  <1>3. ASSUME NEW n \in SizeValues, OtaSize(n) PROVE PipelineInv'
    <2>1. CASE start_ota_ws /\ size_accepted(n)
      <3>1. /\ ota_started' = 1 /\ ota_start_chunk' = 0
            /\ handle' = "open" /\ running' = running
            /\ image_header_was_checked' = FALSE
            /\ slot'[update_partition] = Erased
        BY <2>1, <1>t
        DEF start_ota_ws, size_accepted, esp_ota_begin, esp_ota_begin_as, FlashTypeOK
      <3>2. /\ enc'.handle = "live" /\ enc'.data_out = "NULL" /\ enc'.text.len = 0
            /\ enc'.read = 0 /\ enc'.got = 0
        BY <2>1 DEF start_ota_ws, Unused, Garbage
      <3> QED
        BY <3>1, <3>2 DEF PipelineInv, Erased
    <2> QED
      BY <1>3, <2>1, <1>f DEF OtaSize
  <1>4. CASE ConfirmApp
    BY <1>4, PipelineStays
    DEF ConfirmApp, rollback_ota_ws_confirm, esp_ota_mark_app_valid_cancel_rollback,
        encVars, flashVars, no_reply
  <1>5. CASE RollbackApp
    <2>1. CASE rollback_ota_ws_rollback /\ restarted
      BY <2>1, <1>r
      DEF rollback_ota_ws_rollback, esp_ota_mark_app_invalid_rollback_and_reboot, Reset
    <2>2. CASE UNCHANGED encVars /\ no_reply("FAIL")
      BY <2>2, PipelineStays DEF encVars, flashVars, no_reply
    <2> QED
      BY <1>5, <2>1, <2>2 DEF RollbackApp
  <1>6. ASSUME NEW c \in EncChunk, ChunkWritten(c) PROVE PipelineInv'
    <2>1. PICK e \in decrypt_data(c) : write_ota_ws(e) /\ enc' = e
      BY <1>6 DEF ChunkWritten
    <2>2. /\ ota_started = 1 /\ ota_started' = 1
          /\ ota_start_chunk' = ota_start_chunk + c.len
          /\ handle' = handle /\ running' = running
          /\ image_header_was_checked' = TRUE
      BY <1>6, <2>1 DEF ChunkWritten, chunk_written, write_ota_ws
    <2>3. handle = "open" /\ ota_start_chunk = enc.read
      BY <2>2 DEF PipelineInv
    <2>4. e.handle = "live"
      BY <2>2, DecryptType
    <2> DEFINE k == slot'[update_partition]
               l == ImageSize[Plain[e.of]]
    <2>5. /\ e.data_out = "live"
          /\ e.read = enc.read + c.len /\ e.read > 0
          /\ k.wrote = e.got
          /\ k.of \in Image /\ k.good > 0 => e.read > EncHeader
          /\ ~e.wrong => /\ k.of = Plain[e.of] /\ k.good = k.wrote
                         /\ k.wrote = Stream!Plaintext(l, e.read)
      BY <2>1, <2>2, WriteLands, WriteStep
    <2>6. slot'[update_partition'] = k
      BY <2>2
    <2> HIDE DEF k
    <2>7. /\ k.wrote = enc'.got
          /\ k.of \in Image /\ k.good > 0 => enc'.read > EncHeader
          /\ ~enc'.wrong => /\ k.of = Plain[enc'.of] /\ k.good = k.wrote
                            /\ k.wrote = Stream!Plaintext(ImageSize[Plain[enc'.of]], enc'.read)
          /\ enc'.read > 0 /\ enc'.handle = "live" /\ enc'.data_out = "live"
          /\ ota_start_chunk' = enc'.read
      BY <2>1, <2>2, <2>3, <2>4, <2>5
    <2>8. ~(enc'.read = 0)
      BY <2>7
    <2> QED
      BY <2>2, <2>3, <2>6, <2>7, <2>8 DEF PipelineInv, Stream!Plaintext
  <1>7. ASSUME NEW c \in EncChunk, ChunkFails(c) PROVE PipelineInv'
    BY <1>7, <1>f DEF ChunkFails
  <1>8. ASSUME NEW c \in EncChunk, LastChunkInstalled(c) PROVE PipelineInv'
    <2>1. PICK e \in decrypt_data(c) : enc' = Released(e)
      BY <1>8 DEF LastChunkInstalled
    <2>2. ota_started' = 0 /\ handle' = "closed"
      BY <1>8 DEF LastChunkInstalled, last_chunk_installed, ClearSession, end_ota_ws, esp_ota_end
    <2>3. e \in EncType
      BY <1>8, DecryptType DEF LastChunkInstalled
    <2>4. enc'.handle # "live" /\ enc'.data_out # "live"
      BY <2>1, <2>3 DEF Released, Ended, EncType
    <2> QED
      BY <2>2, <2>4, PipelineOver
  <1>9. ASSUME NEW c \in EncChunk, LastChunkRefused(c) PROVE PipelineInv'
    BY <1>9, <1>f DEF LastChunkRefused
  <1>10. CASE Restart
    <2>1. handle' = "closed"
      BY <1>10 DEF Restart, RestartIdle, RestartAfterWrite, RestartAfterSelect, Reset
    <2> QED
      BY <1>10, <2>1, <1>r DEF Restart, Restarted
  <1>11. CASE UNCHANGED vars
    BY <1>11, PipelineStays DEF vars, encVars, flashVars, httpVars
  <1> QED
    BY <1>1, <1>2, <1>3, <1>4, <1>5, <1>6, <1>7, <1>8, <1>9, <1>10, <1>11
    DEF Next, Handler, Binary

----------------------------------------------------------------------------
(* The theorems.                                                            *)

LEMMA Invariant == Spec => [](TypeOK /\ PipelineInv)
  <1>1. Init => TypeOK
    <2>1. FlashInit => FlashTypeOK
      BY FlashAssumption DEF FlashInit, FlashTypeOK, Content, Erased, ImgState
    <2>2. HttpInit => HttpTypeOK
      BY DEF HttpInit, HttpTypeOK
    <2>3. Unused \in EncType
      BY DEF Unused, Garbage, EncType
    <2> QED
      BY <2>1, <2>2, <2>3 DEF Init, TypeOK
  <1>2. Init => PipelineInv
    BY DEF Init, FlashInit, HttpInit, PipelineInv, Unused
  <1>3. QED
    BY <1>1, <1>2, TypeStep, PipelineStep, PTL DEF Spec

\* The variables stay within their types; in particular the decoder never gives
\* back less than nothing.
THEOREM EncTyping == Spec => []TypeOK
  BY Invariant, PTL

\* Session, flash, decoder and buffer agree after every handler and every reset,
\* for every cutting of every file, in whatever order its chunks come.
THEOREM EncPipeline == Spec => []PipelineInv
  BY Invariant, PTL

\* The last chunk of a file that the decoder accepts, and verification too, completes
\* the firmware of a genuine one: in the header nothing of a firmware is written yet.
LEMMA AcceptedIsGenuine ==
    ASSUME TypeOK, PipelineInv, ota_started = 1,
           NEW c \in EncChunk, NEW e \in decrypt_data(c), Lands(e),
           decrypt_end_accepts(e), Whole(slot'[update_partition])
    PROVE  /\ e.of = c.of /\ c.of \in Genuine
           /\ e.read = EncSize(c.of) /\ e.read = enc.read + c.len
           /\ slot'[update_partition].of = Plain[c.of]
  <1> DEFINE k == slot'[update_partition]
  <1>1. /\ e.read = enc.read + c.len /\ e.read > 0
        /\ k.of \in Image /\ k.good > 0 => e.read > EncHeader
        /\ ~e.wrong => k.of = Plain[e.of]
    BY WriteStep
  <1>2. e \in EncType
    BY DecryptType
  <1>3. k.of \in Image /\ k.good > 0
    BY FlashAssumption DEF Whole
  <1>4. ~(e.read < EncHeader)
    BY <1>1, <1>2, <1>3, EncFileAssumption DEF EncType
  <1>5. ~e.wrong /\ e.of \in Genuine /\ e.read = EncSize(e.of)
    BY <1>4 DEF decrypt_end_accepts
  <1>6. e.of = c.of
    BY DEF decrypt_data, realloc, realloc_fails, Fed, TypeOK, EncType
  <1> QED
    BY <1>1, <1>5, <1>6

\* A step that sends otaEnd has installed.
LEMMA EndInstalls ==
    ASSUME Next, out'.sent = <<Frame("otaEnd", 0)>>
    PROVE  \E c \in EncChunk : LastChunkInstalled(c)
  <1>a. \A name, v, ret : Reply(<<Frame(name, v)>>, ret) => name = "otaEnd"
    BY DEF Reply, Frame
  <1>b. \A ret : ~Reply(<<>>, ret)
    BY DEF Reply, Frame
  <1>c. \A f, g, ret : ~Reply(<<f, g>>, ret)
    BY DEF Reply, Frame
  <1>d. \A ret, e : \A code \in {"otaCancel", "otaError"} : ~Failed(code, ret, e)
    BY <1>a DEF Failed, ota_error
  <1>1. ~Handshake
    BY <1>a, <1>b DEF Handshake, handshake
  <1>2. \A ret : \A code \in {"otaCancel", "otaError"} : ~Stopped(code, ret)
    BY <1>d DEF Stopped
  <1>3. \A n : ~OtaSize(n)
    BY <1>c, <1>d DEF OtaSize, size_accepted
  <1>4. ~ConfirmApp /\ ~RollbackApp /\ ~Ignored /\ ~Restart
    BY <1>b DEF ConfirmApp, RollbackApp, Ignored, Restart, Restarted, restarted, no_reply
  <1>5. \A c \in EncChunk : ~ChunkWritten(c) /\ ~ChunkFails(c) /\ ~LastChunkRefused(c)
    BY <1>a, <1>d DEF ChunkWritten, chunk_written, ChunkFails, LastChunkRefused
  <1> QED
    BY <1>1, <1>2, <1>3, <1>4, <1>5 DEF Next, Handler, Binary

\* An update selects a slot, be it that otaEnd is sent or that the device is reset
\* first, only with what came, to the last byte, out of one genuine file.
THEOREM EncGenuine == Spec => InstalledIsGenuine
  <1> DEFINE Told == out'.sent = <<Frame("otaEnd", 0)>> =>
                        /\ boot' = update_partition
                        /\ Whole(slot'[boot'])
                        /\ Genuinely(enc', slot'[boot'])
             Kept == running' # running => \A c \in EncChunk : RestartAfterSelect(c) =>
                        \E e \in decrypt_data(c) : Genuinely(e, slot'[update_partition])
  <1>1. TypeOK /\ PipelineInv /\ [Next]_vars => [Told]_vars
    <2> SUFFICES ASSUME TypeOK, PipelineInv, Next, out'.sent = <<Frame("otaEnd", 0)>> PROVE Told
      OBVIOUS
    <2>1. PICK c \in EncChunk : LastChunkInstalled(c)
      BY EndInstalls
    <2>2. PICK e \in decrypt_data(c) : /\ write_ota_ws(e)
                                       /\ end_ota_ws(e, slot'[update_partition])
                                       /\ enc' = Released(e)
      BY <2>1 DEF LastChunkInstalled
    <2>3. ota_started = 1
      BY <2>1 DEF LastChunkInstalled
    <2>4. /\ boot' = update_partition /\ Whole(slot'[update_partition])
          /\ decrypt_end_accepts(e)
      BY <2>2 DEF end_ota_ws, esp_ota_set_boot_partition
    <2>5. /\ e.of = c.of /\ c.of \in Genuine /\ e.read = EncSize(c.of)
          /\ slot'[update_partition].of = Plain[c.of]
      BY <2>2, <2>3, <2>4, WriteLands, AcceptedIsGenuine
    <2>6. e \in EncType
      BY <2>3, DecryptType
    <2>7. enc'.of = e.of /\ enc'.read = e.read
      BY <2>2, <2>6 DEF Released, Ended, EncType
    <2> QED
      BY <2>4, <2>5, <2>7 DEF Genuinely
  <1>2. TypeOK /\ PipelineInv /\ [Next]_vars => [Kept]_vars
    <2> SUFFICES ASSUME TypeOK, PipelineInv, NEW c \in EncChunk, RestartAfterSelect(c)
                 PROVE  \E e \in decrypt_data(c) : Genuinely(e, slot'[update_partition])
      OBVIOUS
    <2>1. PICK e \in decrypt_data(c) :
            /\ HeaderFits(e)
            /\ e.text.len > 0 /\ e.data_out = "live"
            /\ esp_ota_write(update_partition, e.text)
            /\ decrypt_end_accepts(e)
            /\ Whole(slot'[update_partition])
      BY DEF RestartAfterSelect
    <2>2. ota_started = 1
      BY DEF RestartAfterSelect
    <2>3. /\ e.of = c.of /\ c.of \in Genuine /\ e.read = EncSize(c.of)
          /\ slot'[update_partition].of = Plain[c.of]
      BY <2>1, <2>2, AcceptedIsGenuine DEF Lands
    <2> QED
      BY <2>3 DEF Genuinely
  <1>3. TypeOK /\ PipelineInv /\ [Next]_vars => [Told /\ Kept]_vars
    BY <1>1, <1>2
  <1>4. QED
    BY <1>3, Invariant, PTL DEF Spec, InstalledIsGenuine
----------------------------------------------------------------------------
(* The flash and the update service.                                        *)

\* What write_ota_ws writes is plaintext in its place or bytes of no firmware, so
\* it is a piece the slot takes.
LEMMA PlaintextWritten ==
    ASSUME TypeOK, PipelineInv, ota_started = 1,
           NEW c \in EncChunk, NEW e \in decrypt_data(c), e.data_out = "live",
           IF e.text.len > 0 THEN esp_ota_write(update_partition, e.text) ELSE slot' = slot
    PROVE  Grows
  <1>1. PICK p \in Outputs(c) : e = realloc(Fed(c, p.len), p)
    <2>1. e # realloc_fails(Fed(c, 0))
      BY DEF realloc_fails, Fed, TypeOK, EncType
    <2> QED
      BY <2>1 DEF decrypt_data
  <1>2. CASE e.text.len > 0
    <2>1. e.text = p
      BY <1>1, <1>2 DEF realloc, Fed, TypeOK, EncType, Garbage
    <2>2. p \in Supply
      BY <1>2, <2>1, OutputOf DEF Supply, Text
    <2> QED
      BY <1>2, <2>1, <2>2 DEF esp_ota_write, Grows
  <1> QED
    BY <1>2 DEF Grows

\* Every step does to the flash one of the things OtaDevice allows.
LEMMA IsDeviceStep ==
    ASSUME TypeOK, PipelineInv, [Next]_vars
    PROVE  DeviceStep
  <1>t. ota_started \in 0 .. 1
    BY DEF TypeOK, HttpTypeOK
  <1>a. ASSUME NEW code, NEW ret, NEW e, Failed(code, ret, e), UNCHANGED <<running, boot, img, slot>>
        PROVE  DeviceStep
    BY <1>a DEF Failed, ota_error, ClearSession, Rests, DeviceStep
  <1>b. ASSUME UNCHANGED <<running, boot, img, slot, ota_started>> PROVE DeviceStep
    BY <1>b DEF Rests, DeviceStep
  <1>1. CASE Handshake \/ Ignored
    BY <1>1, <1>b DEF Handshake, handshake, Ignored, no_reply, encVars, flashVars
  <1>2. ASSUME NEW code, NEW ret, Stopped(code, ret) PROVE DeviceStep
    BY <1>2, <1>a DEF Stopped
  <1>3. ASSUME NEW n \in SizeValues, OtaSize(n) PROVE DeviceStep
    <2>1. CASE start_ota_ws /\ size_accepted(n)
      BY <2>1 DEF start_ota_ws, esp_ota_begin, esp_ota_begin_as, size_accepted, Erases, DeviceStep
    <2>2. CASE start_ota_ws_fails /\ Failed("otaError", "FAIL", enc)
      BY <2>2 DEF start_ota_ws_fails, esp_ota_begin_fails, Failed, ota_error, ClearSession,
                  Rests, Erases, DeviceStep
    <2>3. CASE start_ota_ws_no_handle /\ Failed("otaError", "FAIL", NoHandle)
      BY <2>3 DEF start_ota_ws_no_handle, esp_ota_begin_as, Failed, ota_error, ClearSession,
                  Erases, DeviceStep
    <2> QED
      BY <1>3, <2>1, <2>2, <2>3 DEF OtaSize
  <1>4. CASE ConfirmApp \/ RollbackApp
    <2>1. CASE rollback_ota_ws_confirm /\ no_reply("OK")
      BY <2>1 DEF rollback_ota_ws_confirm, no_reply, Confirms, DeviceStep
    <2>2. CASE rollback_ota_ws_rollback /\ restarted
      BY <2>2 DEF rollback_ota_ws_rollback, restarted, ClearSession, RollsBack, DeviceStep
    <2>3. CASE UNCHANGED encVars /\ no_reply("FAIL")
      BY <2>3, <1>b DEF no_reply, encVars, flashVars
    <2> QED
      BY <1>4, <2>1, <2>2, <2>3 DEF ConfirmApp, RollbackApp
  <1>w. ASSUME ota_started = 1, NEW c \in EncChunk, NEW e \in decrypt_data(c), write_ota_ws(e)
        PROVE  Grows
    BY <1>w, PlaintextWritten DEF write_ota_ws
  <1>5. ASSUME NEW c \in EncChunk, Binary(c) PROVE DeviceStep
    <2>1. CASE ChunkWritten(c)
      BY <2>1, <1>t, <1>w DEF ChunkWritten, chunk_written, Writes, DeviceStep
    <2>2. CASE ChunkFails(c)
      BY <2>2, <1>a DEF ChunkFails, write_ota_ws_fails
    <2>3. CASE LastChunkInstalled(c)
      BY <2>3, <1>w
      DEF LastChunkInstalled, end_ota_ws, esp_ota_set_boot_partition,
          last_chunk_installed, ClearSession, Selects, DeviceStep
    <2>4. CASE LastChunkRefused(c)
      BY <2>4, <1>w
      DEF LastChunkRefused, end_ota_ws_fails, Failed, ota_error, ClearSession, Writes, DeviceStep
    <2> QED
      BY <1>5, <2>1, <2>2, <2>3, <2>4 DEF Binary
  <1>6. CASE Restart
    <2>1. ota_started' = 0
      BY <1>6 DEF Restart, Restarted, restarted, ClearSession
    <2>2. CASE RestartIdle
      BY <2>1, <2>2 DEF RestartIdle, Restarts, DeviceStep
    <2>3. ASSUME NEW c \in EncChunk, RestartAfterWrite(c) PROVE DeviceStep
      <3>1. Grows
        BY <2>3, PlaintextWritten DEF RestartAfterWrite
      <3> QED
        BY <2>1, <2>3, <3>1 DEF RestartAfterWrite, Restarts, DeviceStep
    <2>4. ASSUME NEW c \in EncChunk, RestartAfterSelect(c) PROVE DeviceStep
      <3>1. Grows
        BY <2>4, PlaintextWritten DEF RestartAfterSelect
      <3> QED
        BY <2>1, <2>4, <3>1 DEF RestartAfterSelect, RestartsSelected, DeviceStep
    <2> QED
      BY <1>6, <2>2, <2>3, <2>4 DEF Restart
  <1>7. CASE UNCHANGED vars
    BY <1>7, <1>b DEF vars, encVars, flashVars, httpVars
  <1> QED
    BY <1>1, <1>2, <1>3, <1>4, <1>5, <1>6, <1>7 DEF Next, Handler

\* The three invariants of the flash hold in this mode as in the plain one.
LEMMA FlashInvariant == Spec => []FlashSafe
  <1>1. Init => FlashSafe
    BY SafeInit DEF Init, HttpInit
  <1>2. TypeOK /\ PipelineInv /\ FlashSafe /\ [Next]_vars => FlashSafe'
    BY IsDeviceStep, SafeStep DEF TypeOK
  <1>3. QED
    BY <1>1, <1>2, Invariant, PTL DEF Spec

\* In pre-encrypted mode too the running slot holds a whole image, what waits for
\* a verdict is selected, and a firmware on trial has an intact one to go back to.
THEOREM EncFlash == Spec => [](RunningIsWhole /\ VerdictInv /\ FallbackReady)
  BY FlashInvariant DEF FlashSafe

\* The device is the same update service in pre-encrypted mode: decoder, buffer and
\* tag change when an upload fails, never what a failure does to the firmware, as
\* long as a damaged heap ends in a reset.
THEOREM EncImplements == Spec => IsService
  <1>1. Init => Service!ServiceInit
    BY SafeInit DEF Init, HttpInit
  <1>2. TypeOK /\ PipelineInv /\ FlashSafe /\ [Next]_vars
            => [Service!ServiceNext]_(Service!serviceVars)
    BY IsDeviceStep, ServiceStep DEF TypeOK, HttpTypeOK
  <1>3. QED
    BY <1>1, <1>2, Invariant, FlashInvariant, PTL DEF Spec, IsService, Service!ServiceSpec
=============================================================================
