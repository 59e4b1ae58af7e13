-------------------------------- MODULE EncImg ------------------------------
(* esp_encrypted_img/src/esp_encrypted_img.c: the incremental decoder of an *)
(* encrypted image.  A file is a header of six fields and the encrypted     *)
(* binary; it arrives in pieces of any length and every field may be cut    *)
(* anywhere.  The bytes are not modelled, only which bytes of the file are  *)
(* where: a buffer holds the piece [at, len] of the file.                   *)
EXTENDS Integers

CONSTANTS
    MAGIC_SIZE, ENC_GCM_KEY_SIZE, IV_SIZE, BIN_SIZE_DATA, AUTH_SIZE, RESERVED_HEADER,
    BLOCK,       \* 16, the block of the cipher and the size of the body cache
    MaxLen       \* the binary is 1 .. MaxLen bytes long

ASSUME EncAssumption ==
    /\ {MAGIC_SIZE, ENC_GCM_KEY_SIZE, IV_SIZE, BIN_SIZE_DATA, AUTH_SIZE,
        RESERVED_HEADER, BLOCK} \subseteq Nat \ {0}
    /\ MAGIC_SIZE <= ENC_GCM_KEY_SIZE  \* the cache of decrypt_start holds either
    /\ BLOCK <= ENC_GCM_KEY_SIZE
    /\ {IV_SIZE, BIN_SIZE_DATA, AUTH_SIZE} \subseteq 1 .. BLOCK  \* and is cut down then
    /\ MaxLen \in Nat \ {0}

VARIABLES
    file,       \* the file being read: length of its binary, what of it is valid
    supplied,   \* bytes of it given to decrypt_data so far
    delivered,  \* bytes of plaintext given back so far
    h,          \* the handle, and what the current call has done
    err,        \* what the last call returned, "NONE" before the first one
    phase       \* "open" until decrypt_end or decrypt_abort frees the handle

vars == <<file, supplied, delivered, h, err, phase>>

\* Where each field starts in the file.
GcmAt == MAGIC_SIZE
IvAt == GcmAt + ENC_GCM_KEY_SIZE
BinSizeAt == IvAt + IV_SIZE
AuthAt == BinSizeAt + BIN_SIZE_DATA
ExtraAt == AuthAt + AUTH_SIZE
HeaderSize == ExtraAt + RESERVED_HEADER

File == [len : 1 .. MaxLen, magic : BOOLEAN, key : BOOLEAN, authentic : BOOLEAN]

State == {"MAGIC", "GCM", "IV", "BINSIZE", "AUTH", "EXTRA_HEADER", "DECODE"}

Error == {"NONE", "NOT_FINISHED", "OK", "FAIL", "NO_MEM"}

Lesser(a, b) == IF a < b THEN a ELSE b

----------------------------------------------------------------------------
(* Buffers.                                                                 *)
Piece(at, len) == [at |-> at, len |-> len]
Torn == Piece(-1, 0)  \* bytes that are no piece of the file
AnyPiece == [at : Int, len : Int]

\* The handle: the struct, the caller's args, and the progress of a call.
Handle ==
    [state : State, binary_file_len : Nat, binary_file_read : Nat,
     cache_buf_len : 0 .. ENC_GCM_KEY_SIZE, cache_buf : AnyPiece, gcm_key : AnyPiece,
     iv : AnyPiece, auth_tag : AnyPiece, fed : Nat, sound : BOOLEAN,
     data_out_size : Nat, data_out_len : Nat, out : Nat, curr_index : Nat,
     ret : Error \cup {"RUN"}]

\* Mutant: bytes are put at the start of the buffer, not behind those it has.
Copied_AtStart(buf, off, p) == p

\* memcpy of piece p to offset off of buffer buf.
Copied(buf, off, p) ==
    IF off = 0 THEN p
    ELSE IF off = buf.len /\ p.at = buf.at + buf.len THEN Piece(buf.at, buf.len + p.len)
    ELSE Torn

\* mbedtls_gcm_update of piece p into data_out + off.  Sound as long as every
\* byte of the binary comes once and in order, only the last update is not a
\* whole number of blocks, and the result is put behind the earlier results of
\* this call and inside the buffer.
GcmUpdated(c, p, off) ==
    [c EXCEPT !.fed = @ + p.len,
              !.out = @ + p.len,
              !.sound = IF /\ p.at = HeaderSize + c.fed
                           /\ c.fed % BLOCK = 0
                           /\ off = c.out
                           /\ off + p.len <= c.data_out_size
                        THEN @ ELSE FALSE]

FreshHandle ==
    [state |-> "MAGIC", binary_file_len |-> 0, binary_file_read |-> 0,
     cache_buf_len |-> 0, cache_buf |-> Piece(0, 0), gcm_key |-> Torn, iv |-> Torn,
     auth_tag |-> Torn,
     fed |-> 0, sound |-> TRUE,                          \* the cipher
     data_out_size |-> 0, data_out_len |-> 0, out |-> 0, \* the caller's buffer
     curr_index |-> 0, ret |-> "RUN"]                    \* locals of a call

Init ==
    /\ file \in File
    /\ supplied = 0
    /\ delivered = 0
    /\ h = FreshHandle
    /\ err = "NONE"
    /\ phase = "open"

----------------------------------------------------------------------------
(* esp_encrypted_img_decrypt_data of n bytes, one stage per case of the     *)
(* switch.  A stage leaves the call c alone unless its state is reached.    *)
Return(c, ret) == [c EXCEPT !.ret = ret]

Runs(c, state) == c.ret = "RUN" /\ c.state = state

\* The whole field is in the data at hand, so the cache is not needed.
WholeField(c, n, size) == c.cache_buf_len = 0 /\ n - c.curr_index >= size

Skipped(c, size) == [c EXCEPT !.curr_index = @ + size]

read_and_cache_data(c, n, size) ==
    LET k == Lesser(n - c.curr_index, size - c.binary_file_read)
        p == Piece(supplied + c.curr_index, k)
        d == [c EXCEPT !.cache_buf_len = @ + k,
                       !.curr_index = @ + k,
                       !.binary_file_read = @ + k]
    IN  CASE c.state = "IV"   -> [d EXCEPT !.iv = Copied(@, c.cache_buf_len, p)]
          [] c.state = "AUTH" -> [d EXCEPT !.auth_tag = Copied(@, c.cache_buf_len, p)]
          [] OTHER            -> [d EXCEPT !.cache_buf = Copied(@, c.cache_buf_len, p)]

\* Mutant: the cache is not emptied behind a field.
Advanced_KeepsCache(c, state) == [c EXCEPT !.state = state, !.binary_file_read = 0]

\* Mutant: the count of bytes read is not restarted behind a field.
Advanced_KeepsCount(c, state) == [c EXCEPT !.state = state, !.cache_buf_len = 0]

\* The next field, with nothing of it read yet.
Advanced(c, state) ==
    [c EXCEPT !.state = state, !.binary_file_read = 0, !.cache_buf_len = 0]

Magic(c, n) ==
    IF ~Runs(c, "MAGIC") THEN c
    ELSE IF WholeField(c, n, MAGIC_SIZE)
    THEN IF file.magic /\ supplied + c.curr_index = 0
         THEN [Skipped(c, MAGIC_SIZE) EXCEPT !.state = "GCM"]
         ELSE Return(c, "FAIL")
    ELSE LET d == read_and_cache_data(c, n, MAGIC_SIZE)
         IN  IF d.binary_file_read # MAGIC_SIZE THEN Return(d, "NOT_FINISHED")
             ELSE IF file.magic /\ d.cache_buf = Piece(0, MAGIC_SIZE)
             THEN Advanced(d, "GCM")
             ELSE Return(d, "FAIL")

\* The cache is cut down to a block, which may fail as the key may.
decipher_gcm_key(c, key, mem) ==
    IF file.key /\ mem THEN [Advanced(c, "IV") EXCEPT !.gcm_key = key]
    ELSE Return(c, "FAIL")

Gcm(c, n, mem) ==
    IF ~Runs(c, "GCM") THEN c
    ELSE IF WholeField(c, n, ENC_GCM_KEY_SIZE)
    THEN LET key == Piece(supplied + c.curr_index, ENC_GCM_KEY_SIZE)
         IN  Skipped(decipher_gcm_key(c, key, mem), ENC_GCM_KEY_SIZE)
    ELSE LET d == read_and_cache_data(c, n, ENC_GCM_KEY_SIZE)
         IN  IF d.cache_buf_len # ENC_GCM_KEY_SIZE THEN Return(d, "NOT_FINISHED")
             ELSE decipher_gcm_key(d, d.cache_buf, mem)

Iv(c, n) ==
    IF ~Runs(c, "IV") THEN c
    ELSE LET d == IF WholeField(c, n, IV_SIZE)
                  THEN [Skipped(c, IV_SIZE) EXCEPT
                          !.iv = Piece(supplied + c.curr_index, IV_SIZE),
                          !.binary_file_read = IV_SIZE]
                  ELSE read_and_cache_data(c, n, IV_SIZE)
         IN  IF d.binary_file_read = IV_SIZE THEN Advanced(d, "BINSIZE")
             ELSE Return(d, "NOT_FINISHED")

\* The number is right when its bytes are those of the field.
BinSize(field) == IF field = Piece(BinSizeAt, BIN_SIZE_DATA) THEN file.len ELSE 0

BinSizeStage(c, n) ==
    IF ~Runs(c, "BINSIZE") THEN c
    ELSE IF WholeField(c, n, BIN_SIZE_DATA)
    THEN [Advanced(Skipped(c, BIN_SIZE_DATA), "AUTH") EXCEPT
            !.binary_file_len = BinSize(Piece(supplied + c.curr_index, BIN_SIZE_DATA))]
    ELSE LET d == read_and_cache_data(c, n, BIN_SIZE_DATA)
         IN  IF d.binary_file_read = BIN_SIZE_DATA
             THEN [Advanced(d, "AUTH") EXCEPT !.binary_file_len = BinSize(d.cache_buf)]
             ELSE Return(d, "NOT_FINISHED")

Auth(c, n) ==
    IF ~Runs(c, "AUTH") THEN c
    ELSE LET d == IF WholeField(c, n, AUTH_SIZE)
                  THEN [Skipped(c, AUTH_SIZE) EXCEPT
                          !.auth_tag = Piece(supplied + c.curr_index, AUTH_SIZE),
                          !.binary_file_read = AUTH_SIZE]
                  ELSE read_and_cache_data(c, n, AUTH_SIZE)
         IN  IF d.binary_file_read = AUTH_SIZE THEN Advanced(d, "EXTRA_HEADER")
             ELSE Return(d, "NOT_FINISHED")

Extra(c, n) ==
    IF ~Runs(c, "EXTRA_HEADER") THEN c
    ELSE LET k == Lesser(n - c.curr_index, RESERVED_HEADER - c.binary_file_read)
             d == [c EXCEPT !.curr_index = @ + k, !.binary_file_read = @ + k]
         IN  IF d.binary_file_read = RESERVED_HEADER THEN Advanced(d, "DECODE")
             ELSE Return(d, "NOT_FINISHED")

----------------------------------------------------------------------------
(* process_bin, with rest bytes of the binary at data_in + curr_index.      *)

\* Not the end of the binary: whole blocks are decrypted, the remainder cached.
Blocks(c, n, rest, mem) ==
    LET cached == c.cache_buf_len
        whole == (cached + rest) - ((cached + rest) % BLOCK)
        copy_len == IF cached = 0 THEN 0 ELSE Lesser(BLOCK - cached, rest)
        from == supplied + c.curr_index
        filled == Copied(c.cache_buf, cached, Piece(from, copy_len))
        a == IF whole > 0 THEN [c EXCEPT !.data_out_size = whole] ELSE c
        b == IF cached = 0 THEN a
             ELSE GcmUpdated([a EXCEPT !.cache_buf = filled], filled, 0)
        tail == (rest - copy_len) % BLOCK
        mid == rest - copy_len - tail
        d == [b EXCEPT !.cache_buf_len = tail,
                       !.cache_buf = IF tail = 0 THEN @
                                     ELSE Piece(supplied + n - tail, tail)]
        e == IF mid = 0 THEN d ELSE GcmUpdated(d, Piece(from + copy_len, mid), b.out)
    IN  IF whole > 0 /\ ~mem THEN Return(c, "NO_MEM")
        ELSE IF cached # 0 /\ cached + copy_len # BLOCK
        THEN Return([a EXCEPT !.cache_buf = filled,
                              !.cache_buf_len = cached + copy_len,
                              !.data_out_len = 0], "NOT_FINISHED")
        ELSE Return([e EXCEPT !.data_out_len = b.out + mid], "NOT_FINISHED")

\* The end of the binary: the cached bytes, filled up to a block, then the rest.
LastBlocks(c, n, rest, mem) ==
    LET cached == c.cache_buf_len
        copy_len == Lesser(BLOCK - cached, rest)
        from == supplied + c.curr_index
        filled == Copied(c.cache_buf, cached, Piece(from, copy_len))
        a == [c EXCEPT !.data_out_size = cached + rest, !.cache_buf = filled]
        b == GcmUpdated(a, filled, 0)
        d == IF rest = copy_len THEN b
             ELSE GcmUpdated(b, Piece(from + copy_len, rest - copy_len), BLOCK)
    IN  IF ~mem THEN Return(c, "NO_MEM")
        ELSE Return([d EXCEPT !.data_out_len = cached + rest, !.cache_buf_len = 0], "OK")

\* Mutant: the bytes of a piece are counted after the comparison.
process_bin_Late(c, n, mem) ==
    IF ~Runs(c, "DECODE") THEN c
    ELSE LET rest == n - c.curr_index
             d == [c EXCEPT !.binary_file_read = @ + rest]
         IN  IF c.binary_file_read # c.binary_file_len THEN Blocks(d, n, rest, mem)
             ELSE LastBlocks(d, n, rest, mem)

process_bin(c, n, mem) ==
    IF ~Runs(c, "DECODE") THEN c
    ELSE LET rest == n - c.curr_index
             d == [c EXCEPT !.binary_file_read = @ + rest]
         IN  IF d.binary_file_read # d.binary_file_len THEN Blocks(d, n, rest, mem)
             ELSE LastBlocks(d, n, rest, mem)

decrypt_data(n, mem) ==
    LET c == [h EXCEPT !.curr_index = 0, !.ret = "RUN", !.out = 0,
                       !.data_out_size = h.data_out_len]
    IN  process_bin(
            Extra(Auth(BinSizeStage(Iv(Gcm(Magic(c, n), n, mem), n), n), n), n), n, mem)

----------------------------------------------------------------------------
(* The calls.  The caller supplies the file in pieces until a call returns  *)
(* something else than NOT_FINISHED; it may end or abort at any time.       *)
DecryptData(n, mem) ==
    /\ phase = "open"
    /\ err \in {"NONE", "NOT_FINISHED"}
    /\ supplied + n <= HeaderSize + file.len
    /\ h' = decrypt_data(n, mem)
    /\ err' = h'.ret
    /\ supplied' = supplied + n
    /\ delivered' = IF err' \in {"OK", "NOT_FINISHED"} THEN delivered + h'.data_out_len
                                                       ELSE delivered
    /\ UNCHANGED <<file, phase>>

\* Mutant: the tag is not compared.
EndAccepts_NoTag ==
    h.state = "DECODE" => h.cache_buf_len = 0 /\ h.binary_file_read = h.binary_file_len

\* Of the header states no completeness is asked.  The tag of the file agrees with
\* the one computed when the file is genuine and all of it was fed as it stands.
EndAccepts ==
    h.state = "DECODE" =>
        /\ h.cache_buf_len = 0
        /\ h.binary_file_read = h.binary_file_len
        /\ file.authentic /\ h.sound /\ h.fed = file.len
        /\ h.auth_tag = Piece(AuthAt, AUTH_SIZE)

DecryptEnd ==
    /\ phase = "open"
    /\ phase' = "closed"
    /\ err' = IF EndAccepts THEN "OK" ELSE "FAIL"
    /\ UNCHANGED <<file, supplied, delivered, h>>

DecryptAbort ==
    /\ phase = "open"
    /\ phase' = "closed"
    /\ err' = "OK"
    /\ UNCHANGED <<file, supplied, delivered, h>>

DecryptStart ==
    /\ phase = "closed"
    /\ file' \in File
    /\ supplied' = 0
    /\ delivered' = 0
    /\ h' = FreshHandle
    /\ err' = "NONE"
    /\ phase' = "open"

is_complete_data_received == h.binary_file_len = h.binary_file_read

Next ==
    \/ \E n \in 0 .. HeaderSize + MaxLen, mem \in BOOLEAN : DecryptData(n, mem)
    \/ DecryptEnd
    \/ DecryptAbort
    \/ DecryptStart

Spec == Init /\ [][Next]_vars

----------------------------------------------------------------------------
(* Properties.                                                              *)

Reading == phase = "open" /\ err \in {"NONE", "NOT_FINISHED"}

\* Every variable stays within its type; the cache is never filled beyond what
\* decrypt_start allocated.
TypeOK ==
    /\ file \in File
    /\ supplied \in 0 .. HeaderSize + MaxLen
    /\ delivered \in 0 .. MaxLen
    /\ h \in Handle
    /\ err \in Error
    /\ phase \in {"open", "closed"}

Start(state) ==
    CASE state = "MAGIC"        -> 0
      [] state = "GCM"          -> GcmAt
      [] state = "IV"           -> IvAt
      [] state = "BINSIZE"      -> BinSizeAt
      [] state = "AUTH"         -> AuthAt
      [] state = "EXTRA_HEADER" -> ExtraAt
      [] state = "DECODE"       -> HeaderSize

Length(state) ==
    CASE state = "MAGIC"        -> MAGIC_SIZE
      [] state = "GCM"          -> ENC_GCM_KEY_SIZE
      [] state = "IV"           -> IV_SIZE
      [] state = "BINSIZE"      -> BIN_SIZE_DATA
      [] state = "AUTH"         -> AUTH_SIZE
      [] state = "EXTRA_HEADER" -> RESERVED_HEADER
      [] state = "DECODE"       -> file.len

\* Where the piece of the field that was read so far is kept.
Kept(c) == CASE c.state = "IV"   -> c.iv
             [] c.state = "AUTH" -> c.auth_tag
             [] OTHER            -> c.cache_buf

\* However the file was cut so far, the decoder knows where in it it is: the
\* state and the count of bytes read in it, less than there are, add up to the
\* bytes supplied; and the bytes of an incomplete header field are kept, in order
\* and from its first one.
PositionInv ==
    Reading =>
        /\ supplied = Start(h.state) + h.binary_file_read
        /\ h.binary_file_read < Length(h.state)
        /\ h.state \in {"MAGIC", "GCM", "IV", "BINSIZE", "AUTH"} =>
              /\ h.cache_buf_len = h.binary_file_read
              /\ h.cache_buf_len > 0 => Kept(h) = Piece(Start(h.state), h.cache_buf_len)

\* Once the body is reached, key, initialisation vector, length and tag are the
\* ones of the file; the cipher was fed every byte of the binary once and in
\* order, up to less than a block that waits in the cache; and each result went
\* inside the buffer that was allocated for it.
CipherInv ==
    /\ h.sound
    /\ Reading /\ h.state = "DECODE" =>
          /\ h.gcm_key = Piece(GcmAt, ENC_GCM_KEY_SIZE)
          /\ h.iv = Piece(IvAt, IV_SIZE)
          /\ h.binary_file_len = file.len
          /\ h.auth_tag = Piece(AuthAt, AUTH_SIZE)
          /\ h.fed + h.cache_buf_len = h.binary_file_read
          /\ h.cache_buf_len < BLOCK
          /\ h.cache_buf_len > 0 => h.cache_buf = Piece(HeaderSize + h.fed, h.cache_buf_len)

\* The decoder implements the stream: what the caller has after a call depends
\* on how much of the file it has supplied, not on the pieces; and the call that
\* supplies the last byte is the one that returns ESP_OK.
Stream == INSTANCE EncStream WITH
    len <- file.len,
    got <- delivered,
    status <- IF phase = "closed" THEN "closed"
              ELSE IF Reading THEN "reading"
              ELSE IF err = "OK" THEN "done" ELSE "failed"

IsStream == Stream!StreamSpec

\* A file that decrypt_end accepts after its body was begun was decrypted to the
\* last byte, and all of it was handed to the caller.
AcceptedIsWhole ==
    [][DecryptEnd /\ h.state = "DECODE" /\ err' = "OK" =>
           /\ file.authentic
           /\ delivered = file.len
           /\ supplied = HeaderSize + file.len]_vars

\* The header file says of is_complete_data_received that it checks if the
\* complete data has been supplied: once the body was begun, it does, also after
\* the last call or one that had no memory.
CompleteIsSupplied ==
    phase = "open" /\ h.state = "DECODE" =>
        (is_complete_data_received <=> supplied = HeaderSize + file.len)
=============================================================================
