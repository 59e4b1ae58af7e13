------------------------------ MODULE EncStream -----------------------------
(* What esp_encrypted_img_decrypt_data promises, whatever the pieces an     *)
(* encrypted image arrives in: how much plaintext the caller has after a    *)
(* call depends only on how much of the file it has supplied.  Whole blocks *)
(* are handed over as soon as they are there and the last, incomplete one   *)
(* with the end of the file.                                                *)
EXTENDS Integers

CONSTANTS
    HeaderSize,  \* bytes before the encrypted binary, a number
    BLOCK        \* bytes of a cipher block, a positive number

VARIABLES
    len,       \* length of the binary inside the file being read
    supplied,  \* bytes of the file supplied so far
    got,       \* bytes of plaintext handed out so far
    status     \* "reading", "done", "failed" or "closed"

streamVars == <<len, supplied, got, status>>

Plaintext(l, s) ==
    IF s = HeaderSize + l THEN l
    ELSE IF s <= HeaderSize THEN 0
    ELSE (s - HeaderSize) - ((s - HeaderSize) % BLOCK)

Fresh == len \in Nat \ {0} /\ supplied = 0 /\ got = 0 /\ status = "reading"

Open ==
    /\ status = "closed"
    /\ len' \in Nat \ {0}
    /\ supplied' = 0
    /\ got' = 0
    /\ status' = "reading"

Supply ==
    /\ status = "reading"
    /\ supplied' \in supplied .. HeaderSize + len
    /\ got' = Plaintext(len, supplied')
    /\ status' = IF supplied' = HeaderSize + len THEN "done" ELSE "reading"
    /\ UNCHANGED len

\* The file is refused, or there is no memory: nothing more is handed out.
Fail ==
    /\ status = "reading"
    /\ supplied' \in supplied .. HeaderSize + len
    /\ status' = "failed"
    /\ UNCHANGED <<len, got>>

Close ==
    /\ status # "closed"
    /\ status' = "closed"
    /\ UNCHANGED <<len, supplied, got>>

StreamNext == Open \/ Supply \/ Fail \/ Close

StreamSpec == Fresh /\ [][StreamNext]_streamVars
=============================================================================
