------------------------------ MODULE OtaHttp -------------------------------
(* source/ota_ws_update_http.c, the state of its own: three globals that    *)
(* all websocket clients share, and what the last run of ota_ws_handler     *)
(* sent and returned.  The handler runs to completion in the one task of    *)
(* the http server, so each of its paths is one step.  The operators below  *)
(* are what a path does to the globals and to the socket; the calls it      *)
(* makes into the backend are conjoined in OtaWs, where the whole handler   *)
(* stands.                                                                  *)
EXTENDS Integers, Sequences

CONSTANTS
    ChunkSize,  \* CONFIG_OTA_CHUNK_SIZE with its low four bits cleared
    WordMod     \* 2^32, one past the largest size_t; checked with small ones

ASSUME WordAssumption == ChunkSize \in Nat /\ WordMod \in Nat \ {0}

VARIABLES
    ota_size,
    ota_start_chunk,
    ota_started,
    out          \* frames the last handler sent, and what it returned

httpVars == <<ota_size, ota_start_chunk, ota_started, out>>

FrameName == {"otaSetChunkSize", "otaGetChunk", "otaEnd", "otaError",
              "otaCancel", "otaCheckRollback"}

FrameType == [name : FrameName, value : Int]

\* Values that are wording, not numbers, are 0.
Frame(name, value) == [name |-> name, value |-> value]

HttpTypeOK ==
    /\ ota_size \in Int
    /\ ota_start_chunk \in Nat
    /\ ota_started \in 0 .. 1
    /\ out \in [sent : Seq(FrameType), ret : {"OK", "FAIL"}]

\* A return other than ESP_OK makes the server close the client's socket.  The
\* result of sending a frame is not looked at.
Reply(frames, ret) == out' = [sent |-> frames, ret |-> ret]

ClearSession ==
    /\ ota_size' = 0
    /\ ota_start_chunk' = 0
    /\ ota_started' = 0

HttpInit ==
    /\ ota_size = 0
    /\ ota_start_chunk = 0
    /\ ota_started = 0
    /\ out = [sent |-> <<>>, ret |-> "OK"]

----------------------------------------------------------------------------
\* Mutant: the globals of the session are kept.
ota_error_KeepsSession(code, ret) ==
    /\ Reply(<<Frame(code, 0)>>, ret)
    /\ UNCHANGED <<ota_size, ota_start_chunk, ota_started>>

\* Everything but its call of abort_ota_ws.
ota_error(code, ret) ==
    /\ ClearSession
    /\ Reply(<<Frame(code, 0)>>, ret)

handshake(pending) ==
    /\ Reply(IF pending THEN <<Frame("otaCheckRollback", 0)>> ELSE <<>>, "OK")
    /\ UNCHANGED <<ota_size, ota_start_chunk, ota_started>>

\* otaSize, once start_ota_ws has succeeded.
size_accepted(n) ==
    /\ ota_size' = n
    /\ ota_started' = 1
    /\ ota_start_chunk' = 0
    /\ Reply(<<Frame("otaSetChunkSize", ChunkSize), Frame("otaGetChunk", 0)>>, "OK")

\* Adding a size_t makes the comparison with ota_size unsigned: a negative
\* size is a huge one.
Unsigned(x) == x % WordMod

\* Mutant: the comparison is signed.
IsLast_Signed(len) == ~(ota_start_chunk + len < ota_size)

IsLast(len) == ~(Unsigned(ota_start_chunk + len) < Unsigned(ota_size))

\* Mutant: the next chunk is asked for before the offset is advanced.
chunk_written_Stale(len) ==
    /\ ~IsLast(len)
    /\ ota_start_chunk' = ota_start_chunk + len
    /\ Reply(<<Frame("otaGetChunk", ota_start_chunk)>>, "OK")
    /\ UNCHANGED <<ota_size, ota_started>>

\* Mutant: the next chunk is not asked for.
chunk_written_Silent(len) ==
    /\ ~IsLast(len)
    /\ ota_start_chunk' = ota_start_chunk + len
    /\ Reply(<<>>, "OK")
    /\ UNCHANGED <<ota_size, ota_started>>

chunk_written(len) ==
    /\ ~IsLast(len)
    /\ ota_start_chunk' = ota_start_chunk + len
    /\ Reply(<<Frame("otaGetChunk", ota_start_chunk')>>, "OK")
    /\ UNCHANGED <<ota_size, ota_started>>

last_chunk_installed(len) ==
    /\ IsLast(len)
    /\ ClearSession
    /\ Reply(<<Frame("otaEnd", 0)>>, "OK")

\* A frame the handler does nothing about, or one whose result it only returns.
no_reply(ret) ==
    /\ Reply(<<>>, ret)
    /\ UNCHANGED <<ota_size, ota_start_chunk, ota_started>>

\* The globals after a reset.
restarted == ClearSession /\ Reply(<<>>, "OK")
=============================================================================
