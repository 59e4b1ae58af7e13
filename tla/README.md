# A verification project for ota_ws_update

`ota_ws_update` is an ESP-IDF component that lets a web page update the firmware
of an ESP32 over a websocket. This directory holds TLA+ models of it, the TLC
configurations that check them, and TLAPS proofs of the properties of the device,
of the page and the device together, of the decoder of encrypted images, of the JSON
parser and of the example's server.

## The system

| Part | Source | State | Operations |
|---|---|---|---|
| http layer | `source/ota_ws_update_http.c` | `ota_size`, `ota_start_chunk`, `ota_started`: one set for all clients | one handler: handshake, text commands, binary chunks |
| plain backend | `source/ota_ws_update_esp.c` | `update_partition`, `update_handle`, `image_header_was_checked` | start, write, end, abort, check and process rollback |
| pre-encrypted backend | `source/ota_ws_update_esp_preencrypted.c` | the same and `enc_handle`, `enc_arg` with its buffer | the same, through the decoder |
| decoder | `esp_encrypted_img/src/esp_encrypted_img.c` | a handle: state, two counters, block cache, key, iv, tag, cipher | decrypt start, data, end, abort, completeness test |
| JSON | `private_include/jsmn.h`, `json_to_str_parm` | a parser and five tokens, for the length of a call | one name and one value out of a text frame |
| ESP-IDF (external) | app_update, bootloader | two OTA slots, OTA data, open handles | begin, write, end, select, abort, verdicts, reset |
| page | `source/ota_ws_update.html` | `otaData`, `otaSetChunkSize`, `otaStarted`, which buttons are shown | file selection, clicks, received frames, reload |
| example server | `example_ota_ws/main/example_echo_ws_server.c` | the static `server` | start by the main task, start and stop by network events |

How they interact. A window of the page sends `otaSize`; the http layer calls
`start_ota_ws`, which erases the slot that does not run, and answers with the
chunk size and `otaGetChunk 0`. From then on the device leads: each binary frame
is written, after decryption in the pre-encrypted mode, and answered with the offset
of the next, the last one with `otaEnd` after the image was verified and the slot
selected. `otaCancel`, any frame that fails and any call that fails go through
`ota_error`, which clears the session and aborts the update. After a restart the new
firmware is pending: the handshake makes the page show a panel to confirm it or to
roll back. One of the two backends is chosen when the firmware is built.

What is hard here. The http server runs one handler at a time, so the device
itself is sequential; but its session belongs to no socket, frames of several
windows interleave, and so do clicks and frames that cross on the wire. The binary
frames carry no offset. Power may go between any two flash operations. Three
layers, five with encryption, each keep a piece of the session. The decoder takes
input cut anywhere and counts its way through it; its handle and its buffer are freed
in several places. In the example two tasks write one static. `PROJECT.json` lists
these hazards one by one with the lines where they bite and the properties that
would show them.

What makes each part correct:

- http layer and backends: session, handle and flash position agree (`SessionInv`,
  `PipelineInv`); `otaEnd` is true (`EndMeansInstalled`), and with encryption an update
  selects only the firmware of a genuine file (`InstalledIsGenuine`).
- flash: the device can always start (`RunningIsWhole`), the OTA data never
  selects firmware that was given up (`VerdictInv`), there is a way back from an
  unconfirmed firmware (`FallbackReady`). Put abstractly: the device is an update
  service (`IsService`).
- page and device together: what the page shows is so (`PanelIsTrue`,
  `RestartIsReady`), an upload installs one file, the one whose data the page holds
  (`InstalledIsChosen`), verdicts come when due (`VerdictIsDue`), chunks come in order
  (`ChunksInOrder`), uploads end as long as no reply is lost (`UploadEnds`). That the
  page names the file it installs is not so (`InstalledIsShown`).
- decoder: every byte is taken once and in order whatever the cuts (`PositionInv`,
  `CipherInv`), it implements a stream (`IsStream`), what it accepts is whole
  (`AcceptedIsWhole`), it can tell whether all was supplied (`CompleteIsSupplied`).
- JSON: tokens are nested and stand where the text says (`NestInv`,
  `TokensAreRight`), a command of the page is read as meant (`CommandIsRead`).
- example server: the handle refers to the server that runs (`HandleRuns`), and one
  runs when the network is up (`Serves`).

## The modules

    EspOta <- OtaEsp    <- OtaWs    <- OtaPage <- OtaSystem
           <- OtaEspEnc <- OtaWsEnc
    OtaHttp, OtaDevice  <- OtaWs, OtaWsEnc
    OtaService          <- (refinement) - OtaDevice
    EncStream           <- (refinement) - EncImg
    EncStream           <- (used by)    - OtaEspEnc
    Jsmn   <- OtaJson
    EchoServer

**EspOta** is what the component relies on of ESP-IDF. A slot's contents are
abstracted to how many bytes were written and how many of them, from the start, are
those of one file: enough to know whether image verification accepts it. Files are
taken to differ in every byte. The bootloader is the operator `Reset`: it turns NEW
into PENDING, gives up a PENDING image that is started a second time, and passes over
a slot that does not verify. A call of the library is one operator for success and,
where a caller can tell, one named `..._fails`.

**OtaEsp** is the plain backend. The image header check looks at lengths only:
the first chunk must be longer than `HeaderLen`.

**OtaEspEnc** is the pre-encrypted backend. `enc` holds its statics: who owns the
decoder's handle and the buffer `data_out` (`NULL`, `live` or `freed`, as the pointer
reads), which plaintext the buffer holds, and how far the decoder has come. The
decoder is the operator `decrypt_data`, which gives back what `EncStream` promises as
long as every byte comes in its place, and bytes of no firmware after that. The calls
take `enc` as a value and return it, since a failing call aborts and the http layer
then aborts once more. Freeing what was freed makes the heap `corrupt`; what the
program does after that is not modelled but for the reset in which it ends.

**OtaHttp** holds the globals of the http layer and what each path of the handler
does to them, to the socket (`out`, the frames sent and the return value) and
nothing else. `Unsigned` is the conversion C makes in line 188: the sum with a
`size_t` makes the comparison with the `int` unsigned, so a negative size is a huge
one. `WordMod` stands for 2^32.

**OtaWs** and **OtaWsEnc** are the device with the one and with the other backend:
each action is one run of `ota_ws_handler` with every call it makes. A client is free
to send any command and any piece of any file. Power loss is an action between two
runs and at the two points inside a run where the flash has changed and the answer
was not sent. **OtaDevice** holds what both owe their owner.

**OtaService** is the abstract specification of the device: the firmware that runs, a
whole one beside it or none, whether the first is on trial, what the next start
does, and whether a session is under way. Slots, pieces, handles, image states and
commands are gone. `Service` in OtaDevice is the mapping: the firmware beside is the
other slot if it is whole and was not given up.

**Jsmn** is the parser in the build the component uses (static, not strict, no parent
links), one character class at a time; a token superior to others is found as in the
code, by search. **OtaJson** feeds it texts that may end anywhere and reads a pair
off the tokens as `json_to_str_parm` does. The texts are those of `Template`, a set
of sequences of character sets; `IsCommand` says what the page's `JSON.stringify` makes
of its commands, and those of `Template` are such texts. Characters have names
("lbrace", "comma") rather than being themselves.

**OtaPage** is the script of the page. A window's record holds the variables of the
script, the file it names as chosen (`fileName`), how many `FileReader`s are at work on
each file (`reading`), and the visibility of the elements that decide what can be
clicked. Every choice of a file makes a reader of its own; readers end in any order, with
`onload` (`FileRead`) or with `onerror` (`FileFails`), which leaves name and data of
different files. `otaFileSelect` is disabled exactly when
`otaStarted` is 1, so it has no field of its own. A socket is two FIFO queues; `conn`
is `closing` from the moment the device end is gone until the page reloads, and what
the page sends then is dropped, as browsers do. After `goHome` the frames already
sent still reach the device.

**OtaSystem** joins windows and device: the head of one queue is what the handler
runs on. A return other than `ESP_OK` closes the socket and drops what it held. No
caller of `send_json_string` looks at its result, so any reply may be lost on a socket
that stays open (`Delivered`), and of the two frames that answer `otaSize` either. A
reset cuts all sockets. `Disconnect` loses any suffix of what was under way,
`FrameLost` is a frame that cannot be received or stored. `Connect` makes an assumption:
the new socket is another TCP connection than the last one of that window, two seconds
or a click younger, and the server is taken to have read all it will get of the old one
before it answers the handshake of the new.

**EncImg** is the decoder. Instead of bytes, a buffer holds the piece `[at, len]` of
the file that was copied into it, or `Torn`, and the cipher knows how much it was fed
and whether all of that came in order, in whole blocks and inside the output buffer. A
call runs the data through the stages of the `switch` in the order of its fall-through;
each stage is an operator from call to call. Allocation failures inside `process_bin`
and `decipher_gcm_key` are the argument `mem`. The sizes of the header fields
are constants.

**EncStream** is the abstract specification of the decoder: the plaintext handed out
is a function of how much of the file was supplied. `EncImg` implements it under the
mapping written above `Stream`.

**EchoServer** is the server of the example application. The main task registers
four event handlers and then starts the server; the handlers, in the task of the event
loop, start and stop it. Each access of either task to the static `server` is a step:
`start_webserver` is the call of `httpd_start`, the registration of the pages and the
assignment of the result. `httpd_start` fails when the port is taken or memory is
wanting.

Definitions named `X_Something` with a comment that starts with "Mutant" are wrong
variants of `X`; each breaks a property, which shows that the property depends on `X`
being as it is.

## The runs

| Run | Instance | What it shows |
|---|---|---|
| `device` | two files of 3 bytes, slots of 4, header of 1, otaSize of -1, 0, 2, 3, one lost handle, words of 16, any client | `TypeOK`, `SessionInv`, `RunningIsWhole`, `VerdictInv`, `FallbackReady`, `EndMeansInstalled`, `IsService` hold |
| `encrypted` | the same flash, encrypted header of 1, blocks of 2, one genuine file and one with a wrong tag, otaSize of 0, 3, 4, memory that runs out in any call | `TypeOK`, `PipelineInv`, `InstalledIsGenuine`, `IsService` hold |
| `handle_cleaned_twice` | the same | `HeapSound` is violated |
| `decoder` | fields of 2 or 3 bytes, blocks of 3, binaries of 1 to 8 bytes, pieces of any length, files with a wrong magic, key or tag, no memory at any call | `TypeOK`, `PositionInv`, `CipherInv`, `CompleteIsSupplied`, `IsStream`, `AcceptedIsWhole` hold |
| `system` | one window with a patient user, two files of two chunks, each read by at most one reader at a time, two frames under way when a click is made, any reply lost | `SystemTypeOK`, `PanelIsTrue`, `RestartIsReady`, `ChunksInOrder`, `InstalledIsChosen`, `VerdictIsDue`, `IsDevice` hold |
| `upload_ends` | one window, any user, a file too short for the header and one of two chunks, rollback off, no reply lost | `UploadEnds` holds under fairness |
| `quick_restart` | one window, a user who does not wait, three frames under way, no reply lost | `ChunksInOrder` is violated |
| `file_shown` | one window, patient user, no reply lost | `InstalledIsShown` is violated |
| `late_cancel` | one window, patient user, no reply lost | `CancelledIsDropped` is violated |
| `two_uploads` | two windows, patient users, no reply lost | `RestartIsReady` is violated |
| `json` | five tokens; all texts of six brackets, separators, quotes and letters, strings with six characters of every escape, the commands of the page | `TypeOK`, `NestInv`, `TokensAreRight`, `CommandIsRead` hold |
| `example_server` | two handles `httpd_start` may give, the four events in any order | `TypeOK`, `HandleRuns`, `Serves` hold |

Why the bounds are enough. In `device` a file needs two chunks at least, a chunk may
be too short for the header, two files can be mixed, a slot can be overfilled by one
byte, and a size of each kind (negative, zero, too small, right) meets the
comparison; more bytes repeat these cases, and the proofs hold for any number.
`MaxLeaks` bounds the handles an `otaSize` inside a session loses: at the bound
`esp_ota_begin` can only fail, which is what a full heap does. In `encrypted` a file
is its header and a block and a half, so that a piece can end in the header, at a
block or inside one; the negative size is left to `device`, the http layer being the
same. Lost decoder handles and buffers are not counted. In the system `MaxFrames`
bounds only the clicks: the user does not click while that many frames are under way.
The queues themselves are not cut. Two are enough for a command that crosses an answer;
for Cancel and Start while a chunk is being written, and the answer to that chunk still
to come, it takes three, as in `quick_restart`. `MaxReaders` is 1: a file is not chosen
again while it is being read, but the two files are read at once and end in either order.
`SendFails` says whether replies may be lost on an open socket. `Patient` says that Start
is clicked only when nothing is under way and no file is being read; it restricts only
that click. In the decoder a binary of 8 bytes has two whole blocks and a remainder, and
every field is longer than one byte, so that it can be cut; the key field is as long
as the block, others shorter. Six characters of JSON are enough to open three
containers and close them in a wrong order, to exhaust the five tokens and to nest a
key in a value; an escape of six characters is a backslash, `u` and four digits. Two
handles are enough for an old server and a new one.

Fairness. `UploadEnds` needs that the server's task goes on reading frames
(`DeviceHandles`) and the browser goes on calling `onmessage` (`PageReceives`): both
are loops that take the next frame whenever there is one. Weak fairness is enough
since each stays enabled until it is taken. Nothing is assumed of users, networks and
power: a frame of the page that is lost closes the socket, an outcome the property allows
for. A reply that is lost does not, since the handler ignores that it could not be sent:
after a lost `otaGetChunk` the page waits until its user cancels. The property takes it
that no reply is lost. With two windows it does not hold either: a window whose session
was cancelled by the other waits for an answer to a chunk the handler ignores.

The system may stop nowhere: a deadlock would be reported in every run.

## What disagrees with the repository's own words

Five findings, each a run with one property (`PROJECT.json`, "findings"):

- `quick_restart`: Cancel and Start are clicked while the device writes the first chunk.
  The page, in its second attempt by then, answers the request for the next one, and that
  chunk reaches the new session, behind `otaCancel` and `otaSize`, as its first. Nothing
  wrong gets selected by this, the header check or verification refuses it, but the
  upload fails.
- `file_shown`: the page names a file as chosen before it has read it. When it cannot
  be read the file read before it is still there, and Start installs that one under the
  other's name; so it is, too, when the reader of an earlier choice ends last.
- `late_cancel`: a cancel that arrives after the last chunk is answered with
  `otaCancel` though the firmware was installed and will start with the next reset.
- `two_uploads`: a second window can erase what the first one offers to restart with.
  The device then falls back to the firmware it runs.
- `handle_cleaned_twice`: `decrypt_end` cleans up the decoder's handle, but the
  pre-encrypted backend keeps it, and the buffer's pointer after a success, and
  cleans up again with the next abort.

Seen while modelling and not given a run:

- `decrypt_end` of a decoder that is still in its header returns `ESP_OK`
  (`esp_encrypted_img.c:424`), the header file (line 118) says `ESP_FAIL`. `EncImg` has
  it; it is why `AcceptedIsWhole` speaks of files whose body was begun, and why
  `InstalledIsGenuine` needs that no firmware is in the flash before that.
- `json_to_str_parm` takes a text of two tokens for a pair and copies the name from a
  token the parser did not fill in (`ota_ws_update_http.c:49-55`), where its comment
  speaks of one pair. `OtaJson` has it (`Unfilled`).
- In pre-encrypted mode the firmware is in the flash before its tag is checked. A file
  refused there has left a whole firmware in the slot, not selected; a rollback selects
  and starts it all the same. `InstalledIsGenuine` is about what an update selects.
- `is_complete_data_received` is true of a handle that was just made; the header file
  (line 131) says when the complete data was supplied. The component
  never calls it.
- The rollback panel of a second window outlives the verdict given in the first.
- An `otaSize` inside a session overwrites the decoder's handle and its buffer
  without freeing them (`ota_ws_update_esp_preencrypted.c:81`).
- In the example the main task's start can fail because an event handler has started
  the server, and overwrites that server's handle with NULL: it serves on, and cannot
  be stopped (`example_echo_ws_server.c:159`).

## The proofs

| Module | Theorems |
|---|---|
| `OtaWs_proofs` | `Typing`, `Session`, `AlwaysStarts`, `Verdicts`, `WayBack`, `EndTruth`, `Implements` |
| `OtaWsEnc_proofs` | `EncTyping`, `EncPipeline`, `EncGenuine`, `EncFlash`, `EncImplements` |
| `EncImg_proofs` | `Typing`, `KnowsPosition`, `FeedsCipher`, `TellsComplete`, `AcceptsWhole`, `ImplementsStream` |
| `OtaSystem_proofs` | `SystemTyping`, `DeviceInSystem`, `PanelTruth`, `VerdictTruth`, `RestartTruth`, `ChunkOrder`, `FileTruth` |
| `OtaJson_proofs` | `JsonTyping`, `JsonNesting`, `JsonTokens`, `CommandRead` |
| `EchoServer_proofs` | `ServerTyping`, `HandleIsRunning`, `ServerServes` |
| `OtaDevice_proofs` | lemmas both devices share |

They hold for every set of files, every size of image, slot, chunk, header field,
block and word, every value `atoi` may return, with rollback on or off and replies lost or
not, under the named assumptions of the modules. Nothing is assumed of clients or of when power goes.

**The plain device.** `SessionInv` is inductive together with the types: every path
that clears the session also closes the handle (`SessionOver`), the offset grows by
exactly what the flash takes (`AppendedType`), and an offset below the announced size
is what `IsLast` has just denied; the sizes fit a word, so the unsigned comparison of
offsets is the one of numbers (`UnsignedSmall`). `EndTruth` is a property of steps and
follows from the types and `SessionInv`.

**The flash, for both devices.** What a handler, a call that fails in it, or a loss of
power does to the flash is one of eight steps (`DeviceStep` in `OtaDevice_proofs`): it
erases the other slot, writes a piece into it, selects it, gives a verdict, restarts,
or none of these. `IsDeviceStep`, proved once per device, goes through the actions;
the rest is proved once for the eight steps. The three flash properties are not
inductive one by one: that the running slot stays whole over a reset needs to know
which slot the OTA data can select, and that in turn needs the verdicts. Their
conjunction `FlashSafe` is (`SafeStep`). A reset is treated once for every state it
can be called in (`ResetSafe`). The key step is an erase: the slot is not the
running one, and while a verdict is due ESP-IDF refuses to begin.

**The update service.** `ServiceStep` maps each of the eight steps to a step of
`OtaService` or to one it does not see, given `FlashSafe`. The three facts it rests on:
a piece never makes a whole slot less than whole, it can only complete one
(`WriteReceives`); a reset that does not end a trial is a restart of the service,
whichever of the two slots it selects and however far an upload had come
(`ResetRestarts`); and a reset that ends a trial finds the old firmware. `Implements`
and `EncImplements` follow.

**The encrypted device.** Types and `PipelineInv` are inductive only together: that
the decoder gives back no negative length follows from what the flash already holds.
The plaintext of a file grows with what was supplied of it (`Floor`,
`PlaintextGrows`), so the piece a call gives back is the one that follows what lies in
the slot (`OutputOf`, `WriteStep`). `EncGenuine` needs one fact more (`AcceptedIsGenuine`):
`decrypt_end` of a decoder still in its header accepts, but then nothing of a firmware is
in the slot and verification refuses. It covers both ways in which an update selects its
slot, with `otaEnd` sent and with a reset before that. These theorems take it that a heap damaged by a second free
ends in a reset before any handler does something else; `HeapSound` itself is violated.

**The decoder.** The invariant `Inv` says of the state between two calls where in the
file the decoder is and what cache and cipher hold. A call is a chain of stages; for
each stage there is a lemma that it hands the next one what that needs (`MagicStep` to
`BinStep`), over an account of the bytes of the call that are used up. The
`process_bin` stage is the long one: what is in the cache, whole blocks, and a
remainder, for data that may begin and end anywhere; its arithmetic of multiples of a
block is in lemmas of its own. `ImplementsStream` follows from `Inv`: the state of the
stream is a function of how much was supplied. The assumptions on sizes are those of
the code's buffers: the magic and the block are no longer than the key, and the vector,
the length field and the tag fit a block.

**Pages and device together.** What the device does in `OtaSystem`, for any number of
windows and whatever their users do, is what it may do with some client of `OtaWs`:
`DeviceInSystem` follows from `SysSpec => Spec` (`SystemIsDevice`), so every theorem of the plain device holds of the
system. Each action of the handler takes its command from the head of a queue, and
`FramesInv` says that only frames a page can send are there, which is inductive only
together with the types. `PanelTruth` and `VerdictTruth` take it that there is one
window (`OneWindow`); `RestartTruth`, `ChunkOrder` and `FileTruth` in addition that its
user waits before Start (`Patient`). Both are needed: `two_uploads` and `quick_restart` are
what happens without them. The inductive invariant, `WindowInv`, relates the two queues to the
session and to the page: there is one occasion for a verdict (`VerdictToken`) and one
frame that keeps an upload going, the size, the request for a chunk or the chunk
(`ChunkToken`); the request is for the offset the device expects, and a chunk that no cancel
overtakes begins there (`UploadInv`); nothing on its way to the page says that a running
session is over (`SessionOn`); from `otaEnd` on the new firmware is whole, selected and
due for its first start (`EndInv`); and what is under way and in the flash is of the
file whose data the page holds (`FileInv`). A reply that is lost leaves less in a queue
(`Remains`), and all of these parts bear that. `AnyStep` gives for every action of the system what it does
to one window's record and queues; the parts of the invariant are proved over that, a
lemma each.

**The JSON parser.** These theorems hold of every set of texts and every length of the
array. `ReadInv` says, of the text read so far, that the tokens made lie before what is
being read, are nested or apart and carry the right brackets and quotes, that what lies
between them separates, and that whoever is to count the next token exists (`Good`,
`Owned`); of a string being read, that every quote in it follows an odd number of
backslashes and whether the parser is in an escape tells the parity of those right before
the present (`Slashes`, `NextSlashes`). For the search of the innermost open container the prover has
to know that a set of positions has a greatest element, which comes from
well-foundedness (`MaxOfSet`). From this follow `JsonTyping`, `JsonNesting` and
`JsonTokens`. `CommandRead` takes room for five tokens, as `json_to_str_parm` has, and
follows the parser through a command: `Phase` says for each position of the text which
tokens there are and what they count, whatever the lengths of keys, name and value and
whatever characters but quotes and backslashes stand in them.

**The example server.** `ServerTyping` is the type invariant. `HandleRuns` is inductive with what each task that is in the
midst of `start_webserver` holds: at most one of the tasks holds the server that runs,
and then the static does not name another. `Serves` needs, in addition, that a start
which failed for the port leaves another task's server behind.

Only model-checked: `UploadEnds`, since liveness and enabledness are beyond the prover.
Every other property of a passing run is a theorem. Of the properties that a run finds
violated, `RestartIsReady` and `ChunksInOrder` are theorems under the hypotheses above, which
those runs break.

## Not modelled, and why

- jsmn's strict and parent-link builds, counting without tokens, and resuming a parse:
  not built in or not called. The 64-byte buffers of the name and the value: texts are
  short in the model, and the copy is known by the place it is taken from.
- A text frame without payload, for which the handler passes NULL to `strlen`.
- The handler's comparison of the name with each command: the names are distinct, so
  `OtaWs` makes it a choice of one action.
- Registration, the handler that sends the page, the echo and page handlers, WiFi and
  mDNS start-up of the example: no state of their own that the update depends on. The
  image generator fixes the layout `EncImg` uses. Build options are constants. The
  older page is not built in.
- A click before the socket is open (the browser throws), and the reload after
  `onerror` in addition to the one after `onclose`.
- Memory that is lost in pre-encrypted mode, and what runs on a damaged heap.

## Plan

Done: the device with both backends, its abstract service, and the proofs of both; the
decoder with its proofs; pages and device together, with the proofs for one window; the
JSON commands with theirs; the example's server. What is left: the lock step of a page
and an encrypted device, and what remains true of several windows at once.
