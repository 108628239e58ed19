# Verification of d20tempest

TLA+ models of the d20tempest server (a manager of characters for d20 role
playing games), the TLC runs that check them, and theorems about them checked by
TLAPS. Paths are relative to the repository; `CM` stands for
`d20tempest/src/characters/character_manager.cpp`, `CH` for
`d20tempest/src/characters/character.cpp`, `TC` for
`d20tempest/src/communication/tcp_client.cpp`, `TS` for
`d20tempest/src/communication/tcp_server.cpp` and `AB` for
`d20tempest/include/components/ability.hpp`; `tcp.c` is
`externs/libuv/src/win/tcp.c`.

## 1. Inventory

| component | state | operations | correct when |
|---|---|---|---|
| CharacterManager (CM) | static map `ms_characters` id -> Character; the directory `./characters/` | `CreateCharacter`, `LoadCharacter`, `Dump`, `Dump(id)`, `CreateCharacterID`, (`DumpAll`, `operator[]`, `ListExistingCharacters`: no caller) | a created character is registered, alive and on file; no file is lost or overwritten by something else |
| Character (CH) | id, name, abilities, pointer to its client | constructor (leaves two handlers with the client that capture `this`), `Save`, `Load`, `AddAbility` (no caller) | saving and loading are inverse; nothing is read through a captured `this` that is gone |
| Ability (AB) with its Lua script | value, temporary bonus, cached modifier and its flag | constructor, `Modifier`, `Value(v)`, `Temp(v)`, `ResetTemp`, `Save`, `Load` | the modifier shown and saved is that of the value and the bonus |
| TCPClient (TC) | the uvw handle, `m_heloParsed`, handlers by entity, disconnection handlers | DataEvent (HELO, CREATE, LOAD, data messages, refusals), EndEvent, ErrorEvent, `Send` | nothing before HELO; every request handled once and answered; a refusal refuses something that was wrong |
| TCPServer (TS) | listening handle, map of clients, the loop's thread | ListenEvent, constructor, destructor (close, stop, join) | every client served; the destructor returns |
| main (`d20tempest/src/main.cpp`) | - | start the server, wait for a key, `Dump`, end | everything registered is on file at the end |
| interfaces (`iclient.hpp`, `iserializable.hpp`) | none | - | - |
| libuv TCP (`externs/libuv/src/win/`) | of a handle: flags, counts of its requests; of the loop: active handles, pending requests, endgames, the stop flag; the kernel's completion port | queue, complete and process accepts, reads and writes; poll; close and endgame | counts are those of the requests that are out; nothing is freed under the kernel; `run` lasts as long as there is something to do and ends when told to |
| uvw streams (`externs/uvw/src/uvw/`) | resources that hold themselves until their callback | `listen`, `accept`, `read`, `write`, `close`, `run`, `stop` | data until one end of the reading; each write called back once |
| JSON text (`externs/nlohmann/`) | the parser's stack of open values | `dump`, `operator>>` | what was dumped is read back; what was cut is refused |
| the other vendored libraries (`externs/`) | - | sol3 and Lua: scripts; GSL, EnTT: hardly used | used as documented |

**How they interact.** One thread runs libuv's loop and every handler of every
client; the main thread waits for a key, dumps and destroys the server. A
`TCPClient` calls the `CharacterManager`; the Character it makes registers
handlers with the client, which call the manager again when the client leaves.
The registry is static and shared by both threads without a lock; the files are
shared by both threads and by successive runs of the program.

**What is hard.** Every character has id 0, so the registry holds the first of
a run and silently drops the rest; dropped (and loaded) Characters are freed
while handlers still capture them; `Dump` removes a file before it writes it, on
two threads; a kill may fall between any two file operations; TCP delivers bytes
and the server takes each read for a message; a request for an unknown
character ends the process; the shutdown closes a handle and stops the loop from
another thread than the loop's, in a library that is not thread-safe; answers are
written from buffers that are freed at once; a save file may be any beginning of
its text. Each is listed with its line under `hazards` in `PROJECT.json`, with the
properties that would catch it going wrong; where the repository promises nothing
that such a property could state (a taken port, clients and writes without bound,
files that others edited, values set past the cap) a note says how it is modelled.

## 2. Modules

| module | models | checked by |
|---|---|---|
| `CharacterManager` | the registry, the Character objects in memory, the save files; CreateCharacter, Dump, Load and Save as operators | through `D20Tempest` |
| `TCPClient` (extends it) | one action per branch of the handlers of a client | through `D20Tempest` |
| `D20Tempest` (extends it) | accepting, main, kill and restart; the properties of the whole program | runs `core`, `created_is_saved`, `unknown_is_answered`; `D20TempestProofs` |
| `CharacterArchive` | abstract specification: what the directory of save files promises | refinement in `core` and `D20TempestProofs` |
| `SaveFile` | the file operations of Dump and Load on two threads, with kills between them | run `save_file` |
| `MessageStream` | one connection: bytes, reads, messages | runs `stream`, `malformed_is_malformed`; `StreamProofs` |
| `TCPServer` | main and the loop's thread, with libuv's loop and the listening handle, one access to shared state a step | runs `tcp_server`, `stop_ends_run`; `TCPServerProofs` |
| `TCPHandle` | the handle of one connection: Send, uvw's WriteReqs, libuv's read and write requests, the kernel's send buffer | runs `tcp_handle`, `buffer_outlives_write`; `TCPHandleProofs` |
| `ClientStream` | abstract specification: what uvw promises TCPClient of a handle | refinement in `tcp_handle` and `TCPHandleProofs` |
| `JsonText` | the writer and the parser of JSON, each a machine over tokens | through `CharacterFile` |
| `CharacterFile` (extends it) | Save and Load of characters and abilities: the formats they accept | run `character_file`; `CharacterFileProofs` |
| `Ability` | an ability with its cache and the overflow of int | run `ability`; `AbilityProofs` |
| `SequenceCounts` | lemmas: how many elements of a sequence are in a set | cited by `TCPServerProofs` and `TCPHandleProofs` |

`SaveFile` has its proofs in `SaveFileProofs`. `MCD20Tempest`, `MCAbility` and
`MCCharacterFile` give constants their values for TLC. An operator that no other one uses, and that stands right before one of the same
parameters, is a faulty variant of it (an overwriting insert, a gate that lets
everything through, ...): `mutants` in `PROJECT.json` says which property it
breaks when it takes the other's place, so that no property is one the code
could not break.

### State and code, core

* `ms_characters` is a function of the ids, `Null` where the map has no key.
  `heap` has the Characters that are alive by address: `std::make_shared` takes
  any free address, so a freed one may be used again. A Character is freed when
  the handler that made it returns, unless the registry holds it.
* `files` has the content of every path under `./characters/`: `Absent`, save
  data, or `Malformed` for anything LoadCharacter throws on (not JSON, a field
  missing, the directory itself for the empty name). `Names` are names of
  distinct files. `Unwritable` are names `std::ofstream` cannot open, such as
  those with characters Windows forbids; the stream fails and nobody looks.
* An ability sheet maps an ability to value and bonus; saving adds the modifier
  of the script, loading does not read it back. Characters made by CREATE have
  no abilities; those in provided files may.
* `m_disconnectionHandlers[c]` is the sequence of addresses the handlers of a
  client captured. The constructor adds one handler for departure and one for
  `character/ability` messages, so one sequence stands for both vectors.
* `EndEvent` reads `m_characterID` through every captured address. Where no
  Character is, the read gives any id, or ends the process (`EndEventFaults`):
  what undefined behaviour can come to here.
* `reply` is the last message given to `Send`. It may be the last thing a
  process does.
* `process` is `serving` until main's dump, `dumped` until the loop is joined,
  `stopped`, or `faulted` (uncaught exception, null dereference, kill). Nothing
  catches an exception thrown in a handler: `uvw::Loop::run` is `noexcept`.

A handler never waits, and there is one loop thread, so a handler is one step.
In the core main's Dump is one step too; `SaveFile` opens it up: its operations
interleave with those of the loop thread, for the file of the one character
that `OneCharacterPerRun` shows there is. The map itself is not locked either: while
the loop thread inserts, main's iteration may find the character or find the map
empty (`MayFind`, `MayFindEmpty`). There a remove of an open file throws,
as the program is built for Windows (its sources compile with MSVC only).

### State and code, the server's two threads

* `pc` has the place of each thread. A step makes one access to state that both
  threads touch; where one of them could not notice, several statements are one
  step. `active_handles++` is a load into `seen` and a store, since two threads do
  it without a lock and either update may be lost; a handle's `flags` word is
  changed at once. Accesses take effect in program order (x86 as MSVC compiles the
  `unsigned int` fields; the reorderings of weaker machines are left out).
  Assertions are off, as in a release build.
* `TCPServer` follows an accept request through the kernel (`accepting`), the
  completion port (`port`), the loop's `pending_reqs` and the `batch`
  `uv_process_reqs` has taken. Of the requests of clients it has only that a
  handle has data or ends.
* Both threads may be between the test and the push of `uv_want_endgame`; the list
  then runs in a circle (`endgame_next`) and the handle may be closed twice
  (`closeEvents`). Once the socket is closed a request may be queued again by a
  loop that did not see it yet: it fails at once (`QueueAcceptFails`).
* `bound` says what bind came to. With the port in use, bind and listen fail to an
  ErrorEvent nobody listens to; the loop's thread starts, finds nothing active and
  ends. After any other error of bind, listen takes some port that no client knows:
  the loop runs for nobody. A `socket()` or AcceptEx that fails once, one of the
  constructor's among them, ends the listening without a word (`failed`).
* Three simplifications: `flags` are changed in one step where the code clears two of
  them in two (tcp.c:1104-1106 and 1410-1412, the one on the loop's thread and the
  other on main's); a client that connects before the constructor's first AcceptEx
  is accepted through the port, though AcceptEx may be complete at once then; and
  `m_clients` is never smaller before the end, since nobody closes the handle of
  a client that left and the CloseEvent that would erase it (TS:28) never comes.

### State and code, one connection's handle

* libuv reads with a request of no bytes, as the threshold up to which it would
  give the kernel a buffer is 0 (tcp.c:38); when it completes, the loop reads what there is,
  at most 32 times (`MaxReads`), and queues the next request. A chunk is what one
  read returns, and the handler of its DataEvent sends one answer or none.
* `uv_tcp_write` is complete at once when the send buffer has room: its request
  then goes to `pending_reqs`, past the port, before older completions. Otherwise
  the kernel keeps it (`sending`), with a pointer to the bytes that `Send` frees as
  it returns; `freedSent` remembers the writes whose bytes were taken afterwards.
* `leaked` has the WriteReqs that hold themselves, `outcome` what was called back
  of each write. `disciplined` clients read each answer before they write again.
* The handle is never closed: its handlers for the end and for errors do not, and
  nobody else has it.
* `ClientStream` is mapped by `Reading`: a handle reads ("open") until its EndEvent
  ("ended") or the error of a read ("broken").

### State and code, save files

* A text is a sequence of tokens; white space, escapes and digits are the lexer's.
  Numbers are integers. The parser's stack (`states`) and the builder's
  (`ref_stack`) refer to the same open values: one stack of frames is both.
* `serializer::dump` calls itself; `dump` is the state of that recursion: the value
  it is at or returns from, the stack of its calls with the members each has left,
  and the text so far (`Continued` is one step of it). Which member of an object
  is next is left open: the keys of a `std::map` are ordered, by what is no matter.
* `Kill` falls between any two steps of the writer and leaves any beginning of what
  was written, cut within a token too: a number may lose its last digits and still
  be a number, a string may not. `Edit` leaves any member out, gives it an odd
  value or names an unknown script.
* `Character::Load` means to test three members, but `is_discarded()` is false of
  every value `operator>>` returns, and of the three only `id` is looked for
  (`GoodFormat`). What it reads without looking is a `const operator[]` of a key
  that is not there: undefined behaviour, the outcome `"undefined"`.
* `TornRefused` and `SavedLoadsSame` are what lets `SaveFile` and the core take a
  file for something that loads as it was saved or does not load.

## 3. Runs

| run | question | bounds |
|---|---|---|
| `core` | Do registry, live objects, files and clients stay consistent under every order of requests, departures, broken connections, main's dump, kills and restarts? Does the program implement `CharacterArchive`? | 2 clients a run, 3 names (one unwritable), 2 addresses, 2 ids, 2 handlers a client (`MaxHandlers`), 4 directories to start from; about 1.1 million states |
| `created_is_saved` | Is a character that CREATE was answered with on file? No: the second of a run is not | as `core` |
| `unknown_is_answered` | Does the server survive its own "Unknown entity"? No after a LOAD: null dereference, TC:244 | as `core` |
| `stream` | What is handled of what a client writes, however it is cut and joined? | 4 messages of 2 pieces, reads of up to 5 pieces |
| `malformed_is_malformed` | Is what is answered "JSON malformed" malformed? No: a request that arrives in two reads is, too, from a client that said HELO and waited until it was read | 3 messages |
| `tcp_server` | Are requests counted and freed right, does the loop run while it should, is who connects served, is who was connected served on when an accept failed, and does a stopped loop that wakes end, in every interleaving of the destructor with the loop? | 2 clients, 1 simultaneous accept, `active_handles` modulo 8; about 450 000 states |
| `stop_ends_run` | Does the server stop when told to? No: the loop may sleep on | 1 client, 1 accept |
| `tcp_handle` | Do libuv's and uvw's counts agree with the requests that are out, is no answer dropped and each write called back, is a departure seen? Does the handle implement `ClientStream`? | 3 chunks, 2 reads a request, room for 1 answer; about 16 000 states |
| `buffer_outlives_write` | Do the bytes given to write() live until they are written, as uvw demands? No: not for a client that has left an answer unread | 2 chunks, room for 1 answer |
| `character_file` | Is every torn file refused, and does every saved one load as it was saved? | 2 scripts, 2 scores (of one and two digits, one negative bonus), 2 ids; about 85 000 states |
| `ability` | Are the cached and the saved modifier those by the rules, in every order of calls, though the bonus overflows? | an int of 4 bits, 3 arguments, sums of bonuses up to `MaxGiven`; about 120 000 states |
| `save_file` | Which interleavings and kills damage a save file or end the server? | 2 threads, unbounded runs and restarts |

Why the bounds are enough. Two names that can be written and two clients
are the least with which a second character of a run, another client's dump and
a character loaded by one client and created by another occur; with two
addresses a freed one is used again at once. A third
handler repeats what the second does. Ids other than 0 occur only in files and in
reads through dangling addresses, so one is enough. With messages of two pieces
a read may cut, join, or cut after joining; four messages allow a HELO before
and after a request. The int of four bits overflows by one addition, and `MaxGiven` lets
the bonus overflow and come back.
With one accept request the second client waits in the backlog until the request
was queued again; more of them only shorten that wait. `active_handles` cannot
reach 8 with two clients, and a decrement too many wraps around it as it does
around 2^32. With three chunks the second answer fills a send buffer of one and
the third is queued while the first is still to be called back; two reads a
request let a third chunk find the loop at its limit. Texts have no, one and two
abilities: an empty object, one without and one with a separator.

What the passing runs show:

* A run registers at most one character (`OneCharacterPerRun`), which belongs to a
  client that said HELO (`OwnersSaidHelo`) and whose departure dumps it
  (`OwnerCapturesRegistered`), and whose file is up to date after every step although
  dumps run through dangling captures too (`RegisteredPersisted`).
* No file that exists is ever changed (`NoClobber`): Dump writes again what is
  there. So what a LOAD was answered stays true (`LoadedAsOnFile`). The files change
  only in the step of a CREATE, by the character it answers (`OnlyCreateWrites`): no
  Dump of a departure, through whatever capture, or of main has anything left to
  write, so that a process killed before main's Dump has lost nothing by it.
* The program as a whole is an archive to which each run adds at most one blank
  character (`ImplementsArchive`, with `archive` mapped to `files` and `sealed` to
  "something is registered").
* With the file operations apart: once no Dump runs, the file is whole
  (`WholeAfterDumps`); it is lost or truncated only by an end of the process in
  the midst of a Dump (`LossExplained`); and a handler faults on a file that was
  whole only because main dumps while the server still serves
  (`FaultExplained`).
* `MessageStream`: requests are handled at most once, in order, and after a HELO
  however the bytes are cut. A client that waits for each answer, over a
  connection that does not cut messages, can pair answers with messages
  (`AnswersPaired`) and has each request handled (`RequestsHandled`). Such a
  connection is the usual case for short messages and nothing TCP promises: the
  violation run shows what becomes of the others. However messages are cut and
  joined, a request is read without any answer about it only if the client wrote it
  while a HELO of its was unread (`hasty`, `ToldUnlessHasty`): the gate throws away
  what a read brings behind the four bytes.
* `TCPServer`: the count of the listening handle's requests is exact although main
  closes the handle while the loop is at work on it (`AcceptsAccounted`), so that
  the accept requests are freed when neither the kernel nor a queue has one
  (`FreedAcceptsIdle`), even if the handle is closed twice. `run` returns before
  the stop only from a server whose port was taken or whose accept failed
  (`ServesWhileListening`), and who connects is served unless one of these happens
  (`ConnectionServed`). A failed accept makes the server deaf to new clients, not to
  those it has: what they write, and their departure, is read until the server is
  closed (`ReadersServed`).
  After `stop` the next completion ends the loop (`StopWhenWoken`), unless the
  endgames run in a circle. Nothing promises a next completion, as the violation
  run shows: the loop handles the aborted accepts between the `closesocket` and the
  CLOSING flag of main's close, finds no endgame due and computes an unlimited
  timeout; main then queues the endgame and sets the stop flag, and nobody wakes
  the loop: the join (TS:60) never returns. No character is lost by
  it, as main dumps before it destroys the server; the process just does not end.
* `TCPHandle`: requests, counts and WriteReqs agree in every order of completions
  (`RequestsAccounted`, `OneRead`); a handle that reads is active, so an answer is
  never dropped by the test in `Send` (`AnswersNotDropped`); every write is called
  back if the client lets room recur (`WritesCalledBack`), and every departure is
  seen (`PartingSeen`). The kernel takes bytes after Send freed them only for a
  client that leaves answers unread (`LiveUnlessBehind`); for such a one it does, as
  the violation run shows. How many writes wait for such a client nothing bounds.
* `CharacterFile`: no beginning of a save file loads, as the closing brace comes
  last, and what Dump wrote always loads as it was. Edited files are there for the
  branches of Load that such files do not reach; they load, throw, or reach the
  undefined `operator[]`.
* `Ability`: a cached modifier is the one by the rules, of the value and of all
  bonuses that were given, whenever that is an int (`CacheCoherent`), although the
  bonus is added up modulo the number of ints; and a saved one that of the value and
  the bonus beside it (`SavedCoherent`). `Load` would leave a valid cache in place; its
  one caller, `Character::Load`, loads only into Abilities it has just made
  (`LoadNew`).

**Deadlock** is checked, except for `MessageStream` and `TCPHandle`, where a client
that has written its messages is done, and for `TCPServer`, where both threads end.

**Fairness.** `core` and `ability` have none: their properties are safety. In
`MessageStream`, `WF_vars(Read)`: the loop polls the sockets that are reading, so
bytes that have been written are read at last; nothing is assumed of the client.
In `SaveFile`, weak fairness of the operations each thread is in the midst of:
the operating system schedules both threads. Clients, the key and kills are
not assumed to happen. In `TCPServer`, weak fairness of each thread, as the
operating system schedules both (a thread that sleeps or joins has no step), and of
the kernel's establishing a connection that is in the backlog while an AcceptEx
waits; not of the clients, who need not connect, write or leave, nor of the key. In
`TCPHandle`, weak fairness of the loop's thread and of the kernel's completions;
`WritesCalledBack` assumes, in its own statement, that the client lets the send
buffer have room again and again, or is gone.

**Disagreements.** Five runs expect a violation, and each stands for one entry of
`findings` in `PROJECT.json`: the second character of a run is not saved
(`created_is_saved`), a 404 ends the server (`unknown_is_answered`), a request cut in
two is called malformed (`malformed_is_malformed`), stop need not stop
(`stop_ends_run`), and answers are sent from buffers that are gone
(`buffer_outlives_write`). A lesser one needs no run: the handler of a departure is
commented "Save and destroy" (CH:18), and only saves; the character stays registered
until the process ends, as `OwnerCapturesRegistered` takes for granted.

## 4. Proofs

TLC checks small instances; these hold for all constants that satisfy the named
assumptions (`StoreAssumption`: 0 is an id, the values standing for "nothing"
are distinct from the records, the provided directories hold files;
`HandlersAssumption`; `AbilityAssumption`: the range of int contains 0;
`StreamAssumption`: a message has pieces and a read holds one; `ServerAssumption`:
finitely many clients, an accept, a counter wider than the handles; `HandleAssumption`:
reads and the send buffer are not empty; `ScoresAssumption`: values and bonuses are
integers).

`D20TempestProofs`. The invariant `StoreInv` is the conjunction of `TypeOK`,
`OneCharacterPerRun`, `LiveAreRegistered` and `RegisteredPersisted`; none but the
whole is inductive: that files keep their types needs that a registered address
is alive, that a Dump writes what is there needs that one character is
registered and on file, and this again that its address was not given to another
Character. The argument has two lemmas at its heart. `DumpedIsSame`: under the
invariant Dump, for whatever set of ids a dangling read may give, changes no file.
`CreateEffect`: CreateCharacter with its Dump either registers a character at a
free address and writes its file, or changes nothing. `StoreStep` concludes that
each step of the program leaves the store alone, registers a character or is a
restart, and all theorems are proved of these three cases: `StoreInvariant`,
`TypeCorrect`, `OneCharacter`, `Persisted`, `FilesNeverClobbered`,
`CreateWritesOnly` (lemma `FilesWritten`: a step that changes the files is a CREATE's,
and its answer says what was written) and the refinement `ArchiveImplemented`.
With the registry fixed, `ClientInv` (`OwnersSaidHelo` and
`OwnerCapturesRegistered`) is inductive: only CreateNew and LoadExisting capture,
and only after HELO (`HeloFirst`, `OwnerCaptures`). `LoadedAgrees`: a LOAD answers
what is on file (lemma `LoadAnswer`), and `FilesKept` says that it stays there.

`AbilityProofs`. That the cache holds what the script returned (`CacheIsWrapped`) is
inductive, as is that the bonus is the sum of those given, modulo the number of ints
(`BonusIsGiven`); together with the types they are `AbilityInv` (`AbilityInvariant`).
What makes the modifier exact is lemma `WrapSum`: an addition may be cut to an int
before or after it is added to, which rests on the uniqueness of the rest of a division
(`RestIsUnique`). From these `ModifierCoherent` and `SaveCoherent`.

`StreamProofs`. `StreamInv` adds to the three properties of `MessageStream` where
the unread bytes stand: they were written (`WireWritten`), are in order
(`WireInOrder`), lie behind the HELO (`Greeted`) and behind what was handled, and
are the one unanswered message of a disciplined client (`OneUnanswered`). Lemma
`Behind`: what a read leaves lies behind what it returned; lemma `WholeRead`: a read
with all pieces of a message leaves none of it. From these, for messages and reads
of any size: `GreetedFirst`, `OnceInOrder`, `Paired`. `HastyBehindHelo` says that what is
unread behind an unread HELO was written in haste; as nothing is swallowed but what a
read brings behind a HELO, `NoneSwallowed` follows.

`SaveFileProofs`. `FileHeld` carries the proof: an open file cannot be removed, and
who is about to close it has made it whole, unless the other thread truncated it
since and is about to write it. From it `FileWhole`, `LossOnlyByCut` and
`FaultOnlyByMain`. `SaveFile` has no constants and TLC visits all its states; the
proof says why.

`TCPServerProofs`. Only the loop's thread queues and releases accept requests, so
the count of both is exact whatever main does (`RequestsCounted`); the endgame
waits for 0, and after it nothing is queued (`FreedWhenIdle`). `ServerInv` adds to
them that what the loop is at work on is at the head of its batch (`AtWork`) and that
nothing is out before the constructor and after the endgame (`NoRequests`).
`active_handles`, which two threads change without a lock, cannot be
accounted for after main's close has begun; nor need it be. `RunsInv`
(`HandlesCounted`) says what holds before (`BeforeClose`): the count is exactly that
of the open and active handles, the loop alone changes it, and each connection and
each read stands for one request that is out, so that a server that listens has one
more handle than none and `run` goes on. Once main closes, nothing listens any more,
and that is what `ServesWhileListening` asks (`LoopServes`).

`TCPHandleProofs`. `HandleInv` says that each write that was not called back is in
one place, once: with the kernel or in one of three queues (`EachWriteOnce`). So a
write that is done was pending (`HeadIsPending`), each callback subtracts what its
write had added (`CountsExact`, `ReadOnce`, `NoAnswerDropped`), and the handle
implements `ClientStream` (`StreamImplemented`): a DataEvent is Data, with a write
that was unused (`NextIsUnused`), a finished write is CallBack, the three ends of
reading are End, all other steps stutter. `NeverBehind` bounds what a disciplined
client has outstanding (`LiveForDisciplined`). `SequenceCounts` has the counting
lemmas of both modules.

`CharacterFileProofs`. Of a text that a recursive writer makes for any character
and any number of abilities nothing can be said by induction over data; so writer
and parser are step machines, and the induction is over the steps.
The invariant `FileInv` remembers the set of states the writer went through
(`Wrote`): each is a good one (`GoodWriter`: each call is at a member of what it
writes, the first at the document), its text begins the last one's, and the step
from it leads to another of them. While a file is read, the parser follows one of
these states (`Follows`): it took the text of that state, and its stack is the
writer's stack of calls, each open value with the members the writer is done with
(`Stack`). `KeptStep` is the heart: a step of the parser takes just what the
writer's next step had added (lemmas `KeptScalar`, `KeptEmpty`, `KeptEnter`,
`KeptLeave`, `KeptAdvance`, one for each step of the writer), or these tokens are
not all in the file; then the parser errs at once, or has read what is left of a
number and errs next (`Lost`, `LostFails`). At the end of a whole text the value
the parser made is the value that was written (`WholeRead`), which Load takes for
the character that was saved (`LoadOfSave`): `SavedAlwaysLoads`. A torn text ends
before the writer had returned from the document: `TornNeverLoads`. Both rest on
the saved values being made of objects, strings and numbers (`Closed`); files that
someone edited are not a subject of these theorems.

Only model-checked: liveness (`RequestsHandled`, `DumpEnds`, `ConnectionServed`,
`ReadersServed`, `StopWhenWoken`, `WritesCalledBack`, `PartingSeen`), which the prover cannot do.
Every other property of the passing runs is proved.

## 5. Not modelled

* Most of what is under `externs/`, and so most of the repository's lines: sol3,
  Lua, EnTT, GSL, and of libuv, uvw and nlohmann's json what the server does not
  call (files, pipes, ttys, UDP, processes, timers, connecting and shutting down;
  binary formats, pointers, iterators). It is third-party code of no consequence
  for the server's behaviour. Of the program's own sources everything that changes
  state is modelled.
* The lexer of the json library: white space, escapes, digits. `CharacterFile` has
  tokens.
* The emulation of completion ports (`UV_HANDLE_EMULATE_IOCP`), and reads with a
  preallocated buffer (other than those of no bytes).
* Wording and layout of messages; `DumpAll`, `operator[]`,
  `ListExistingCharacters`, `AddAbility` (no caller, or no body).
* Creation of the directory `./characters/` (Dump makes it before it writes).
* Two names for one file (case, `./`): `Names` are names of distinct files.

## 6. Plan

Done in the order they were planned: the core; the stream; ability and save file;
the server's threads; the handle and its writes; the formats; the proofs above.
That a Dump is one step, which the core takes for granted, is what `FileWhole`,
`LossOnlyByCut` and `FaultOnlyByMain` say together, as long as main does not dump
and no process ends in one; a refinement would say it again.

Left: the composition of `TCPHandle` with `MessageStream`, pieces that arrive in
chunks for a client that does not read its answers; and a property of edited
files, with arrays and null in them, which `CharacterFile` has only to reach the
branches of Load: that they are parsed as what was written.
