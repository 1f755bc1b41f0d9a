# testfcgi in TLA+

TLA+ specifications of testfcgi, a single-threaded FastCGI search daemon on
libev (C++), with TLC configurations that check them on small instances and
TLAPS proofs of all their invariants and refinements. Paths below are relative to the
repository; `connection.cpp:176` means `src/connection.cpp`, line 176.

## 1. The system

### Components

| component | state | operations | talks to |
|---|---|---|---|
| `LibevWrapper` (`libev_wrapper.cpp`) | the `ev_io` / `ev_timer` structures it allocated, their `*_handler_props` | `init_io_reader/writer`, `stop_io_handler`, `run`, timers | calls back `pobject->*pmethod(fd)` |
| `SocketAsyncTCPServer` | `m_fd_main`, `m_handlers` (fd -> read watcher), `m_running` | `startup_inet`, `m_on_receive_server`, `m_on_receive_client`, `close(fd)`, `shutdown` | kernel, loop; virtual `connected/disconnected/received/error` |
| `Daemon` | `m_connections` (fd -> `Connection*`), `m_storage` | `connected`, `disconnected`, `received`, `error` | owns Connections; a Connection calls `close(fd)` back |
| `Connection` | `m_input_buffer` | `received`, `finished`, `failure` | parses with `FCGIRequest`, answers with `FCGIResponse` and `Searcher` |
| `BufferedSender` (base of `Connection` and `Echo`) | `mBuffer`, `m_write_handler` | `cash`, `send_cashed`, `m_on_send`, `send`, `cancel`, destructor | kernel, loop; virtual `sent/finished/failure` |
| `FCGIRequest` | `m_props`, `m_params`, `m_stdin` | `parse` | pure, throws |
| `FCGIResponse` | strings, `m_source_type`, header templates | setters, `writeOut` | `BufferedSender::cash`, `send_cashed` |
| `Storage` | `m_dict`, `m_index`, `m_data` | constructor | reads a file |
| `Searcher` | `m_cogwheels`, `m_results` | constructor, `search`, `dump_results*` | reads `Storage` |
| `Echo` | one `BufferedSender` for all its connections | `received` -> `send` | like `Daemon` |
| `SendBuffer`, `SendBufferTrivial` | a list of buffers / one string | `append`, `advance`, `clear`, `data` | used by `BufferedSender` (the trivial one) |
| `SocketAsyncBase` | none of its own | set-up of server and client sockets | kernel, resolver |
| enumerations, `main`, `logger` | none to speak of | names, options, output | |

Storage is loaded once, before the loop starts; everything after that happens
in callbacks of one thread. Concurrency is that of peers and kernel with the
loop, and of the callbacks of one poll round with each other.

### What is hard here

* A callback may close its own descriptor, delete the object it runs on and free
  its own watcher, while other events of the same poll round are undelivered.
* The kernel reuses the lowest descriptor at once.
* Input arrives cut anywhere; `parse` restarts from the beginning of what was
  kept and its checks of the first header are compiled under `_DEBUG` only.
* Output leaves in pieces, through a writer that must be started, kept and
  stopped at the right moments; peers hang up or reset in between.
* The connection is closed right after the answer, with one `recv` for what is
  unread; what is still unread then, or comes later, makes TCP reset it.
* `Echo` is one `BufferedSender` for all its connections: one cache, one writer,
  whatever descriptor output is for, and `failure()` does nothing.
* A server is started, stopped and restarted from inside its own callbacks;
  `m_running`, `m_fd_main` and `m_handlers` change at different places.
* A timer may be paused or stopped after it has expired and before its callback;
  one-shot timers are freed when they fire.
* A set-up function is six system calls, each of which can fail after others
  succeeded.
* `accept` runs into EMFILE while the listening socket stays readable.
* `Storage` depends on `errno` and on an uninitialised member; rows are indexed
  before they are appended.
* `Searcher` merges several runs of a multimap that repeats keys.

### What makes each component correct

* loop and registry: the kernel's descriptors, the server's watchers, the
  daemon's table and the living objects agree; no watcher outlives its object.
* sender: no byte of a response is lost, repeated or stranded.
* request: a complete request is accepted when it is complete, an incomplete one
  waits, a mixture is refused.
* contents: every parameter in whole records is kept, the query is unescaped once.
* server: kernel, server, loop and owner agree whatever is called from where, and
  failed set-ups leave nothing behind.
* echo: every byte comes back once, in order; to whom is a weaker promise.
* timers: what is held is allocated, what is stopped is quiet, the rest fires.
* send buffer: the linked list behaves as the string it may replace.
* response: records are well framed, and carry what the setters last said.
* service: a peer is answered once, after its request, unless it hangs up; and
  every peer that stays is answered.
* storage: dictionary and index describe exactly the rows that are kept.
* searcher: every matching row is found once, with the right count, places,
  marks and order.

`PROJECT.json` lists the hazards line by line, with the properties for each.

## 2. Modules

| module | models | variables |
|---|---|---|
| `FCGIRequest` | `requestProps::init` and `parse` | none: operators on a message and the units of it that arrived |
| `FCGIContent` | `m_setup_parameters`, `m_setup_stdin`: the contents of the records | `records`, `rec`, `begin`, `m_params`, `m_stdin`, `overrun` |
| `Unescape` | `unescape` and `h2c` | `arg`, `pos_prev`, `ret_val`, `returned` |
| `RequestPath`, `MCRequestPath` | `Connection::received` and `m_response` for one request: the three above composed | `m`, `arrived`, `answer` and those above |
| `FCGIResponse` | setters, `m_write`, `writeOut` | the strings, the flags, `cashed` |
| `MCFCGIResponse` | a caller of the setters, a decoder | `calls` |
| `LibevWrapper` | io watchers and one poll round | `watchers`, `pending` |
| `Daemon` | `SocketAsyncTCPServer`, `Daemon`, `Connection`, `BufferedSender`, kernel and peers, on `LibevWrapper` and `FCGIRequest` | see below |
| `FcgiService` | what a peer is promised (abstract) | `phase`, `hungup`, `down` |
| `DaemonService` | the refinement mapping | |
| `MCDaemon` | scripts of the peers, instances | |
| `Echo`, `MCEcho` | echo mode: the server, one shared `BufferedSender` (`send`, `m_on_send`), kernel and peers, on `LibevWrapper` | like `Daemon`, but bytes instead of counts; `owed`, `abandoned` are histories |
| `SocketSetup` | the four set-up functions of `SocketAsyncBase`, call by call | `func`, `pc`, their locals, `open`, `addrinfos`, what callers hold |
| `ServerLife`, `MCServerLife` | `SocketAsyncTCPServer` with all its operations, on `LibevWrapper` and `SocketSetup` | `m_running`, `m_fd_main`, `m_handlers`, `told`, the kernel's tables |
| `LibevTimers`, `MCTimers` | the timers of `LibevWrapper`, libev's queue, an owner | `allocated`, `active`, `pending`, `repeat`, `left`, `held`, `running` |
| `SendBufferTrivial` | the byte queue (abstract; also what the build uses) | `m_data` |
| `SendBuffer`, `MCSendBuffer` | the linked list, and its caller | the items, `mItemFirst`, `mItemLast`, histories |
| `DaemonProofs`, `EchoProofs`, `ServerLifeProofs`, `TimersProofs`, `SendBufferProofs`, `FCGIResponseProofs`, `SearcherProofs`, `RequestPathProofs` | theorems about the modules they are named for; `DaemonProofs` also those about `DaemonService`, `SearcherProofs` those about `Storage`, `RequestPathProofs` those about `FCGIRequest`, `FCGIContent` and `Unescape` | |
| `Storage`, `MCStorage` | the constructor of `Storage`; files with broken rows | `file`, `line_cnt`, `errno`, `m_dict`, `m_index`, `m_data`, `itm`, `coord` |
| `Searcher`, `MCSearcher` | `m_init` and the rounds of `search` on an index loaded by `Storage` | `query`, `m_cogwheels`, `m_results` |

Definitions keep the names of the code. Operators marked `Mutant:` are plausible
bugs, one edit away from the definition that follows them; the properties are
tried against them and are not part of the model.

### Daemon

`fdtab`, `stage`, `sentIn`, `readIn`, `link`, `sndq`, `got` are kernel and peers;
`m_handlers`, `m_connections`, `m_input_buffer`, `mBuffer`, `m_write_handler`
are the members of the same name; `objects` are the Connections allocated;
`answered` is a history of responses made; `derailed` says that freed memory was
used in a way that can do anything, after which the process takes no step.

Streams are counted in units. A header has `HeaderLen` units and a begin body
`BodyLen`; the real sizes are 8 and 8, the runs use 2 or 3, and 1, which keeps every
place where a stream can be cut: inside a header, between header and content,
inside the content, at the end. A Connection bears the name of its client:
`m_fd` is `fdtab`'s inverse while it lives.

| action | code |
|---|---|
| `Wait` | one `epoll_wait` of `ev_loop`: all watchers with an event become pending |
| `Dispatch` | `m_io_cb` for one pending watcher, in any order, then one of: |
| `m_on_receive_server` | `accept` (or EMFILE), `connected`, the new reader |
| `m_on_receive_client` | one `recv`, then `Daemon::received` -> `Connection::received` -> `parse` -> `writeOut` -> `send_cashed`, or the end of input |
| `m_on_send` | the send loop, `finished` or `failure` |
| `Connect`, `PeerSend`, `PeerRead`, `PeerFin`, `PeerRst` | the peers |

Every handler is one action with all calls it makes: an accepted request that
fits into the socket buffer is received, parsed, answered, closed and deleted in
one step, as in the code. `close` is `m_close` with `::close`, the kernel's reset
when input is left, `Daemon::disconnected`, the destructor's `stop_io_handler` and
the erased handler.

Undefined behaviour is treated by what the build can do. A write callback on a
deleted object derails the process. After `failure()` the test
`mBuffer.empty()` of `m_on_send` reads the deleted object: its outcome is a
choice, and the bad one derails. After `finished()` the loop test of
`send_cashed` reads the deleted object too: the buffer was emptied before, `delete`
overwrites only the beginning of the object, and the length found is zero, so the loop
ends. A header of which one byte arrived is judged by memory that holds none.

### Storage and Searcher

`Storage` reads one row per `ReadRow`, indexes one lexeme per `IndexLexeme` and
appends the row in `PushBack`; the steps follow the loops of the constructor so that
the invariants can speak of a half-indexed row. A row is a record of what its
fields come to. `errno` is a variable that only rises. An empty third field
leaves the rating to any value. The multimap is the set of its entries;
entries with equal keys are ordered by `coord`, the order of their insertion.

`Searcher` extends `Storage`: after the file is loaded, `Ask` builds the cogwheels
and each `Round` is one pass of the `while (true)`. An iterator is the entry it
points to. `m_init` steps from the opening entry of a word to the next one without a
test for the end (`searcher.cpp:301`), and so does `Begun`: that the next entry is there and
belongs to the word follows from the index alone (`BegunStandsAfter`). `Ascending` and `KnownOf` list places in their order by a property of the
result, not by a sorting operator of a library, so that the proofs can speak of them.

### The way of a request

`RequestPath` follows one request through `Connection::received`. Some of its
requests differ in their records: they arrive unit by unit and are parsed
after each. The others have contents, in real bytes, and are complete: the
loop of `m_setup_parameters` takes one pair per step, `NextRecord` goes on
to the next record, `m_response` looks the query up, and `unescape` handles one
percent sign per step. The name `QUERY_STRING` and the prefix `padding` are
shorter here. `Base` and `Half` (256 and 128) are what a byte can hold and its
high bit.

### Echo

Kernel, peers and server are those of `Daemon`, with bytes: a byte is the peer
it came from and its place there, so that it can be followed to whoever reads
it. `send` has the code's four ways: appended to the cache whatever the
descriptor, failed, sent whole, or cached in part with a new writer. A writer on a
closed descriptor is stopped by libev in the next round (`fd_kill`, `Closed`) and
called back once more; on a reused one it goes on for the new peer. `abandoned`
records that a peer left while output was cached for it.

### Server and set-up

Every system call of a set-up function is a step that may fail; between `Enter` and
`Return` nothing else of the process runs (one thread), but peers do. `ServerLife`
takes `init_server_inet_socket` from there: `startup_inet` enters it, `Started`
is the rest of `startup_inet`. Other code of the process (`Clients`)
calls the three client functions and closes what they gave it, so that numbers are
taken and reused between the server's own. `open` is the kernel's table for all of them,
and holds what was done to each descriptor. `Owner` is the owner of the server
outside its callbacks; `received` may close its connection or shut the server down
from inside.

### Timers

A timer is the address of its `ev_timer`, and a freed address is used again.
`Expire` is `timers_reify`: all expired timers become pending before any
callback runs, as with `io`. The owner may stop, pause or restart what it holds
at any moment between callbacks, and calls at most `MaxCalls` times. `crashed` says that a
deleted timer was used.

### Send buffer

`SendBuffer` keeps the items as a heap: `next` and data by address, `mItemFirst`,
`mItemLast`. `sent` and `overran` are histories of the caller: what it sent
and whether it ever advanced beyond what `data()` showed.
`SendBufferTrivial` is the string; `ImplementsTrivial` maps it to the
concatenation of the list.

## 3. Runs

All bounds are constants in the cfg files. Runs take up to a minute and a half.

| run | question | bounds |
|---|---|---|
| `request_path` | when does `parse` accept, wait, refuse, on every prefix? what is kept of the parameters, and which query is searched? | BEGIN, up to 2 PARAMS records and a STDIN record, the closing record; 2 ids, lengths 0..2, paddings 0..1; a header of 3 units. Contents: up to 2 pairs in all forms of their lengths, cut into 2 records anywhere, one value of 300 bytes; queries of up to 4 bytes out of 7 (a percent sign, digits, a letter that is none) and up to 6 out of 3 |
| `fcgi_response` | does the peer read what the caller set? | 3 calls; strings of 0..11 bytes, portions of 5, alignment 4 (8000 and 8) |
| `daemon_reuse` | all invariants, the refinement of `FcgiService`, and liveness: one descriptor for a peer that may hang up and one that stays | responses of 2 units, a socket buffer of 1, reads of 3 |
| `daemon_posts` | two descriptors, callbacks of one round against each other: a request with a body beside one without, both peers may hang up, input is cut after any unit, the first included | responses of 2, buffer of 1 |
| `daemon_reset` | (violated) is a peer that does not hang up ever reset? | one request with a body |
| `searcher` | dictionary, index, kept rows; results, marks, order, progress | files of 0..3 rows (7 good ones, 8 broken ones) and of 2 rows of 0..3 words over 2 letters with 2 ratings; queries of 0..3 letters, one unknown |
| `storage_errno` | (violated) are valid rows kept? | files of 0..2 rows |
| `storage_empty` | (violated) are rows with an empty field dropped? | files of 0..2 rows |
| `echo` | whose bytes reach whom, in which order; is everybody released and everything echoed? | 2 peers, one of which may leave, 3 bytes each; 1 or 2 descriptors; a socket buffer of 2, reads of 2 |
| `timers` | no dangling timer, no late callback, no lost one | 2 addresses, delays and intervals of 1 and 2, 6 calls of the owner |
| `send_buffer` | does the list implement the string? | see `SendBuffer.cfg`: a few appends of short pieces, advances up to 2 beyond what is there |
| `server_life` | do kernel, server, loop and owner agree; does a failed set-up leave anything? | 4 descriptors, 2 kinds of users, one peer in the accept queue at a time |

Why the bounds are enough: the daemon's handlers touch the descriptor they are
called for and the tables; two peers and one or two descriptors give every
pair of callbacks of a round and every reuse of a number. Responses larger than the
socket buffer force partial sends, buffers smaller than a request force
several reads. The parser keeps no count over records beyond "some STDIN was seen";
a few records and all cuts reach each exit of its loop. `m_setup_parameters`
and `unescape` keep a position and nothing else: two pairs, and six
bytes, hold every pair of neighbours that can disturb each other ("%2525"). Strings up
to two portions and a remainder cover the boundaries of the framing. In the
searcher a round relates one row to the cogwheels; two rows give every "points to /
is behind" pattern, three words all repetitions and gaps. In echo three
bytes against a socket buffer of two leave output cached while more arrives; two peers show all
the sharing there is, since the sender knows one cache and one writer. Four
descriptors hold a listening socket, two connections and another user's socket.

Deadlock is not checked: the loop rests in `epoll` when every peer is done,
owners stop calling, and constructors, requests and searches end.

Symmetry is not used: the peers have different scripts or roles, or liveness
is checked.

### Where properties have preconditions

* `NoDanglingWatcher` and the refinement are for peers that send one request
  without a body. For a body the code accepts a request before its closing record
  (`fastcgi_request.cpp:205`), and if the input was kept it accepts it again when more
  arrives (`connection.cpp:176`): while output is cached, the second `send_cashed`
  overwrites `m_write_handler` and the first watcher is leaked
  (`buffered_sender.cpp:117`). It may be called on a deleted object. `daemon_posts`
  checks what still holds there; `LeaksOnlyByDoubleAnswer` says that no
  watcher is lost in any other way, and at most one per further answer. `RegistryAgrees`,
  `NoStrandedOutput`, `OutputAccounted` and `LeaksOnlyByDoubleAnswer` are proved for
  these scripts, too. "One request without a body" is `OneShot` of `DaemonService`: `parse`
  waits for every proper prefix the peer can have sent and accepts the whole. The
  theorem `GetIsOneShot` shows that there are such scripts for all lengths: a BEGIN, a
  PARAMS record with any content and padding, and the empty STDIN record, as the GETs of
  the runs are, if the first segment and a `recv` hold two units.
* `AcceptedExactlyWhenClosed` and `NeverRefused` speak of two or more units: one
  byte of a first header is judged by other memory (`fastcgi_request.cpp:60-66`).
* `ParamsSoFar` and `DecodedSoFar` are for records that hold whole pairs. A pair that runs
  on into the next record is read beyond the end of the first (`overrun`), and
  the loop ends nowhere: it tests for the exact end (`fastcgi_request.cpp:16`).
* `MarkMeansOrder` is for queries without repetition. For the query "a a" the row "a b"
  gets the mark 8 because coords are counted, not lexemes.
* `OwnUntilFull` is for times when no peer has left with output cached, and for the first
  `SndBuf` bytes of a stream: after these another peer's bytes may follow, because
  `send` appends to whatever is cached (`echo.cpp:59`, `buffered_sender.cpp:66`).
* `Echoed` is void once a peer was reset or left with output cached: then `mBuffer` never
  empties, its writer is gone, and nobody is sent anything again
  (`echo.cpp:15-18`).
* `HeldIsAllocated` and the theorems about timers are for an owner that
  forgets a one-shot timer when it has fired (`KeepsOneShot = FALSE`). The note
  `libev_wrapper.h:19-23` ties the freeing to a method that says false, or to `stop_timer`;
  `m_timer_cb` (`libev_wrapper.cpp:136`) frees a one-shot timer in any case, so
  an owner that follows the note holds a dangling pointer. With `KeepsOneShot = TRUE` TLC shows it
  after one callback.
* `SentIsGone` is for callers that never advanced beyond what `data()` showed:
  `advance` cuts what it is given to the first item (`send_buffer.cpp:73`), the string
  drops any number of bytes. `ListWhole`, `NoEmptyItem` and `ImplementsTrivial` hold for
  the others, too.
* `ServerLife` stops when `bind` reads the address of a failed `getaddrinfo`
  (`socket_async_base.cpp:193`, `crashed`).

### Findings

* `daemon_reset`: a request with a body is answered before its closing record
  arrives; the close then resets the connection, the failure `pyfcgi_bug.py`
  describes.
* `storage_errno`: one out-of-range rating drops every later row with a rating.
* `storage_empty`: an empty rating is not one of the "empty fields".

### Fairness

`FairSpec` assumes weak fairness of `Loop_step` (the loop runs whenever a watcher has an
event; `ev_loop` returns for nothing else), and for each peer of `Connect`,
`PeerSend` and `PeerRead`: it goes on sending its request and reading its
answer. Hanging up is never assumed. No fairness is assumed between watchers: a
poll round delivers all its events before the next, and this is why no watcher starves.
Which waiting connection `accept` takes is not fair either; there are
finitely many.

`Echo` assumes the same. `LibevTimers` assumes weak fairness of `Tick`, `Expire` and the
callback of each timer: time passes, and the loop runs. Its owner need not call
anything.

## 4. Proofs

`DaemonProofs` proves, for every set of clients and descriptors, every script,
and every size allowed by `DaemonAssumption` and `LengthsAssumption`:
`TypeCorrect` (`TypeOK`), `RegistryCorrect` (`RegistryAgrees`), `OutputNeverStranded`
(`NoStrandedOutput`) and `OutputNeverLost` (`OutputAccounted`), each
from `Invariance`, `Spec => []IInv`.

`IInv` joins these four with what they need of one another:

* `WatcherShape`: only watchers the code makes are in the loop, and a writer whose
  object lives watches that object's socket. Without it a callback could be for a
  descriptor that is closed, and `close` would leave the tables apart.
* `HandlerShape`: `m_write_handler` is a writer of that object and in the loop,
  and a deleted object holds neither writer nor output. Without it stopping the writer
  at deletion could stop the reader of another connection.
* `Untouched`: nothing was sent to a connection not yet accepted, so the
  accounts start at zero.

There is one lemma per action. The actions of the peers share `PeerStep`; the paths
that close share one lemma about `close`. `parse` is never opened: the proofs need only
that it yields verdicts, so they hold for any parser. `IInv` includes
the leaked watchers of the double response, which is why it does not contain
`NoDanglingWatcher`. It was checked with TLC before it was proved.

The second half of the module builds on it. `LeaksCounted` (`LeaksOnlyByDoubleAnswer`) holds for any
scripts: `Numbered` says that the writers of a connection are told apart by the number
of answers made before them, and that only the last can be `m_write_handler`; so those
that leaked are fewer than the answers. `NothingDangles` (`NoDanglingWatcher`) and
`ServiceImplemented` (`ImplementsService`) assume `OneShots`, that every script is
`OneShot`. Their invariant `Served` follows a request from peer to parser: no more
arrives than the script holds, nothing is dropped from the input before the answer, the first
read is long enough to be judged, and there is one answer, made when everything had
arrived. For the refinement every action maps to a step of `FcgiService` or to a stutter.
`GetIsOneShot` proves that a peer that sends a GET satisfies the hypothesis; it is the
one place of this module where `parse` is opened, and its loop is followed record by record.

`EchoProofs` proves `WriterIffCachedAlways`, `OutputInOrderAlways` and `OwnUntilFullAlways`
for any peers, limits of descriptors, buffer sizes and inputs. Of the conjuncts of its `IInv`,
`Watched` ties readers to connections and leaves the writer as the only other watcher;
`OneWriter` says that there is a writer exactly while something is cached, and that it
is in the loop unless its peer left; `Refused` that a writer means a full socket
buffer, without which `send` could start a second one; `Owed` that the cache is the tail of
everything owed, in order; `Streamed` that what the peers were sent is the rest: each
stream has the order of `owed`, no byte is in two streams and, unless a peer was reset,
none is missing.

`ServerLifeProofs` proves `TablesAgreeAlways`, `EventsCurrentAlways`,
`RunsWhileOpenAlways`, `NothingLeakedEver` and `HeldIsReadyAlways`, for any
descriptors and any accept queue, whatever owner and other users call and whichever
system call fails. `Working` says what the running set-up function has by its program
counter, `Accounts` adds up who owns each descriptor and address list, `ServerShape`
determines the handlers. The server's invariants and those of the set-up are proved
together: `startup_inet` returns what `Working` says of the last call, and a set-up
function opens only descriptors that `Accounts` finds unowned.

`FCGIResponseProofs` proves `Framing` (`Spec => []WellFramed`) for strings of any
length, any record limit and any alignment that divides 8: the arithmetic of
`Padding`, the portions partition the string (`m_write`), and `writeOut` concatenates
well-framed parts with END_REQUEST last. `OutputAsCalledAlways` (`MCSpec =>
[]OutputAsCalled`) adds what the records carry, for any number of calls. It has two halves.
`CallShown`: after every call the members and flags show the last call of each
name (`Shown`), although raw output and header share `m_str1`. `WriteOutDecodes`: reading
the records of a stream gives the strings back; `Yields(i, s, r)` says that reading the
pieces `s` after `i` comes to `r`, and is composed along `writeOut`; `CutsYield` is the
case of the portions of one string.

`TimersProofs` proves `HeldCorrect` (`HeldIsAllocated`) and `QuietCorrect`
(`QuietWhenStopped`) for any addresses, delays and number of calls. The inductive
invariant adds the types, that only held timers are queued or pending, and that
a pending one-shot timer has left the queue: without that a callback could
free a timer that libev still has.

`SendBufferProofs` proves `ListCorrect`, `ItemsCorrect`, `SentCorrect` and
`Refinement` (`Spec => ImplementsTrivial`) for pieces of any size and any overrun.
The invariant describes the list without recursion: the addresses in use are an
interval, every item points to the next one, `mItemFirst` and `mItemLast` are its
ends. That `clear` frees everything is the one place that seems to need
induction along the list; it is proved by the least element the loop
would not reach. For the refinement each step maps to a step of the string or to a
stutter; the concatenation is a function over the interval.

`SearcherProofs` is about `Storage` and `Searcher`, for any file, any lexemes and
any query. `LoadInv` relates dictionary, index and rows to the rows and lexemes read so
far, half-indexed row included; it gives `DictExactAlways`, `IndexExactAlways` and
`RowsKeptAlways`. `SearchInv` adds what a search keeps: the results have one row each, the rows
are exactly those found (`Found`), a result is what its row and the query
determine (`ResultOf`), and a live cogwheel stands on the first occurrence of its lexeme in
its first row not found yet. `BegunStandsAfter` gives the beginning of that: every word the
dictionary knows has an entry behind its opening one. From `SearchInv` follow

* `RoundsAdvanceAlways`: every round moves the nearest row further (`PassesRow`);
* `ResultsExactAlways`: the rows found are the matching ones before the nearest row, with
  their counts and coords (`NearestRow`, `CoordsAre`);
* `BestFirstAlways`: insertion behind the results that are not greater keeps the order
  (`InsertedInOrder`);
* `MarkMeansOrderAlways`: `Joins` says that coords are the places of the lexemes, lexeme
  after lexeme and each in ascending order; `SequentialIsOrdered` and `SuccessiveIsSolid` that
  comparing neighbours then decides the order of the row and its gaps, `ListedCount` that
  comparing lengths decides whether the row holds anything else.

`RequestPathProofs` proves all five invariants of `RequestPath`, for headers, bodies and
records of any length and for every bound. Its `IInv` says that

* the request is framed as a web server frames it (`Framing`): a BEGIN record, and an
  empty STDIN record at the end and nowhere before;
* the encodings of the pairs lie end to end in the contents of two PARAMS records
  (`Laid`), and if no pair is cut, the position of `m_setup_parameters` is always an end
  of a pair, and it holds exactly what the pairs up to there leave (`Decoded`);
* a search only begins when everything is decoded, and then what is decoded of the query and
  the meaning of the rest are the meaning of the query (`HalfDecoded`).

For `parse`, `LoopLeaves` says that its loop leaves at the first record that it `Stops` at,
and what it says there; `OneIdParsed` and `MixtureParsed` find that record. From it follow

* `AcceptedInTime` (`AcceptedExactlyWhenClosed`), `SlowPeersServed` (`NeverRefused`) and
  `RequestsNotMixed` (`NoMixture`).

For the contents, `PairRead` says that one round reads exactly the pair that lies at the
position, whichever of the two forms its lengths have, and `MeantNext` what one more pair
changes; for the query, `StepDecodes` says that one round moves the meaning of what it passes
from the rest to what is decoded, where `DecodingsAre` shows that two digits stand for one
byte, the one `h2c` computes. From these follow

* `PairsDecoded` (`ParamsSoFar`) and `QueryDecoded` (`DecodedSoFar`).

These five are about the requests of `Init`, whose constants bound numbers and lengths but
whose names and values are of a few kinds. `AllOfAnyRequest` proves all of them from
`AnyRequest` instead: any framing, any names and values, any body. The hypothesis
that no pair is cut (`WholePairs`) stays; without it the properties are false
(section 3).

Where these proofs need induction over numbers they take the least counterexample
(`LeastExists`, `NoneBelow`), since the induction rules of the library take an operator as
parameter. `FlattenSeq` is a recursive function in the library; `FlattenSeqIs` proves that the
function it chooses exists.

### What the proofs assume

Apart from `OneShots`, only the assumptions on constants, which TLC evaluates in every run:
`DaemonAssumption`, `LengthsAssumption`; `EchoAssumption` and `SetupAssumption` (numbers of
descriptors, positive sizes, and that NULL and NONE are none of the values they are told apart
from); `FramingAssumption`; `RatingsAssumption`, `FilesAssumption`, `QueriesAssumption`
(ratings are unsigned, files are sequences of rows, a row with too few fields has no
lexemes, and queries are sequences of lexemes); `BaseAssumption` and `RequestsAssumption`
(the high bit is half a byte; lengths, ids, paddings and bytes are numbers, and records of a
body are not empty); and those of timers and buffers. The timers
are proved for an owner as described in section 3, without `KeepsOneShot`.

### Only model-checked

Liveness: `Released`, `Answered`, `Fires`, `Echoed`. TLAPS does not reason about `ENABLED`,
and so not about fairness. Every invariant, action property and refinement of the passing
runs is proved.

## 5. Not modelled

* `BufferedSender::cancel`: nothing calls it.
* A failed `malloc` in a `bufferItem`; `stop_timer` called from inside the timer's
  own callback, which frees it twice; nothing in the program does either.
* What a "padding" query repeats, the text of the page, dumps, `describe_socket`, the
  enumerations, `logger`, the options of `main`: formatting. The modes of `main` are the
  next-state relations of `Daemon`, `Echo` and `Searcher`.
* `m_stdin` is modelled, but nothing in the program reads it; of a body in several records
  it keeps the last (`fastcgi_request.cpp:38`).

Two things the models show that no text of the repository speaks about, and that no
property is made of: `m_running` stays true when the last descriptor of a server is closed by
`close()` or `close(fd)`, so that `startup_inet` does nothing afterwards; and a failed
`getaddrinfo` in `init_server_inet_socket` is followed by a NULL dereference.

## 6. Plan

1. Done: `FCGIRequest`, `LibevWrapper`, `Daemon` with `FcgiService`,
   `FCGIResponse`, `Storage`, `Searcher`; the invariants of `Daemon` and the framing proved.
2. Done: `Echo`, the timers and the linked list (both proved), the contents of
   requests and the way to the searcher, the life of a server on the set-up functions.
3. Done, proofs: all invariants and action properties of the runs, and both refinements:
   `Daemon` with its leaks and its service, `ServerLife` with `SocketSetup`, `Echo`, `Storage`,
   `Searcher`, what a response carries, and the way of a request through `parse`,
   `m_setup_parameters` and `unescape`.
4. Left: liveness, which stays with TLC, and what section 5 lists.
