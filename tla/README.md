# Sentinel: a verification development

Sentinel (`src/`) is a signature-based traffic detection engine in Rust: it
reads a packet capture, assembles flows, loads indicators of compromise from
two public feeds or a bundled sample, matches the flows against them and shows
the result on a dashboard or on the terminal. This directory holds TLA+ models
of it, TLC configurations that check them on small instances, and TLAPS proofs
of what matters most for instances of any size.

    tlc -workers 2 -config pipeline.cfg MCPipeline     # one run
    tlc -workers 2 -config events.cfg EventBus         # another one
    tlapm PipelineProofs.tla                           # one set of proofs

`PROJECT.json` lists the runs, what each is for, the lines of code that each
definition stands for, the mutations of the model that each property catches,
the hazards and the findings.

## Inventory

| Part | Code | State | Operations | Interacts with |
|---|---|---|---|---|
| Shared store, pipeline steps | `pipeline.rs`, `api.rs` | `Store` behind a tokio `RwLock`: flows, current capture, signatures, detections | `run_ingest`, `run_signature_fetch`, `run_detection`; handlers that read | every other part; any number of HTTP requests at once |
| Report | `report.rs` | none | `build_report`, `render_cli_summary` | the store, under one read guard |
| Signature fetch and cache | `pipeline.rs`, `signatures/cache.rs`, `signatures/mod.rs` | the file `data/cache/signatures.json`; a set in memory per process | `load_cache`, `is_stale`, `save_cache`, `load_offline_sample` | the feeds, the disk, the clock, other processes on the same file |
| Feed clients | `signatures/threatfox.rs`, `signatures/urlhaus.rs` | none | `fetch_recent`, `convert` | the network |
| Matching engine | `engine/matcher.rs` | `SignatureSet`: four hash maps and a set of /24 prefixes | `build`, `classify` | a detection run |
| Flow assembly | `ingestion/mod.rs` | the map of flows, the map of resolved names | `ingest_pcap_bytes` | reader and parsers |
| Capture reader | `ingestion/pcap.rs` | position in the file, byte order, link type | `parse_pcap` | flow assembly |
| Packet parsers | `ingestion/parse.rs` | position in a packet or a message | Ethernet, IP, TCP/UDP/ICMP, DNS, TLS SNI, HTTP | flow assembly |
| Event bus, live log | `events.rs`, `AppState::emit`, `sse_events`, `static/js/app.js` | a broadcast ring of 512 events; 200 rows in the browser | `emit`, subscribe, lag, reconnect | every pipeline step |
| Uploads and listing | `pipeline.rs`, `api.rs` | two directories | `save_upload`, `list_available_pcaps`, `resolve_pcap_path` | ingest |
| Command line | `main.rs` | one process | `serve`, `run` | the pipeline steps, one after the other |
| Configuration, domain types | `config.rs`, `models.rs` | constants, records | | all |
| Sample generator | `bin/gen_sample_pcap.rs` | none | encoders of packets and of a capture | writes what the reader reads |
| Dashboard pages | `static/` | none that the server depends on | | not modelled |

What is hard in it, and what makes each part correct:

* **Store.** Requests interleave at every await; the steps read the store,
  work without a guard for a long time, and write it later. Clients disconnect,
  which drops a handler at an await. Correct means: no reader sees half an
  update, a run works on flows and signatures that belong together, a report
  agrees with itself, nothing deadlocks, and nothing else makes the store
  inconsistent than the overtaken run that the code does allow.
* **Signature fetch.** The feeds fail independently or never answer; a save is
  a truncation followed by a write; processes share the file; the clock is set
  back. Correct means: the offline flag tells the truth, a fresh save is used,
  a damaged file is not, a forced fetch brings what was asked for.
* **Feeds and engine.** An indicator is rewritten when it is fetched, again
  when it becomes a key, and the flow a third time when it is looked up; five
  exact criteria have a priority and three heuristics follow. Correct means:
  what a feed reports is found, and the maps give the verdict that the list of
  signatures calls for.
* **Flow assembly.** Packets of many connections alternate, names come before
  or after the flow they belong to, and a hash map is iterated. Correct means:
  one flow a connection, with what its first telling packet told.
* **Reader and parsers.** Every length and pointer comes from the packet, the
  packet from anybody. Correct means: every loop ends, no index leaves its
  slice, a cut file keeps what it holds, and what was encoded is what is read.
* **Events.** `emit` never waits, so a burst overruns a slow subscriber; a
  connection breaks and the browser comes back. Correct means: the log is in
  order, shows nothing twice, misses only what it must, and catches up.
* **Uploads.** Nothing locks a file: saves and reads of one name mix, a disk
  fills up, the server is killed. Correct means: an ingest gets one capture
  unless its file was being written or was left torn, and a later upload heals
  the file.

`PROJECT.json` lists every hazard with its line and the properties that cover
it, or why none does.

## Modules

| Module | What it is | Its state and the code's |
|---|---|---|
| `StoreLock` | tokio's `RwLock`, external: one first-come-first-served queue, shared readers, one writer, a waiter that may give up | `ahead[r]` is r's place in the queue |
| `Pipeline` | the handlers at work on the store | `flows`, `current_pcap`, `signatures`, `detections` are the fields of `Store`; `pc[r]` is where request r stands, `local[r]` its local variables; `moments` is history |
| `DetectionStore` | what the store promises, without locks and awaits | the same four fields |
| `PipelineProofs` | theorems about `Pipeline` | |
| `SignatureCache` | where a signature set comes from | `file` is the cache file, `memory[p]` is `Store.signatures` of process p, `now` the clock; `overlapped`, `clean` and `crossed` are history |
| `SignatureCacheProofs` | theorems about `SignatureCache` | |
| `FeedConversion` | `convert` of ThreatFox, the loop of URLhaus | none: operators from an entry to signatures |
| `Detection` | from the entries of the feeds to the report: `SignatureSet::build`, `classify`, the loop of `run_detection`, the tally of `build_report` | `ips` ... `subnets` are `SignatureSet`; the maps hold indices into the list of signatures |
| `DetectionProofs` | theorems about `Detection` | |
| `Bytes` | buffers, big-endian and little-endian words, slices | |
| `CaptureReader` | `parse_pcap` | `file`, `offset`, `big_endian`, `nano`, `link_type`, `raw` are the variables of the function |
| `PacketParsers` | `parse.rs` | `message` and `pos` are the slice and the position that the function at work has; `cursor`, `jumped`, `end_pos`, `hops` are the variables of `read_dns_name` |
| `Ingestion` | the reader, then the parsers packet by packet, as `ingest_pcap_bytes` calls them | `packets` is what each packet told |
| `IngestionProofs` | theorems about `Ingestion`: positions, panics, loops, names of DNS, records | |
| `SampleCapture` | the encoders of the sample generator | none: operators from fields to bytes |
| `ReadBack` | what was written, compared with what `Ingestion` tells of it | none: `capture.truth` says what was written |
| `ReadingProofs` | theorems about `ReadBack`: cut ClientHellos, packets as the sample writes them | |
| `FlowAssembly` | `ingest_pcap_bytes` after parsing | `flow_map`, `resolved`, `flows` are the variables of that name |
| `FlowAssemblyProofs` | theorems about `FlowAssembly` | |
| `EventBus` | `emit`, the ring, `sse_events`, the connection, the console | `sent` is the tail of the ring, `cursor[p]` the `Receiver` of a page, `wire[p]` its connection, `rows[p]` the rows of `mountConsole`; `joined` is history |
| `LiveLog` | what the log promises, without ring and connections | `rows`, `joined`, `sent` |
| `EventBusProofs` | theorems about `EventBus` | |
| `Uploads` | `save_upload`, `list_available_pcaps`, `resolve_pcap_path`, the reading of `run_ingest` | `uploads` is the upload directory; `saver[u]`, `reader[r]` are requests; `soiled` and the flags `crossed`, `disturbed` are history |
| `UploadsProofs` | theorems about `Uploads` | |
| `MC...` | small instances: symmetry, constants | |

`Pipeline` extends `StoreLock` and implements `DetectionStore` under a
refinement mapping; `EventBus` implements `LiveLog`. `Ingestion` extends
`CaptureReader` and `PacketParsers`; `ReadBack` joins it with `SampleCapture`,
and `MCIngestion` feeds it what that writes. `Detection` extends `FeedConversion`.

How the parts fit: `Uploads` says which bytes an ingest reads, `Ingestion` what
the packets in them tell, `FlowAssembly` which flows these make. `SignatureCache`
says which set a fetch returns, `FeedConversion` what its entries become,
`Detection` what a run makes of flows and set. `Pipeline` takes a flow list and
a signature set for a value and the detections for a function of the two.
`EventBus` carries the events that `Detection` counts.

Conventions. An operator that a comment calls a mutant is a plausible bug of
the definition that follows it; no specification uses it. Definitions have the
names of the source where TLA+ allows it.

### Pipeline

Each statement under a guard is a step of its own: `IngestFlows`, `IngestPcap`
and `IngestClear` are the three assignments of `run_ingest`, `DetectSignatures`
and `DetectFlows` the two clones of `run_detection`, `ReportTally` and
`ReportFields` the two halves of `build_report`. So it is the lock, and not the
grain of the model, that keeps other requests out. `Cancel` is possible at the
awaits only, since a future is dropped only where it is suspended.

Flows, captures and signature sets are values without structure. Detections
are the pair of flows and signatures they were computed from. The other read
handlers (`status`, `get_flows`, `get_signatures`, `get_detections`) take one
read guard and change nothing; the report stands for them in the lock's queue.

The refinement mapping shows the store as its readers see it. While an ingest
is between its first assignment and the release of its guard, nobody reads, and
the abstract store already has the new capture and no detections.

### SignatureCache

`FetchStart`, `UseCache`, `FetchAfresh`, `SkipFeed`, `FeedAnswers`,
`FeedFails`, `Build`, `SampleFails`, `Truncate`, `Write`, `SaveFails` and
`Commit` follow `run_signature_fetch` from top to bottom, with its early
returns and each `?`. `std::fs::write` is two steps, because another process,
or the end of this one, may come between them. Two saves that overlap leave
one of the two sets or a file that does not parse, and a process that ends in
the middle of a save leaves an empty file or one that does not parse. A set is
its time stamp, the sources its indicators name, and its flag. `Faults` says
which failures a run includes; all of them are in `sigcache`.

### FeedConversion and Detection

`Convert` turns one entry of the feeds into its signatures, and `Load` takes
the sample or the cache when nothing came of them. Both loops after that, over
signatures and over flows, take one turn a step. The constant functions
`ParseIp`, `BeforeColon`, `Subnet24`, `Lower` and `NormalizeUrl` and the set
`Entropic` stand for the conversions and for the entropy test; the instance has
names that differ by case, URLs that differ by a slash, text that is no
address, an endpoint with an IPv6 address, an IPv6 address without a /24, and
addresses that share one.

### Ingestion

Bytes are numbers from 0 to 255 and positions are the code's. The functions
that have no loop (headers, a request) are operators; a loop takes one turn a
step: `ReadRecord` takes a record of the capture, `Label` and `Jump` a turn of
`read_dns_name`, `ReadQuestion` and `ReadAnswer` a question or an answer, and
`SkipExtension`, `EnterList`, `SkipName` and `TakeName` are the scan for a
server name. Decoding UTF-8 is a pair of constant operators
(`Lossy`, `IsUtf8`); the f64 sum of a time stamp is the second that it rounds
down to, the next one for a fraction too close to it.

`SampleCapture` follows the encoders of the generator from the DNS name to the
file, so that a packet of each kind goes from fields to bytes and back. `ReadBack`
describes a packet that was sent by the endpoints, the frame and the options
around what it carries, and that by a kind and its fields; `Frame` gives its
bytes and `Tells` what should be told of it.

### FlowAssembly

One turn of a loop a step. `Collect` takes the flows out of the hash map in any
order. What the parsers find in a payload is given by constant functions.

### EventBus

Events are numbered. `Emit` never waits. `Skip` is the `Lagged` error, which
`sse_events` maps to nothing; `Deliver` writes an event to the connection when
that takes more; `Receive` is the listener of the page; `Lose` breaks the
connection with what is on it, `Subscribe` is the first request and every
automatic one after it, `Navigate` is another page in the same window. The
console keeps every row and displays the last `ConsoleRows` (a column of fixed
length that old rows leave). `LiveLog` has the rows alone: a row is shown if it
is newer than the last one and what lies between is too old to be kept or came
before the page joined.

### Uploads

A capture is a sequence of blocks. `Create` truncates the file, `Write` puts
one block at the writer's own place, so that two writers of one name mix and a
reader may meet a file that has become shorter. A save goes on when its client
has gone, since the file is written on a blocking thread. `Restart` leaves the
files alone. A file is `soiled` from `Create` on until a save ends that met no
other one.

## Runs

| Run | Bounds | What it shows |
|---|---|---|
| `pipeline` | 3 requests, 1 capture name, 2 flow lists and the empty one, 2 signature sets; symmetry on all four | safety, the action property and the refinement |
| `pipeline_live` | 3 requests, 1 value of each kind, no symmetry | every request that does not wait for a feed ends |
| `pipeline_published` | 2 requests | finding: a run publishes against a set that was replaced |
| `sigcache` | 1 fetch of the server, which has a key, and 1 headless run, which has none; times 0..2, TTL 1; every fault | types; a fresh save spares the feeds; a fetch that no other one crossed leaves memory and file the same |
| `fetch` | the same two; sources "all", "threatfox", "offline"; feeds that fail, clients that leave | provenance, forced fetches, every fetch ends |
| `cache_ttl` | 1 fetch, TTL 3 where chrono reaches 2 | finding: a huge TTL counts as zero |
| `detection` | every feed entry of every kind alone, and every pair of one entry of each feed; when they yield nothing, every list of up to 2 signatures; every flow of every kind alone, and pairs | what the feeds report is found; verdict, named signature, counts |
| `flows` | every capture of up to 4 packets of 10 kinds or unparsable, every order of the hash map | connections, names, URLs, digests |
| `ingestion` | 11,502 captures: the sample cut at every byte, frames and ClientHellos of every shape cut at every byte or with a byte changed, DNS messages with any 5 of 5 bytes for a name; at most 6 hops (128 in the code) | no index leaves its slice, every loop ends, names are right, what was written is read |
| `capture_byte_order` | captures of a big-endian machine | finding: they are refused |
| `events` | 2 pages, 5 events, a ring of 3 (512), 1 event on a connection, 2 displayed rows (200) | the log is in order and misses only what it must; it catches up |
| `uploads` | 2 uploads and 1 ingest; a plain name, one that a sample has, one with two dots; captures of 1 and 2 blocks; 2 files | an ingest gets one capture, a save heals a torn file, what is listed can be ingested |

Why the bounds are enough. In `pipeline`, three requests are what it takes for
a run to be overtaken by an ingest while a third request reads, or for a
reader, a writer behind it and a reader behind that one to meet in the queue;
two flow lists and two signature sets are needed to tell old from new. One
capture name is enough because an ingest is told from the store's first state
by it, and two ingests by their flow lists. The theorems remove these bounds.
In `sigcache`, two fetches are needed for two saves to overlap, and times 0..2
with a TTL of 1 give an age below, at and above the TTL. In `detection`, two
signatures are needed for a shared key and for two criteria that compete; a
third one meets only pairs. In `flows`, four packets are two connections with
two packets each, or a flow and two responses that name its address.

In `ingestion`, the five bytes are taken from 0 (the end of a name), 1, 14 and
16 (labels that stay inside the message, end at its end or leave it, and as
second bytes of a pointer places before, in and behind the name) and 192 (a
pointer); names with two pointers, pointers to themselves and names that use up
the hops are among them. That no index leaves its slice and that loops end is
proved for all bytes. In `events`, five events overrun a ring of three and
then fill it again; a connection that takes one event is enough for one to be
lost with it while others are unread. In `uploads`, two saves are enough to mix
a file, and a longer and a shorter capture to show what truncation is for; a
second ingest would not affect the first.

Deadlock is checked except in `detection`, `flows`, `ingestion` and
`capture_byte_order`, whose programs end.

Fairness. `FairSpec` of `Pipeline` is weak fairness of what the runtime does
for each request by itself: tokio polls a future that is ready, reads a file,
and grants the lock in order. Neither the clients' requests and disconnections
nor the answers of the feeds are fair: the HTTP clients have no timeout.
Because the lock's queue is first come, first served, weak fairness suffices.
`FairSpec` of `SignatureCache` is the same for the steps of a fetch. `EventBus`
assumes of each page that the runtime polls a stream that can go on, that the
browser takes what has arrived, and that an `EventSource` tries again, which is
what it is there for; nobody need emit, and connections may break for ever.
`Uploads` assumes that a thread that saves or reads a file is scheduled; no
request need come, and disks and clients may fail at any time.

## Findings

Each is a property that quotes the repository and a run that violates it; the
details are in `PROJECT.json`.

* `PublishedAgainstCurrentSet`: detections are published against a signature
  set that a fetch has replaced; the report shows them with the metadata of
  the new one.
* `FreshSaveIsReused` with a huge TTL: `is_stale` takes a duration that chrono
  cannot represent for zero.
* `EveryByteOrderIsRead`: the branch for big-endian captures compares with
  constants that are swapped already, so that it is never taken and such a
  capture is refused.

### Divergences without a run

Met while modelling; the models follow the code.

* The cache is served whatever source it was filled from (`pipeline.rs:152`),
  although a fetch names one (`signatures/mod.rs:11`).
* Fetches that overlap can leave one set in the file and another one in memory,
  and so does a client that leaves while its fetch waits for the lock
  (`pipeline.rs:248`, `README.md:158-160`). `MemoryHoldsWhatIsCached` says what
  holds: a fetch that commits and that no other one crossed leaves the same set
  in both.
* A host name that is present but empty is a host name and keeps a later one
  out (`ingestion/mod.rs:96`), although "first non-empty value wins"
  (`models.rs:43-45`). The query for the root of DNS in `flows` is such a case:
  a connection that asks for it first and for another name next has the empty
  name. `FirstTellingPacketWins` excepts the flows whose first name is empty.
* A ClientHello that is cut in its server name gives a cut name
  (`parse.rs:279`), although the comment says that it gives none
  (`parse.rs:229-232`). `CutHelloNoOtherName` says what does hold: no name but
  a prefix of the true one.
* An IPv6 `ip:port` of ThreatFox is cut at its first colon
  (`threatfox.rs:71`) and never fires; `FeedIndicatorsFire` excepts it.
* The log does not have every event of the app (`README.md:80-81`): a page that
  lags or reconnects is not told what it lost.
* A name with two dots in a row is saved, answered and listed as available, and
  then refused (`pipeline.rs:76`, `pipeline.rs:322`). An upload with the name
  of a sample is listed once and never ingested (`pipeline.rs:79`). An upload
  as `dir/x.pcap` is saved as `x.pcap` but answered with the name as it was
  given (`api.rs:92`).
* A segment whose IP header says zero for its length, as segmentation in the
  card leaves it, is read as one without payload; fragments of IP are read as
  if each began with a transport header; only `Host: ` and `host: ` are found
  in a request.
* The second generated-looking name of the sample, `h4xmy7d0rm.net`
  (`gen_sample_pcap.rs:101`), has a repeated letter and stays below the entropy
  threshold: it is not reported as suspicious.

## Proofs

Eight modules prove, for instances of any size, what the runs check on small
ones: every safety property, every action property and every refinement. The
assumptions are those that the modules state of their constants: that IP
addresses are totally ordered, that `None`, `NoOne`, `NoSet`, `NoFile` and the
file states are not values of another kind, that every request has a process,
that times and bounds are natural numbers, that captures are sequences of bytes,
that decoding gives a sequence of numbers, that lower case is lower case
already, and that of an endpoint's text only an IPv4 address survives the cut at
the first colon.

Five theorems have a hypothesis of their own. `FreshSaveSparesFeeds` assumes
`Ttl <= MaxTtl`, which `cache_ttl` shows to be necessary. `WholePacketsAreRead`
assumes of each capture what its property compares it with: that it is the
beginning of a file with the records that were written (`HoldsRecords`); and so
does `CutHellosNameNoOther`: that the bytes of a ClientHello are those of its
session, its extensions and their names, with anything behind them
(`WrittenHello`). `GeneratedPacketsAreReadBack` assumes `HoldsRecords` and that
the packets of the file are made of their descriptions by the encoders, with
their times in microseconds (`HoldsSent`). The fields are those that the
encoders can encode and the parsers are meant to read: a name has labels of 1 to
63 bytes and fewer of them than the hop limit, texts survive decoding (bytes as
characters, which is ASCII), a path is not empty, a path and a host have no
white space, DNS goes to or comes from port 53. TLC evaluates the three on every
capture of `MCIngestion`. `NamesAreReadRight` assumes of decoding that no text
gets lost (`LossyKeepsText`: of bytes other than none it leaves something), as
`from_utf8_lossy` leaves at least U+FFFD; the lemma `BytewiseKeepsText` shows a
decoding of which it holds.

**Pipeline.** The properties are not inductive. That a published moment was
one (`DetectionsFromOneMoment`) rests on what a run cloned, which rests on the
store not having changed between the two clones, which rests on the guard. The
invariant `IInv` therefore adds to them the lock discipline, that the present
pair is among the moments, and `LocalsOK`: what each request carries at each
place (a named capture, a fetched set, the signatures of this very moment
between the two clones, non-empty flows and a set during a run). There is one
lemma an action. The refinement proof maps an ingest's first assignment to
`Ingest` and the other two to stutters, using that the writer is alone and, at
`ingest:clear`, that the name has already been set. `OnlyOvertakenRuns` goes
through the same cases.

**SignatureCache.** `IInv` follows the indicators: what a fetch has got is
among what it wanted, the set it built has a truthful flag (`Collected`,
`AllHonest`). `SavesApart` says of a save that is not overlapped that it is the
only one and that the file is empty until it writes; and that a clean set is in
the file, with no save under way. `FreshSaveIsReused` follows because the file
then is a set, which `Reusable` refuses only when it is stale. `Alone` says of
a fetch that no other one crossed that it is the only one under way, that its
save is not overlapped, and that the file holds its set once it is ready to
commit; no other fetch can begin or go on without crossing it, so that
`MemoryHoldsWhatIsCached` follows.

**Detection.** The maps are compared with the list they are made from:
`Mirrors` says of a map and the first k keys that it holds, of each key, the
last signature that has it, and nothing else. One lemma grows it by a key and
one by a signature without one, so that `MapsRight(Indexed)` is inductive and
each of the five lookups finds the last signature that indicates the flow by
its criterion; the first lookup that finds something then finds the signature
with priority. `FromFeeds` says that signatures come of the entries converted
so far and none got lost, unless no entry gave one and the set is another;
`FeedsFire` joins it with what each kind of entry becomes. `Counted` says that
each count is the number of detections with that verdict.

**Ingestion.** `TypeOK` says where each position may be and is all but
inductive; `IInv` adds that a packet is being parsed and that a name is being
read only while records are left. The lemmas are about slices (a byte, a word
and a slice inside a buffer, the header and the end of an IP packet, the
segment, an extension, a name of a server), one for each kind of index that
the code computes. There is one lemma a step, which shows both that `IInv`
holds again and that `Work`, seven natural numbers in lexicographic order,
shrinks: the bytes of the capture, its packets, and within a packet the stage,
the records or bytes left, and the hops. Nothing is assumed of the bytes.

**What is read.** The first two properties compare the readers with functions defined
by recursion, on the turns that a name takes (`NamesWithin`) and on the records
(`RecordEnds`). To the prover such a function is a choice among the solutions
of its equation, so a lemma has to show that there is one (`NamesExist`,
`EndsExist`); it goes by induction, which `SetInduction` gives for a set of
numbers in place of a predicate. The invariant of a name, `NameSoFar`, is that
what has been read of it, joined with what stands at the cursor for those who
take the turns that are left, is the whole name; that it goes on behind the
first pointer, if there was one; and that there is no name where the reader
meets the end of the message. The reader of names gives up exactly when this
leaves none. The invariant of the records, `RecordsSoFar`, is that the reader
stands behind the first k packets that were written and has these; since the
capture is the beginning of what the writer left, the next record is whole for
the reader if and only if the file holds it.
The third compares them with an encoder. `Stands` says that a part stands at a
place of the whole; parts that are put together stand one after the other
(`PartsAreLaidOut`, by the same induction), a byte, a word and a slice of a part
are read where it stands (`ReadWhereItStands`), and in what is left of the whole
(`CutReads`). So the lengths that a ClientHello states lead `extract_sni` to the
places where its parts stand. The invariant, `HelloSoFar`, is that it walks from
one such place to the next, or to the end of what was captured, first among the
extensions and then among the names (`Walking`), so that the name it takes is
one that was written, and of the kind it looks for. A payload that begins like
a handshake has no HTTP method for a first word (`HandshakeNotRequest`).

The fourth does it for whole packets. The encoders are read part by part:
`TaggedFrame` and `PlainFrame` find the datagram in the frame, `IpHeaderReads`
its endpoints, its protocol and the end that the header states, so that padding
is left out, and `UdpReads` and `TcpReads` the payload (`SentParses`). Then the
parser of each kind of payload is followed from step to step. `NameWalk` says
that `read_dns_name` has gone over the first k labels of a name that stands
there, without a pointer and with a hop left for the next one (`NameWalks`);
`AtQuery` and `AtResponse` say which of the records of a message it stands at;
`AtHello` that the one extension lies at a fixed place and fills the message;
and a request is laid out as words between spaces and ends of lines, of which
`First` is shown to find the right ones (`RequestReads`). `SentSoFar` joins these:
the packet that is parsed, if it was sent, is at one of the places of its kind
(`TakenAsSent`), and those before it were told as they were sent.

**EventBus.** Take what a page has and what is on its way to it as one
sequence. `IInv` says that it grows strictly, that each gap in it, and the gap
between its end and the cursor, holds only events that were missed for a reason
(`Ordered`, `Gap`), and that of a connected page its end is made of the recent
events without a gap (`Recent`). Reasons never go away, because the tail of the
ring and the moment of joining only grow; so each step has to be shown only for
what it adds. The refinement follows for `Receive`, the one step that shows a
row, and `RecentEventsArrive` from `Recent` by counting from the end.

**Uploads.** A save that no other one crossed is the only writer of its file,
and the file is what it has written so far (`SaverOK`): whoever begins later
crosses it, and whoever ended earlier left a file that its truncation emptied.
A file that is not soiled is a capture (`CleanFiles`), because only such a save
takes a file off the list. Of an ingest that nobody disturbed, the file is not
soiled and what it has read is how the file begins (`ReaderOK`).

**FlowAssembly.** `MapsFlows` compares the map of flows with the first k
packets: it has a flow for each key of theirs, which spans and counts the
packets with that key and has what the first telling one told; `MapsAnswers`
says that each name is that of the last answer. One lemma adds a packet to a
flow, one begins a flow, one puts answers in. The order in which the map iterates is an
injection into its keys of the same size, hence onto (`OrdersAreOnto`); the
places that the sort counts out are all taken for the same reason
(`PlacesAreTaken`), so that no flow is lost or doubled. That a key stands for
an unordered pair of endpoints (`SameConnection`) needs the order of addresses
to be total, and joins the invariant to the definition of a connection.

The invariants were checked by TLC before they were proved, except for those of
what is read that choose among functions, which it cannot evaluate; there it
checked the properties. Only model-checked is liveness (`RequestsFinish` of the
pipeline, `FetchesEnd`, `CatchesUp`, `RequestsEnd`), which is beyond this
prover.

## Not modelled

* The dashboard pages, apart from the console: static pages that show what the
  API answers.
* The HTTP requests of the feed clients and the JSON of their answers, beyond
  which entries it yields; the descriptive fields of entries, signatures and
  flows; byte and packet counts.
* Argument parsing, `.env` lookup, the layout of the terminal report.
* `main` of the sample generator, a straight line of calls of the encoders; the
  model has a packet of each kind.
* The entropy of a name, a sum of floating-point logarithms: which names pass
  is a constant.

## What is next

1. **Composition** of `SignatureCache` and `Pipeline`, so that a fetch of
   `Pipeline` is a fetch of `SignatureCache`; the refinement of
   `DetectionStore` carries over. `Ingestion` before `FlowAssembly`, in place
   of the constant functions.
