# A TLA+ model of go-mumble-server

go-mumble-server is a Mumble voice server in Go.  One process, the *core*, owns
all state: users, channels, permissions, bans.  Clients connect to an *edge*,
which is either in the same process (the local edge) or a separate process that
talks to the core over a mutually authenticated TLS connection.

This directory models the server's concurrent parts and its algorithms, checks
them with TLC on small instances, and proves central properties with TLAPS for
every value of the constants.

## Contents

| file | what it models or proves |
| --- | --- |
| `ControlTransport`, `SessionStream` | one session's control queue, worker and lifecycle entry; what it promises the client |
| `SessionLifecycle` | several sessions that join, leave, are removed and reuse IDs |
| `UserManager` | the table of users and the pool of session IDs |
| `EdgeLink` | core and remote edge over links that are lost and replaced |
| `VirtualServer` | channel tree, links, user flags, listeners, crypto mode, normal speech |
| `AccessControl` | permission evaluation, its cache, temporary group members |
| `VoicePath` | one voice packet from datagram to recipient while sessions come and go |
| `CryptState` | nonces, history and replay window of voice encryption |
| `MessageCodec`, `Connection` | every control message on the wire; a connection's queue, stream and reader |
| `SessionSteps` | the effect of each step of SessionLifecycle on one session, for its proofs |
| `*Proofs` | theorems about every module above but CryptState, MessageCodec and Connection |
| `MC*.tla`, `MC*.cfg` | instances for TLC, one `.cfg` per run |
| `PROJECT.json` | components, runs, faults, map to the source, findings, hazards, theorems |

To run one: `tlc -config MCEdgeLink.cfg MCEdgeLink`, or `tlapm VoicePathProofs.tla`.

## How the parts interact

A client's bytes are packets (`Connection`) that hold messages (`MessageCodec`).
A remote client's messages first cross the link to the core (`EdgeLink`).  The
handlers authenticate (`SessionLifecycle`, over `UserManager` and the registry) or
change channels and users (`VirtualServer`), asking `AccessControl` for
permission.  What they broadcast goes to the control queue of each session
(`ControlTransport`), which ends in a connection or in a link.  Voice takes its
own way: a datagram is opened with the sender's key (`CryptState`), attributed to a
session, routed and written (`VoicePath`); who hears normal speech is decided by
the tree (`VirtualServer`).

The modules meet in the registry.  `ControlTransport` has one entry of it in full
detail, `SessionLifecycle` many entries with the queue as a flag, `EdgeLink` the
edges and their generations, `VoicePath` the look-ups by full reference.

## The modules

Everywhere one action is one critical section of the code: an operation that takes
its locks several times has an action for each.  An operation that may fail has an
action or a disjunct for each outcome.

**ControlTransport.**  State: the entry (`state`, `announced`, `lock`, `removes`),
the queue (`queue`, `deferred`, four flags), the worker, two result channels, the
client's wire, and the places of the authentication handler and of a closing
thread.  `CommitSyncAndAnnounce` is `CommitStart` (the barrier is queued),
`CommitAcked` or `CommitGivesUp` (`await`), `CommitSplice` or `CommitRefused`, and
`Announce`.  Messages are numbers: the initial sync is `1 .. InitialLen` and
broadcasts continue the numbering, so a wire that carries 1, 2, 3, ... is in order
and complete.  `SessionStream` is the promise (sync, live, end);
`ControlTransport` implements it with `stream <- written`, `phase <- streamPhase`.

**SessionLifecycle.**  Sessions are generations; `users`, `entries` and `conns` are
the tables keyed by session ID.  A thread that ends a session is the list of steps
it has still to take, in the order its path has in the code:

| path | code | steps |
| --- | --- | --- |
| kick | `KickSessionRef` | hold, broadcast, release, final, remove, unregister |
| ban | `BanAndKickSession`, `handleUserRemove` | close, broadcast, final, remove, unregister |
| fail | `controlFailed` | hold, broadcast, release, unregister, remove |
| drop | `LocalEdge.OnClose` | unregister, remove, broadcast |
| auth | `closeFailedSync` | abort, unregister, remove |

A broadcast serves its recipients one at a time.  A client's view is its snapshot
overridden by the broadcasts.

**UserManager.**  The fields of `Manager` and `sessionPool`; what
`authorizationChanged` compares is one value of `Grants`.

**EdgeLink.**  Link *l* is the edge's *l*-th connection and has generation *l*.
At the core: `serve` and `close` of each link, the read loop, an authentication
between its check, `Manager.Add` and `Bind`, the sync with its flush receipt, kicks
and the clean-up of a lost link.  At the edge: `connectAndServe`, `drop`, the
queue, the pending requests, the client's handler, and the write loop that a failed
heartbeat leaves behind (`thief`).  A queue and the wire behind it are one sequence.

**VirtualServer.**  A handler is a sequence of steps (`h`) between which other
handlers run, because each manager has a lock of its own.  Rows and nodes are kept
apart, so that `Load(FixRootID(rows))` is what a restart finds.  A UserState message
is a function from the fields present to their values.  Speak is state, a set of
pairs of user and channel that an ACL edit replaces and a move may change for the
mover (`@in`, `@out`); the answer of any other permission check is free.  A listener
limit of 0 is none.

**AccessControl.**  `Evaluate` walks the path as `evaluate` does, on whatever
contents each channel had when it was read.  `permissions()` is `Call`, `ResolveUser`,
`LookUp`, `ReadChain`, `ReadChannel`, `StoreResult`; a change and its invalidation are
two steps.  `Rule` states the evaluation without a walk.  It is the rule of the code
and of the comment above `evaluate`, and differs from the documents in three places:
a denial of Traverse and Write above a channel that does not inherit still counts
below it (`acl-evaluation-pattern.md:55` cuts the path there), server-wide permissions
come from the root's own rows only, and Write brings neither Speak nor Whisper
(`permissions.md:15`).

**VoicePath.**  A packet (`job`) goes through the steps of `HandleUDP`, `RouteRef`,
`SendVoice`, `DispatchVoice` and `DeliverVoice`; sessions end and IDs are reused
between any two.  A worker at `"remember"` holds `connMu`.  A connection stands for
its generation.  A session in lite mode (`Lite`) opens every datagram; one with a key
opens what its key sealed, unless it is late or repeated.  `named` and `heard` are
history.

**CryptState.**  A legacy nonce is a number in base `IvSize`, of which a datagram
carries one digit; the bitmap is bytes of `BitsPerByte` bits shifted as the code
does.  The ciphers accept what was sealed with the same key and nonce.  A resync
carries the sender's nonce of the moment and may arrive however late; `overtaken`
records that so many packets went before it that it takes the receiver's nonce back to
packets the history has forgotten.

**MessageCodec, Connection.**  A message is a table of fields, taken from its
`Marshal`; `Marshal` and `Unmarshal` interpret the tables.  Widths are parameters.
`Connection` sends the bytes through the queue and the write loop, cut into segments.
A write may fail with nothing or only the header sent (`broken`); the error is dropped,
as in `writeOne`, and the message counts as done.

## Runs

| run | instance | shows | states |
| --- | --- | --- | --- |
| transport | queue 2, 3 initial, 3 live messages | completeness, barrier, pairing, refinement of `SessionStream`; commits, workers and failures end | 168 k |
| lifecycle | 2 IDs, 3 sessions, one ended by any cause at any moment | tables agree, nothing left behind, clients see who is there | 777 k |
| lifecycle_live | 2 IDs, 2 sessions | sessions and authentications end | 99 k |
| services | one component per behaviour, below | 13 properties of five components | 932 k |
| edge | 1 client, 2 links | fail-closed, confirmed activation, clean-up, every request answered | 104 k |
| channels | 3 channels, 2 users, six mixtures of requests | tree against rows, links, flags, deltas, limits, reach | 489 k |
| transport_flush | | `CloseFlushesAccepted` is violated | |
| lifecycle_reuse | | `IDHeldUntilRemoved` is violated | |
| crypt_repeat | | `SecureOpensOnce` is violated | |
| edge_bind | | `BoundByCurrent` is violated | |
| channels_orphan | | `UsersInTree` is violated | |
| channels_denied | | `DeniedHereUnheard` is violated | |

`services` puts components that share no variable into one run.  The variable
`part` picks the one that moves, so that the state spaces add up instead of
multiplying.

**Bounds.**
*transport*: sync and broadcasts are longer than the queue, so that both overflows,
the reserved slot and the splice of a full list occur.
*lifecycle*: three sessions on two IDs are the fewest in which an ID is reused while
a third session watches; one session is ended on purpose, but its OnClose and its
handler clean up beside the cause.
*edge*: two links are a loss and a replacement; the core's queue holds a sync.
*channels*: root, child and grandchild or siblings; a new database and one with a
link at one end only.  Mixtures keep together the requests that touch the same state;
an ACL edit may grant Speak to any users in any channels.
*services*: bytes of 4 bits, `uint32` of 6 and `uint64` of 10 bits, so that varints
have one to four groups and the widths differ; every message type with nothing, each
field, and everything set.  A nonce digit of 6 values with 8 packets wraps, and
a bitmap of 2 bytes is shifted within and across its bytes.  Permissions: two changes during a
call; for the rule, every pair of 15 rows, one on the root and one on any channel.  Voice: two
sessions, one of them in lite mode, and a third connection that takes over an ID, two packets,
one worker.  Users: more
names than room and more joins than IDs.
Model values are only compared, so symmetry is sound in `lifecycle`; runs with
liveness use none.

**Deadlock** is not checked: when every session has ended and the bounds are
spent there is nothing left to do, as in an idle server.

**Fairness.**  Weak fairness of each goroutine that has started, which is what Go's
scheduler gives a runnable one.  Nothing is assumed of the client: the worker of
`ControlTransport` is only fair on a closed transport, where `ControlSink.Close`
promises that a write returns (`control.go:23`), and `CommitGivesUp` and
`CloserGivesUp` are the deadlines of `await`.  In `EdgeLink` a peer's close is
noticed, because both read loops have a deadline.  No fairness makes clients arrive
or leave.

**Faults.**  For every property of a passing run a module holds a faulty variant of
a definition (marked "Fault"); with it TLC finds the property violated.

## What the runs found

* `CloseAfterFlush` reports success although messages that `Send` accepted during
  the sync were dropped (`control.go:339`); the ownership document promises them.
* `OnClose` frees the session ID before it broadcasts UserRemove, against the order
  of the lifecycle document.  A session that gets the ID in between is removed from
  other clients' lists.  `EveryoneVisible` is therefore stated for IDs that nobody
  held before or whose holders were kicked.
* Secure mode accepts its newest datagram again when it is repeated: the bit that is
  set is not the bit that is read (`cryptstate.go:361`).
* `Bind` does not check the edge's generation: a session that the old link admitted
  is bound under the new one (`registry.go:93`).
* The REST interface removes a channel and leaves its users in it
  (`handler/server.go:586`).
* A sender without Speak in their own channel can be heard in a linked one
  (`router.go:103`), when a move overwrites the suppression that an ACL edit set.

Seen while modelling, without a run of their own:

* A ban between `Manager.Add` and `Registry.Bind` finds no entry to close, removes the
  user record only, and the session becomes Active without one.  The ban is in the model,
  and the session it hits is `BannedEarly`: `EntryOwnsUser`, `NoGhostUser` and
  `EveryoneVisible` except that session, and say that no other is affected.
* A nonce resync that more than 226 packets overtake (256 values of the first byte less
  the late window of 30) lets a legacy packet be opened twice; `LegacyOpensOnce` is
  stated up to such a resync.
* `RouteRef` asks Speak of the sender in each channel, so that a link between two
  channels carries voice one way when the grants differ; `ReachIsMutual` is stated for
  two users who may each speak in the other's channel.
* In lite mode any datagram no key opens is attributed to some lite session, and its
  address with it.  `SpeakerHasKey` and the address half of `WhisperReachesNamed` are
  stated for sessions with a key.
* `registerConnOnly` (`handlers.go:901`) can register the connection of a session
  just cleaned up, or replace that of its successor.
* `UpdateChannelCrypto` and the per-channel listener limit are read and then written
  under separate locks; `MixedIsRecorded` is stated for requests in turn,
  `ListenerLimit` for the per-user limit.
* `handleChannelRemove` moves users out of a channel that `Remove` then refuses
  because it has children.  `Remove` leaves links to the channel in its neighbours;
  `UpdateLinks` drops them later.
* A remote edge reads from the core in the loop that waits for one client's flush
  (`edgeruntime.go:468`): a slow client delays the others.
* A request taken by the write loop of a lost connection is not answered;
  `AuthAnswered` excepts that case.
* `ACL.InheritACLs` is read as false when it was sent as true; an empty target of a
  VoiceTarget is dropped.  `Received` says so.
* Secure mode moves its window before the tag is verified, so that trial decryption
  of others' datagrams moves it.  Legacy packets late across a wrap of the first
  byte are lost.
* A replaced or reused ID can give one packet of normal speech to the successor
  (`router.go:120`).

## Proofs

The assumptions are those stated on the constants in each module; bounds such as
`MaxLive` or `MaxPackets` are arbitrary there.

**ControlTransportProofs**, for every positive limit and number of messages: `TypeOK`,
`InOrder`, `SyncedWhenActive`, `CommitNeverOverflows`, `NoOrphanWorker`,
`JoinRemovePaired`, `NoLateActivation`, `NoneLost` and the refinement `DeliversStream`.
None is inductive alone.  `IInv` adds *Lifecycle* (entry, lock, handler's place,
announced), *Ownership* (who may still touch the queue), *Shape* (where a barrier or final
command may stand), *Numbering* (written, in hand and queued are consecutive) and
*Sync* (from the barrier on the queue holds nothing else, which makes the splice
fit).  Given `IInv` before and after, `NoneLost` is kept by each step: a message only
moves from `deferred` to the queue, to the hand and to the wire.  `StreamStep` shows
that each step extends the stream, ends it, switches it to live or leaves it alone.

**UserAccessProofs** has the user manager and the permissions.  For every set of names
and grants and every limit: `TypeOK`, `NameIndex`, `PoolPartition`, `AllocSucceeds`,
`GenerationsDiffer`, `RevisionTracksGrant`.  The strengthening is `FewDrawn`: an ID is drawn only when the
free list is empty, and then every ID drawn belongs to a user.

For every tree, set of rows, users and callers: `TemporaryMembersLive` and
`AnswersFresh`.  The first needs `SwapCurrent`: what a replacement is about to write is accounted for as long as the generation it noted is
current.  The second needs `CacheGood` and `CallGood`: an entry of the cache, and
what a call has read, agree with the present state unless an invalidation is still
to come or the generation has moved.  How permissions are computed plays no part, so
`Evaluate` is never expanded.

**VoicePathProofs**, for any number of sessions, addresses, packets and workers:
`SpeakerHasKey` and `WhisperReachesNamed`.  `VoiceInv` says of each packet what is
known at its step.  The difficult case is a sender that has gone while its ID, and
with it a voice target stored under the ID, belongs to a successor: the packet may
then carry recipients its sender never named, but its sender is `Departed`, that is
final, and `SendVoice` drops it.  Any of the sessions may be in lite mode.

**SessionLifecycleProofs**, for any number of sessions, IDs and faults:
`NothingLeftBehind`, `EntryOwnsUser`, `NoGhostUser` and `EveryoneVisible`, with bans at
any moment.  The argument is in three modules over the definitions of `SessionSteps`:

* `SessionStepProofs`: every step is a step of one session; it leaves the others
  alone and has on its own session one of about thirty effects (`NextDoes`).
* `SessionEffectProofs`: what an effect keeps.  `BaseAt`, `LockAt`, `RemovedAt` tie
  entry, mapping and lock to the places of the five threads.  `LeftAt`: a session that
  is ending is gone from a table or some thread has still to remove it.  `OwnAt`: what
  is bound and not closing holds its ID.  `MailAt`: whom a thread has still to tell.
  `ShownInv`, `FreshInv`: at an ID a client shows only sessions that were given the ID,
  and none before its own sync begins.  `GhostAt`: a session that a client shows is Active or its removal
  is due there.  `SeenAt`: an Active session is shown, or its join is due, or the
  client's snapshot is still to come.
* `SessionLifecycleProofs` joins the parts.  When the threads of an ID have settled
  nothing is due, and the properties remain.

**EdgeLinkProofs**, for every set of clients and any number of links: `FailClosed`,
`LossEndsSessions` and `ActiveConfirmed`.  All rest on `AdmitInv`: a session's request
is in at most one place, and what any table, message or thread says of it agrees with
the link that admitted it.  `FailInv` adds that an admission is trusted only while its
connection is the current one, or that the loss has still to close the client.
`LossInv`: a session whose sync has started is settled, or kept on the list that the
clean-up of its link has still to take or to work through.  `ConfirmInv`: of each flush,
the last message of its sync goes before it in every queue, so that a receipt on its
way, or taken, means that the message is written.

**VirtualServerProofs**, for every stored tree, set of users and limits:
`RestartFindsTree`, `LinksNeverSplit`, `DeafIsMuted`, `SelfViewSettles`,
`ListenerLimit`, `ReachIsMutual` and `MixedIsRecorded`.  `TreeInv` ties rows to nodes and
orders parents before children.  `VoiceInv` carries the flags through the steps of a
handler: what it has applied is what it will broadcast.  `ListenInv`: a check that
passed still holds when its pair is added, because only the session's own handler adds
pairs.  `CryptoInv`: a channel that is not recorded as mixed though it should be is
owed a refresh by the handler at work.  `ReachIsMutual` needs induction over the rounds
of the search; it goes through the least-number principle for sets (`LeastNat`), which
the provers can use where a predicate as a parameter is out of their reach.

**Only model-checked:**

* `MessagesArrive` and the codec behind it, `FlushedBeforeClose`: they use the RECURSIVE
  operators of `MessageCodec`.
* `LegacyOpensOnce`: remainders and quotients of variable numbers.
* `EvaluateFollowsRule`: induction over the rows of a chain, in a fold.
* All liveness: fairness is stated with ENABLED, which the provers do not have.

## Not modelled

* The checks before `Manager.Add` (name, password, certificate, ban), rate limits,
  lengths of texts and images: they refuse a message, which is a stuttering step.
* Comments, textures, plugin data, volumes, text messages, user statistics: content
  that is stored or passed on and that no decision reads.
* Errors of the database, except where a handler goes on after one.
* The block ciphers, TLS, password hashing and tokens: library arithmetic.
* Voice packet formats, the JSON body of cluster frames, parsing of selectors:
  stateless conversions of bytes.
* The ban list: one lock around rows written one by one.  List and Replace of its
  callers are a read-modify-write, in which one of two concurrent bans is lost.
* Identity revalidation beyond `UpdateIdentity` and the kick it ends in; HTTP
  handlers that only read or write the database; configuration, start-up, discovery.
