------------------------------- MODULE OSClip -------------------------------
(***************************************************************************)
(* osclip.Manager: the anti-echo ledger, the two watchLoops, processObserved*)
(* with its coalescing window, and any number of concurrent ApplyRemote    *)
(* calls (one per readPump of the mesh).                                   *)
(*                                                                         *)
(* Clipboard contents are model values; a content stands for its bytes and *)
(* for their hash.  The operating system's clipboard and the polling       *)
(* watcher of golang.design/x/clipboard are external: what is modelled is  *)
(* how this code uses them.                                                *)
(***************************************************************************)
EXTENDS Integers, Sequences, FiniteSets

CONSTANTS
    TextData,       \* contents of the text bucket
    ImageData,      \* PNG contents of the image bucket
    WireData,       \* payload bytes that are no clipboard content: JPEGs, garbage
    NoData,         \* nil
    Normal,         \* normalizeWritePayload: payload bytes -> content or NoData
    Sendable,       \* contents clipwire.NewPayload accepts
    Appliers,       \* concurrent callers of ApplyRemote
    TTL,            \* defaultPendingTTL in clock ticks
    ObservedCap,    \* capacity of m.observed
    EventsCap,      \* capacity of m.events
    MaxCopies,      \* bound: local copies
    MaxApplies      \* bound: ApplyRemote calls

Contents == TextData \cup ImageData
Buckets  == {"text", "image"}
Hashes   == Contents \cup WireData

ASSUME DataAssumption ==
    /\ TextData \cap ImageData = {} /\ NoData \notin Hashes
    /\ Normal \in [Hashes -> Contents \cup {NoData}]
    /\ Sendable \subseteq Contents
ASSUME BoundAssumption ==
    /\ TTL \in Nat \ {0} /\ ObservedCap \in Nat \ {0} /\ EventsCap \in Nat \ {0}
    /\ MaxCopies \in Nat /\ MaxApplies \in Nat
ASSUME ApplierAssumption == IsFiniteSet(Appliers)

VARIABLES
    clip,           \* the OS clipboard, per format
    fresh,          \* formats written since the library last polled them
    last,           \* what the library's poller last saw
    watchCh,        \* the library's channel: one undelivered report
    watch,          \* program counters of the watchLoops
    held,           \* the observedEvent a watchLoop is sending
    observed,       \* m.observed
    proc,           \* program counter of processObserved
    batch,          \* the batch of the current coalescing window
    events,         \* m.events
    count,          \* pendingLedger entries: entry.count, 0 if absent
    left,           \* ticks until entry.expiresAt
    job,            \* content an ApplyRemote call has remembered, NoData if none
    stage,          \* "write" or "forget": what that call does next
    done,           \* ctx is done
    copies, applies,                \* for the bounds
    local, expired, passed, emitted,    \* history: per content, how often it was
                    \* copied locally, expired in the ledger, not suppressed, emitted
    newest, settled \* history: per bucket, last content not suppressed / emitted

osVars     == <<clip, fresh, last, watchCh>>
watchVars  == <<watch, held>>
procVars   == <<proc, batch>>
ledgerVars == <<count, left, expired>>
applyVars  == <<job, stage>>
bounds     == <<copies, applies>>
vars == <<osVars, watchVars, observed, procVars, events, ledgerVars, applyVars,
          done, bounds, local, passed, emitted, newest, settled>>

BucketOf(d) == IF d \in TextData THEN "text" ELSE "image"
Nothing == [b \in Buckets |-> NoData]
Zero == [k \in Hashes |-> 0]

Init ==
    /\ clip = Nothing /\ fresh = {} /\ last = Nothing /\ watchCh = Nothing
    /\ watch = [b \in Buckets |-> "wait"] /\ held = Nothing
    /\ observed = <<>> /\ proc = "idle" /\ batch = Nothing /\ events = <<>>
    /\ count = Zero /\ left = Zero
    /\ job = [a \in Appliers |-> NoData] /\ stage = [a \in Appliers |-> "write"]
    /\ done = FALSE /\ copies = 0 /\ applies = 0
    /\ local = Zero /\ expired = Zero /\ passed = Zero /\ emitted = Zero
    /\ newest = Nothing /\ settled = Nothing

-----------------------------------------------------------------------------
(* The pending ledger.  Every operation below runs under l.mu.             *)

(* pruneLocked: drop every entry whose expiry is not after now.            *)
Pruned == [k \in Hashes |-> IF left[k] = 0 THEN 0 ELSE count[k]]
PruneExpired == expired' = [k \in Hashes |-> expired[k] + count[k] - Pruned[k]]

(* Mutant: a second write of the same content is not counted.              *)
RememberOnce(k) ==
    /\ PruneExpired
    /\ count' = [Pruned EXCEPT ![k] = 1]
    /\ left' = [left EXCEPT ![k] = TTL]

remember(k) ==
    /\ PruneExpired
    /\ count' = [Pruned EXCEPT ![k] = @ + 1]
    /\ left' = [left EXCEPT ![k] = TTL]

(* Mutant: one report uses up every count.                                 *)
ConsumeAll(k) ==
    /\ PruneExpired
    /\ count' = [Pruned EXCEPT ![k] = 0]
    /\ UNCHANGED left

(* Takes one count of an entry that is still there.                        *)
consume(k) ==
    /\ PruneExpired
    /\ count' = IF Pruned[k] > 0 THEN [Pruned EXCEPT ![k] = @ - 1] ELSE Pruned
    /\ UNCHANGED left

Suppresses(k) == Pruned[k] > 0

(* Mutant: the entry may be gone already.                                  *)
ForgetUnchecked(k) ==
    /\ count' = [count EXCEPT ![k] = @ - 1]
    /\ UNCHANGED <<left, expired>>

(* Does not prune.                                                         *)
forget(k) ==
    /\ count' = IF count[k] > 0 THEN [count EXCEPT ![k] = @ - 1] ELSE count
    /\ UNCHANGED <<left, expired>>

Tick ==
    /\ \E k \in Hashes : count[k] > 0 /\ left[k] > 0
    /\ left' = [k \in Hashes |-> IF left[k] > 0 THEN left[k] - 1 ELSE 0]
    /\ UNCHANGED <<osVars, watchVars, observed, procVars, events, count, expired,
                   applyVars, done, bounds, local, passed, emitted, newest, settled>>

-----------------------------------------------------------------------------
(* ApplyRemote.                                                            *)

(* Mutant: what is remembered is the hash of the payload.                  *)
ApplyRemembersPayload(a, p) ==
    /\ job[a] = NoData /\ ~done /\ applies < MaxApplies
    /\ Normal[p] # NoData
    /\ remember(p)
    /\ job' = [job EXCEPT ![a] = Normal[p]]
    /\ stage' = [stage EXCEPT ![a] = "write"]
    /\ applies' = applies + 1
    /\ UNCHANGED <<osVars, watchVars, observed, procVars, events, done, copies,
                   local, passed, emitted, newest, settled>>

(* ctx.Err(), ValidatePayload and normalizeWritePayload passed; what is    *)
(* remembered is the content that will be written, not the payload.        *)
ApplyRemember(a, p) ==
    /\ job[a] = NoData /\ ~done /\ applies < MaxApplies
    /\ Normal[p] # NoData
    /\ remember(Normal[p])
    /\ job' = [job EXCEPT ![a] = Normal[p]]
    /\ stage' = [stage EXCEPT ![a] = "write"]
    /\ applies' = applies + 1
    /\ UNCHANGED <<osVars, watchVars, observed, procVars, events, done, copies,
                   local, passed, emitted, newest, settled>>

(* The clipboard holds what was written last, in the formats written.      *)
SetClip(c) ==
    /\ clip' = c
    /\ fresh' = {b \in Buckets : c[b] # NoData}

ApplyWrite(a) ==
    /\ job[a] # NoData /\ stage[a] = "write"
    /\ SetClip([Nothing EXCEPT ![BucketOf(job[a])] = job[a]])
    /\ job' = [job EXCEPT ![a] = NoData]
    /\ UNCHANGED <<last, watchCh, watchVars, observed, procVars, events, ledgerVars,
                   stage, done, bounds, local, passed, emitted, newest, settled>>

(* backend.Write returns an error: nothing was written.                    *)
ApplyWriteFails(a) ==
    /\ job[a] # NoData /\ stage[a] = "write"
    /\ stage' = [stage EXCEPT ![a] = "forget"]
    /\ UNCHANGED <<osVars, watchVars, observed, procVars, events, ledgerVars, job,
                   done, bounds, local, passed, emitted, newest, settled>>

ApplyForget(a) ==
    /\ job[a] # NoData /\ stage[a] = "forget"
    /\ forget(job[a])
    /\ job' = [job EXCEPT ![a] = NoData]
    /\ UNCHANGED <<osVars, watchVars, observed, procVars, events, stage,
                   done, bounds, local, passed, emitted, newest, settled>>

-----------------------------------------------------------------------------
(* The user and the clipboard library.                                     *)

(* The user copies text, an image or both in one operation.                *)
LocalCopy(c) ==
    /\ copies < MaxCopies /\ c # Nothing
    /\ SetClip(c)
    /\ copies' = copies + 1
    /\ local' = [k \in Hashes |-> local[k] + (IF \E b \in Buckets : c[b] = k THEN 1 ELSE 0)]
    /\ UNCHANGED <<last, watchCh, watchVars, observed, procVars, events, ledgerVars,
                   applyVars, done, applies, passed, emitted, newest, settled>>

(* The poller reports what the clipboard holds now, once per change it     *)
(* notices; changes between two polls are seen as one.                     *)
Poll(b) ==
    /\ b \in fresh /\ watchCh[b] = NoData
    /\ watchCh' = [watchCh EXCEPT ![b] = clip[b]]
    /\ last' = [last EXCEPT ![b] = clip[b]]
    /\ fresh' = fresh \ {b}
    /\ UNCHANGED <<clip, watchVars, observed, procVars, events, ledgerVars,
                   applyVars, done, bounds, local, passed, emitted, newest, settled>>

(* Where the library compares contents, an equal content is no change.     *)
PollUnchanged(b) ==
    /\ b \in fresh /\ clip[b] = last[b]
    /\ fresh' = fresh \ {b}
    /\ UNCHANGED <<clip, last, watchCh, watchVars, observed, procVars, events, ledgerVars,
                   applyVars, done, bounds, local, passed, emitted, newest, settled>>

-----------------------------------------------------------------------------
(* watchLoop.                                                              *)

(* Receives a report and asks the ledger whether it is an echo.            *)
WatchReceive(b) ==
    /\ watch[b] = "wait" /\ watchCh[b] # NoData
    /\ LET k == watchCh[b] IN
         /\ consume(k)
         /\ watchCh' = [watchCh EXCEPT ![b] = NoData]
         /\ \/ Suppresses(k) /\ UNCHANGED <<watchVars, passed, newest>>
            \/ /\ ~Suppresses(k)
               /\ watch' = [watch EXCEPT ![b] = "send"]
               /\ held' = [held EXCEPT ![b] = k]
               /\ passed' = [passed EXCEPT ![k] = @ + 1]
               /\ newest' = [newest EXCEPT ![b] = k]
    /\ UNCHANGED <<clip, fresh, last, observed, procVars, events, applyVars,
                   done, bounds, local, emitted, settled>>

(* Mutant: a full channel drops the event.                                 *)
WatchSendDrops(b) ==
    /\ watch[b] = "send"
    /\ observed' = IF Len(observed) < ObservedCap THEN Append(observed, held[b]) ELSE observed
    /\ watch' = [watch EXCEPT ![b] = "wait"]
    /\ held' = [held EXCEPT ![b] = NoData]
    /\ UNCHANGED <<osVars, procVars, events, ledgerVars, applyVars,
                   done, bounds, local, passed, emitted, newest, settled>>

(* m.observed <- evt: blocks while the channel is full.                    *)
WatchSend(b) ==
    /\ watch[b] = "send" /\ Len(observed) < ObservedCap
    /\ observed' = Append(observed, held[b])
    /\ watch' = [watch EXCEPT ![b] = "wait"]
    /\ held' = [held EXCEPT ![b] = NoData]
    /\ UNCHANGED <<osVars, procVars, events, ledgerVars, applyVars,
                   done, bounds, local, passed, emitted, newest, settled>>

(* Mutant: the send does not select on ctx.Done().                         *)
WatchExitsIdle(b) ==
    /\ done /\ watch[b] = "wait"
    /\ watch' = [watch EXCEPT ![b] = "exited"]
    /\ UNCHANGED <<osVars, held, observed, procVars, events, ledgerVars, applyVars,
                   done, bounds, local, passed, emitted, newest, settled>>

WatchExit(b) ==
    /\ done /\ watch[b] # "exited"
    /\ watch' = [watch EXCEPT ![b] = "exited"]
    /\ UNCHANGED <<osVars, held, observed, procVars, events, ledgerVars, applyVars,
                   done, bounds, local, passed, emitted, newest, settled>>

-----------------------------------------------------------------------------
(* processObserved.                                                        *)

(* Mutant: the first value of the window is kept.                          *)
KeepFirst(d) ==
    IF batch[BucketOf(d)] = NoData THEN [batch EXCEPT ![BucketOf(d)] = d] ELSE batch

Coalesce(d) == [batch EXCEPT ![BucketOf(d)] = d]

(* The first event opens a window, later ones replace the value of their   *)
(* format.                                                                 *)
ProcTake ==
    /\ proc \in {"idle", "collect"} /\ observed # <<>>
    /\ proc' = "collect"
    /\ batch' = Coalesce(Head(observed))
    /\ observed' = Tail(observed)
    /\ UNCHANGED <<osVars, watchVars, events, ledgerVars, applyVars,
                   done, bounds, local, passed, emitted, newest, settled>>

(* timer.C ends the window.                                                *)
ProcWindow ==
    /\ proc = "collect"
    /\ proc' = "text"
    /\ UNCHANGED <<osVars, watchVars, observed, batch, events, ledgerVars, applyVars,
                   done, bounds, local, passed, emitted, newest, settled>>

(* One format of the batch: nothing to do, a payload NewPayload refuses,   *)
(* or emit, which blocks while m.events is full.                           *)
Emit(b, next) ==
    LET d == batch[b] IN
    /\ proc = b
    /\ proc' = next
    /\ batch' = [batch EXCEPT ![b] = NoData]
    /\ settled' = IF d = NoData THEN settled ELSE [settled EXCEPT ![b] = d]
    /\ \/ d \notin Sendable /\ UNCHANGED <<events, emitted>>
       \/ /\ d \in Sendable /\ Len(events) < EventsCap
          /\ events' = Append(events, d)
          /\ emitted' = [emitted EXCEPT ![d] = @ + 1]
    /\ UNCHANGED <<osVars, watchVars, observed, ledgerVars, applyVars,
                   done, bounds, local, passed, newest>>

ProcExit ==
    /\ done /\ proc # "exited"
    /\ proc' = "exited"
    /\ UNCHANGED <<osVars, watchVars, observed, batch, events, ledgerVars, applyVars,
                   done, bounds, local, passed, emitted, newest, settled>>

(* Runtime.runClipboardLoop receives a payload.                            *)
TakeEvent ==
    /\ events # <<>> /\ ~done
    /\ events' = Tail(events)
    /\ UNCHANGED <<osVars, watchVars, observed, procVars, ledgerVars, applyVars,
                   done, bounds, local, passed, emitted, newest, settled>>

Stop ==
    /\ ~done /\ done' = TRUE
    /\ UNCHANGED <<osVars, watchVars, observed, procVars, events, ledgerVars, applyVars,
                   bounds, local, passed, emitted, newest, settled>>

-----------------------------------------------------------------------------
ClipValues == {c \in [Buckets -> Contents \cup {NoData}] :
                  c["text"] \in TextData \cup {NoData} /\ c["image"] \in ImageData \cup {NoData}}

ApplyStep(a) ==
    \/ \E p \in Hashes : ApplyRemember(a, p)
    \/ ApplyWrite(a) \/ ApplyWriteFails(a) \/ ApplyForget(a)

Next ==
    \/ Tick \/ Stop
    \/ \E a \in Appliers : ApplyStep(a)
    \/ \E c \in ClipValues : LocalCopy(c)
    \/ \E b \in Buckets : \/ Poll(b) \/ PollUnchanged(b)
                          \/ WatchReceive(b) \/ WatchSend(b) \/ WatchExit(b)
    \/ ProcTake \/ ProcWindow \/ Emit("text", "image") \/ Emit("image", "idle")
    \/ ProcExit \/ TakeEvent

Spec == Init /\ [][Next]_vars

(* The goroutines run, the window's timer fires, the poller polls and the  *)
(* runtime keeps receiving; a select with ctx.Done() ready over and over   *)
(* takes it.  Nothing is assumed of users, peers or cancellation.          *)
FairSpec ==
    /\ Spec
    /\ \A b \in Buckets : /\ WF_vars(Poll(b) \/ PollUnchanged(b))
                          /\ WF_vars(WatchReceive(b) \/ WatchSend(b))
                          /\ SF_vars(WatchExit(b))
    /\ WF_vars(ProcTake) /\ WF_vars(ProcWindow)
    /\ WF_vars(Emit("text", "image")) /\ WF_vars(Emit("image", "idle"))
    /\ SF_vars(ProcExit) /\ WF_vars(TakeEvent)

-----------------------------------------------------------------------------
Counters == [Hashes -> Nat]
Slots    == [Buckets -> Contents \cup {NoData}]

(* Every variable has its type; the channels respect their capacities.     *)
TypeOK ==
    /\ clip \in Slots /\ fresh \subseteq Buckets /\ last \in Slots /\ watchCh \in Slots
    /\ watch \in [Buckets -> {"wait", "send", "exited"}] /\ held \in Slots
    /\ observed \in Seq(Contents) /\ Len(observed) <= ObservedCap
    /\ proc \in {"idle", "collect", "text", "image", "exited"} /\ batch \in Slots
    /\ events \in Seq(Contents) /\ Len(events) <= EventsCap
    /\ count \in Counters /\ left \in [Hashes -> 0 .. TTL] /\ expired \in Counters
    /\ job \in [Appliers -> Contents \cup {NoData}]
    /\ stage \in [Appliers -> {"write", "forget"}]
    /\ done \in BOOLEAN /\ copies \in Nat /\ applies \in Nat
    /\ local \in Counters /\ passed \in Counters /\ emitted \in Counters
    /\ newest \in Slots /\ settled \in Slots

(* Changes to k the watcher has still to see.                              *)
InFlight(k) ==
    LET b == BucketOf(k) IN
    (IF b \in fresh /\ clip[b] = k THEN 1 ELSE 0) + (IF watchCh[b] = k THEN 1 ELSE 0)

InApply(k) == {a \in Appliers : job[a] = k}

(* The books of the ledger balance: what was forwarded, is still to be     *)
(* seen and is about to be written is covered by local copies, by counts   *)
(* still in the ledger and by counts that expired.  Holds because remember *)
(* comes before Write, consume takes one count per report, and forget at   *)
(* most gives back the count of its own call.                              *)
LedgerBalance ==
    \A k \in Contents :
        passed[k] + InFlight(k) + Cardinality(InApply(k)) <= local[k] + count[k] + expired[k]

(* No echo: the watchers forward a content at most once for every time the *)
(* user copied it, plus the ledger counts that outlived the TTL.           *)
NoEcho == \A k \in Contents : passed[k] <= local[k] + expired[k]

(* The same for what leaves the manager: coalescing and the two channels   *)
(* never turn one forwarded content into two emitted payloads.             *)
NoEchoEmitted == \A k \in Contents : emitted[k] <= local[k] + expired[k]

LastOf(b) ==
    LET mine == {i \in 1 .. Len(observed) : BucketOf(observed[i]) = b} IN
    IF held[b] # NoData THEN held[b]
    ELSE IF mine # {} THEN observed[CHOOSE i \in mine : \A j \in mine : j <= i]
    ELSE IF batch[b] # NoData THEN batch[b]
    ELSE settled[b]

(* The newest content of a format that was not suppressed is never         *)
(* overtaken or dropped by the coalescing window: it is the youngest one   *)
(* in the pipeline, and once the pipeline is empty the last one emitted.   *)
NewestWins == \A b \in Buckets : LastOf(b) = newest[b]

(* What was forwarded last is eventually settled, unless something newer   *)
(* of the same format is forwarded or the daemon stops: the blocking       *)
(* chain watchLoop, observed, events never jams.                           *)
NewestSettles ==
    \A b \in Buckets : \A k \in Contents :
        newest[b] = k ~> settled[b] = k \/ newest[b] # k \/ done

(* After ctx is done every goroutine of the manager ends, also one that    *)
(* was blocked on a full channel.                                          *)
StopsWhenDone == done ~> proc = "exited" /\ \A b \in Buckets : watch[b] = "exited"
=============================================================================
