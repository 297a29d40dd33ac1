-------------------------- MODULE Lifecycle_proofs --------------------------
(***************************************************************************)
(* Theorems about Lifecycle, for any number of calls and subscribers and   *)
(* any capacities.  The invariant of the tasks (Alone) and that of the     *)
(* subscribers (Delivers) have no variable in common but published, and    *)
(* each is inductive without the other.                                    *)
(***************************************************************************)
EXTENDS Lifecycle, SequenceTheorems, TLAPS

\* After the return of shutdown() no receiver is held, so that nobody is left who
\* could make another.
Alone ==
    /\ loop = "running" => dht = "held"
    /\ sender = "returned" => ~Held

Subs == [receiver : {"none", "open", "closed"}, enlisted : BOOLEAN, chan : Seq(Nat),
         read : Nat, missed : BOOLEAN]

\* A channel holds numbers above the last one read, in increasing order.
InOrder(chan, read, last) ==
    /\ read <= last
    /\ \A i \in 1 .. Len(chan) : read < chan[i] /\ chan[i] <= last
    /\ \A i, j \in 1 .. Len(chan) : i < j => chan[i] < chan[j]

\* All that there are.
Gapless(chan, read, last) ==
    /\ Len(chan) = last - read
    /\ \A i \in 1 .. Len(chan) : chan[i] = read + i

Queued(sub, last) ==
    /\ sub.receiver = "open" => sub.enlisted
    /\ InOrder(sub.chan, sub.read, last)
    /\ sub.receiver = "open" /\ ~sub.missed => Gapless(sub.chan, sub.read, last)

Delivers ==
    /\ published \in Nat
    /\ subs \in [Subscriber -> Subs]
    /\ \A s \in Subscriber : Queued(subs[s], published)

----------------------------------------------------------------------------
(* Shutdown.                                                               *)

LEMMA AloneInitially == Init => Alone
    BY DEF Init, Alone

LEMMA AloneKept == Alone /\ [Next]_vars => Alone'
<1> SUFFICES ASSUME Alone, [Next]_vars PROVE Alone'
    OBVIOUS
<1> USE DEF Alone, Held
<1>1. CASE Build
    BY <1>1 DEF Build
<1>2. CASE Run \/ Cancel \/ DropDht \/ DropReceiver
    BY <1>2 DEF Run, Cancel, DropDht, DropReceiver
<1>3. CASE Shutdown \/ DropSender
    BY <1>3 DEF Shutdown, DropSender, tasks
<1>4. CASE ShutdownReturns
    BY <1>4 DEF ShutdownReturns, tasks
<1>5. CASE Receive \/ LoopPublishes \/ LoopDrops \/ Subscribers
    <2>1. UNCHANGED <<sender, user, dht, loop, running>>
        BY <1>5, Zenon DEF Receive, LoopPublishes, LoopDrops, Subscribers, Subscribe, Read,
                           HangUp, tasks
    <2> QED
        BY <2>1
<1>6. CASE LoopFails \/ LoopStops
    BY <1>6 DEF LoopFails, LoopStops
<1>7. ASSUME NEW c \in Call, LoopCalls(c) PROVE Alone'
    BY <1>7 DEF LoopCalls
<1>8. ASSUME NEW t \in Task, TaskStops(t) \/ TaskEnds(t) PROVE Alone'
    BY <1>8 DEF TaskStops, TaskEnds
<1>9. CASE UNCHANGED vars
    BY <1>9 DEF vars
<1> QED
    BY <1>1, <1>2, <1>3, <1>4, <1>5, <1>6, <1>7, <1>8, <1>9 DEF Next, User, Loop

LEMMA AloneMeansNothingLeft == Alone => NothingAfterReturn
    BY DEF Alone, Held, NothingAfterReturn, StateAlive

\* When shutdown() is back no task of the DHT runs, none can be started and the
\* state is gone (shutdown.rs:66-75), however many calls were under way.
THEOREM NothingLeft == Spec => []NothingAfterReturn
<1>1. Init /\ [][Next]_vars => []Alone
    BY AloneInitially, AloneKept, PTL
<1> QED
    BY <1>1, AloneMeansNothingLeft, PTL DEF Spec

----------------------------------------------------------------------------
(* Events.                                                                 *)

LEMMA EmptyInOrder ==
    ASSUME NEW last \in Nat, NEW read \in Nat, read <= last
    PROVE  InOrder(<<>>, read, last) /\ Gapless(<<>>, last, last)
    BY DEF InOrder, Gapless

LEMMA AppendInOrder ==
    ASSUME NEW chan \in Seq(Nat), NEW read \in Nat, NEW last \in Nat, InOrder(chan, read, last)
    PROVE  /\ Append(chan, last + 1) \in Seq(Nat)
           /\ InOrder(Append(chan, last + 1), read, last + 1)
           /\ Gapless(chan, read, last) => Gapless(Append(chan, last + 1), read, last + 1)
<1> DEFINE longer == Append(chan, last + 1)
           n == Len(chan)
<1>1. /\ longer \in Seq(Nat) /\ Len(longer) = n + 1 /\ n \in Nat
      /\ \A i \in 1 .. n : longer[i] = chan[i] /\ chan[i] \in Nat
      /\ longer[n + 1] = last + 1
    BY AppendProperties
<1> HIDE DEF longer, n
<1>2. \A i \in 1 .. n + 1 : i \in 1 .. n \/ i = n + 1
    BY <1>1
<1>3. /\ read <= last
      /\ \A i \in 1 .. n : read < chan[i] /\ chan[i] <= last
      /\ \A i, j \in 1 .. n : i < j => chan[i] < chan[j]
    BY DEF InOrder, n
<1>4. \A i \in 1 .. n + 1 : read < longer[i] /\ longer[i] <= last + 1
    <2> TAKE i \in 1 .. n + 1
    <2>1. CASE i \in 1 .. n
        BY SMTT(30), <1>1, <1>3, <2>1
    <2>2. CASE i = n + 1
        BY <1>1, <1>3, <2>2
    <2> QED
        BY <1>2, <2>1, <2>2
<1>5. \A i, j \in 1 .. n + 1 : i < j => longer[i] < longer[j]
    <2> SUFFICES ASSUME NEW i \in 1 .. n + 1, NEW j \in 1 .. n + 1, i < j
                 PROVE  longer[i] < longer[j]
        OBVIOUS
    <2>1. i \in 1 .. n
        BY <1>1
    <2>2. CASE j \in 1 .. n
        BY <1>1, <1>3, <2>1, <2>2
    <2>3. CASE j = n + 1
        BY <1>1, <1>3, <2>1, <2>3
    <2> QED
        BY <1>2, <2>2, <2>3
<1>6. InOrder(longer, read, last + 1)
    BY <1>1, <1>3, <1>4, <1>5 DEF InOrder
<1>7. ASSUME Gapless(chan, read, last) PROVE Gapless(longer, read, last + 1)
    <2>1. n = last - read /\ \A i \in 1 .. n : chan[i] = read + i
        BY <1>7 DEF Gapless, n
    <2>2. \A i \in 1 .. n + 1 : longer[i] = read + i
        <3> TAKE i \in 1 .. n + 1
        <3>1. CASE i \in 1 .. n
            BY <1>1, <2>1, <3>1
        <3>2. CASE i = n + 1
            BY <1>1, <2>1, <3>2
        <3> QED
            BY <1>2, <3>1, <3>2
    <2> QED
        BY <1>1, <2>1, <2>2 DEF Gapless
<1> QED
    BY <1>1, <1>6, <1>7 DEF longer

LEMMA TailInOrder ==
    ASSUME NEW chan \in Seq(Nat), NEW read \in Nat, NEW last \in Nat, InOrder(chan, read, last),
           chan # <<>>
    PROVE  /\ Tail(chan) \in Seq(Nat) /\ Head(chan) \in Nat
           /\ InOrder(Tail(chan), Head(chan), last)
           /\ Gapless(chan, read, last) => Gapless(Tail(chan), Head(chan), last)
<1> DEFINE rest == Tail(chan)
           first == Head(chan)
           n == Len(chan)
<1>1. /\ rest \in Seq(Nat) /\ Len(rest) = n - 1 /\ n \in Nat \ {0} /\ first = chan[1]
      /\ \A i \in 1 .. n - 1 : rest[i] = chan[i + 1]
    BY HeadTailProperties, EmptySeq
<1>2. \A i \in 1 .. n : chan[i] \in Nat
    OBVIOUS
<1> HIDE DEF rest, first, n
<1>3. 1 \in 1 .. n /\ \A i \in 1 .. n - 1 : i + 1 \in 1 .. n /\ 1 < i + 1
    BY <1>1
<1>4. /\ \A i \in 1 .. n : read < chan[i] /\ chan[i] <= last
      /\ \A i, j \in 1 .. n : i < j => chan[i] < chan[j]
    BY DEF InOrder, n
<1>5. first \in Nat /\ first <= last
    BY <1>1, <1>2, <1>3, <1>4
<1>6. \A i \in 1 .. n - 1 : first < rest[i] /\ rest[i] <= last
    BY <1>1, <1>3, <1>4
<1>7. \A i, j \in 1 .. n - 1 : i < j => rest[i] < rest[j]
    <2> SUFFICES ASSUME NEW i \in 1 .. n - 1, NEW j \in 1 .. n - 1, i < j
                 PROVE  rest[i] < rest[j]
        OBVIOUS
    <2>1. i + 1 \in 1 .. n /\ j + 1 \in 1 .. n /\ i + 1 < j + 1
        BY <1>1
    <2>2. chan[i + 1] < chan[j + 1]
        BY <1>4, <2>1
    <2> QED
        BY <1>1, <2>2
<1>8. InOrder(rest, first, last)
    BY <1>1, <1>5, <1>6, <1>7 DEF InOrder
<1>9. ASSUME Gapless(chan, read, last) PROVE Gapless(rest, first, last)
    <2>1. n = last - read /\ \A i \in 1 .. n : chan[i] = read + i
        BY <1>9 DEF Gapless, n
    <2>2. first = read + 1
        BY <1>1, <1>3, <2>1
    <2>3. \A i \in 1 .. n - 1 : rest[i] = first + i
        BY <1>1, <1>3, <2>1, <2>2
    <2> QED
        BY <1>1, <2>1, <2>2, <2>3 DEF Gapless
<1> QED
    BY <1>1, <1>5, <1>8, <1>9 DEF rest, first

LEMMA DeliversInitially == Init => Delivers
<1>1. /\ Absent \in Subs /\ Absent.receiver = "none"
      /\ Absent.chan = <<>> /\ Absent.read = 0
    BY DEF Absent, Subs
<1>2. Queued(Absent, 0)
    BY <1>1, EmptyInOrder DEF Queued
<1> QED
    BY <1>1, <1>2 DEF Init, Delivers

\* An event that is offered joins the channel, is missed, or finds nobody.
LEMMA OfferKeepsQueued ==
    ASSUME NEW sub \in Subs, published \in Nat, sub.enlisted, Queued(sub, published)
    PROVE  Offered(sub) \in Subs /\ Queued(Offered(sub), published + 1)
<1> DEFINE new == Offered(sub)
<1>1. sub.chan \in Seq(Nat) /\ sub.read \in Nat /\ InOrder(sub.chan, sub.read, published)
    BY DEF Subs, Queued
<1>2. InOrder(sub.chan, sub.read, published + 1)
    BY <1>1 DEF InOrder
<1>3. CASE sub.receiver # "open"
    <2>1. new \in Subs /\ new.receiver # "open" /\ new.chan = sub.chan /\ new.read = sub.read
        BY <1>3 DEF Offered, Subs
    <2> HIDE DEF new
    <2>2. Queued(new, published + 1)
        BY <1>2, <2>1 DEF Queued
    <2> QED
        BY <2>1, <2>2 DEF new
<1>4. CASE sub.receiver = "open" /\ Len(sub.chan) = EventCap
    <2>1. /\ new \in Subs /\ new.enlisted /\ new.missed
          /\ new.chan = sub.chan /\ new.read = sub.read
        BY <1>4 DEF Offered, Subs
    <2> HIDE DEF new
    <2>2. Queued(new, published + 1)
        BY <1>2, <2>1 DEF Queued
    <2> QED
        BY <2>1, <2>2 DEF new
<1>5. CASE sub.receiver = "open" /\ Len(sub.chan) # EventCap
    <2> DEFINE chan == Append(sub.chan, published + 1)
    <2>1. /\ chan \in Seq(Nat) /\ InOrder(chan, sub.read, published + 1)
          /\ Gapless(sub.chan, sub.read, published) => Gapless(chan, sub.read, published + 1)
        BY <1>1, AppendInOrder
    <2>2. new = [sub EXCEPT !.chan = chan]
        BY <1>5 DEF Offered
    <2> HIDE DEF chan
    <2>3. /\ new \in Subs /\ new.enlisted /\ new.missed = sub.missed
          /\ new.chan = chan /\ new.read = sub.read
        BY <2>1, <2>2 DEF Subs
    <2> HIDE DEF new
    <2>4. Queued(new, published + 1)
        BY <1>5, <2>1, <2>3 DEF Queued
    <2> QED
        BY <2>3, <2>4 DEF new
<1> QED
    BY <1>3, <1>4, <1>5

\* Nobody is offered anything who is no longer enlisted, and nothing is missed by
\* that.
LEMMA UnlistedKeepsQueued ==
    ASSUME NEW sub \in Subs, published \in Nat, ~sub.enlisted, Queued(sub, published)
    PROVE  Queued(sub, published + 1)
<1>1. sub.chan \in Seq(Nat) /\ sub.read \in Nat /\ InOrder(sub.chan, sub.read, published)
    BY DEF Subs, Queued
<1>2. InOrder(sub.chan, sub.read, published + 1)
    BY <1>1 DEF InOrder
<1> QED
    BY <1>2 DEF Queued

\* The subscriber takes the first event out.
LEMMA ReadKeepsQueued ==
    ASSUME NEW sub \in Subs, published \in Nat, sub.chan # <<>>, Queued(sub, published)
    PROVE  LET rest == [sub EXCEPT !.chan = Tail(@), !.read = Head(sub.chan)]
           IN  rest \in Subs /\ Queued(rest, published)
<1> DEFINE rest == [sub EXCEPT !.chan = Tail(@), !.read = Head(sub.chan)]
<1>1. sub.chan \in Seq(Nat) /\ sub.read \in Nat /\ InOrder(sub.chan, sub.read, published)
    BY DEF Subs, Queued
<1>2. /\ Tail(sub.chan) \in Seq(Nat) /\ Head(sub.chan) \in Nat
      /\ InOrder(Tail(sub.chan), Head(sub.chan), published)
      /\ Gapless(sub.chan, sub.read, published) =>
             Gapless(Tail(sub.chan), Head(sub.chan), published)
    BY <1>1, TailInOrder
<1>3. /\ rest \in Subs /\ rest.chan = Tail(sub.chan) /\ rest.read = Head(sub.chan)
      /\ rest.receiver = sub.receiver /\ rest.enlisted = sub.enlisted
      /\ rest.missed = sub.missed
    BY <1>2 DEF Subs
<1> HIDE DEF rest
<1>4. Queued(rest, published)
    BY <1>2, <1>3 DEF Queued
<1> QED
    BY <1>3, <1>4 DEF rest

LEMMA DeliversKept == Delivers /\ [Next]_vars => Delivers'
<1> SUFFICES ASSUME Delivers, [Next]_vars PROVE Delivers'
    OBVIOUS
<1>1. CASE LoopPublishes
    <2> SUFFICES ASSUME NEW s \in Subscriber
                 PROVE  subs'[s] \in Subs /\ Queued(subs'[s], published')
        BY <1>1 DEF Delivers, LoopPublishes
    <2>1. published' = published + 1
        BY <1>1 DEF LoopPublishes
    <2>2. CASE subs[s].enlisted
        BY <1>1, <2>1, <2>2, OfferKeepsQueued DEF Delivers, LoopPublishes
    <2>3. CASE ~subs[s].enlisted
        BY <1>1, <2>1, <2>3, UnlistedKeepsQueued DEF Delivers, LoopPublishes
    <2> QED
        BY <2>2, <2>3
<1>2. ASSUME NEW s \in Subscriber, Subscribe(s) PROVE Delivers'
    <2> DEFINE new == [Absent EXCEPT !.receiver = "open", !.enlisted = TRUE, !.read = published]
    <2>1. /\ new \in Subs /\ new.receiver = "open" /\ new.enlisted
          /\ new.chan = <<>> /\ new.read = published
        <3>1. Absent \in Subs /\ Absent.chan = <<>> /\ published \in Nat
            BY DEF Absent, Subs, Delivers
        <3> QED
            BY <3>1 DEF Subs
    <2> HIDE DEF new
    <2>2. new \in Subs /\ Queued(new, published)
        BY <2>1, EmptyInOrder DEF Queued, Delivers
    <2>3. subs' = [subs EXCEPT ![s] = new]
        BY <1>2 DEF Subscribe, new
    <2> QED
        BY <1>2, <2>2, <2>3 DEF Subscribe, Delivers
<1>3. ASSUME NEW s \in Subscriber, Read(s) PROVE Delivers'
    <2> DEFINE rest == [subs[s] EXCEPT !.chan = Tail(@), !.read = Head(subs[s].chan)]
    <2>1. rest \in Subs /\ Queued(rest, published)
        BY <1>3, ReadKeepsQueued DEF Read, Delivers
    <2>2. subs' = [subs EXCEPT ![s] = rest]
        BY <1>3 DEF Read, Delivers
    <2> HIDE DEF rest
    <2> QED
        BY <1>3, <2>1, <2>2 DEF Read, Delivers
<1>4. ASSUME NEW s \in Subscriber, HangUp(s) PROVE Delivers'
    <2> DEFINE gone == [subs[s] EXCEPT !.receiver = "closed", !.chan = <<>>]
    <2>1. /\ subs[s] \in Subs /\ Queued(subs[s], published) /\ published \in Nat
        BY DEF Delivers
    <2>3. /\ gone \in Subs /\ gone.receiver = "closed" /\ gone.chan = <<>>
          /\ gone.read = subs[s].read /\ subs[s].read \in Nat /\ subs[s].read <= published
        <3>1. <<>> \in Seq(Nat)
            OBVIOUS
        <3>2. subs[s].read \in Nat /\ subs[s].read <= published
            BY <2>1 DEF Subs, Queued, InOrder
        <3> QED
            BY <2>1, <3>1, <3>2 DEF Subs
    <2>4. InOrder(<<>>, subs[s].read, published)
        BY <2>1, <2>3, EmptyInOrder
    <2>5. gone \in Subs /\ Queued(gone, published)
        BY <2>3, <2>4 DEF Queued
    <2>2. subs' = [subs EXCEPT ![s] = gone]
        BY <1>4 DEF HangUp, Delivers
    <2> HIDE DEF gone
    <2> QED
        BY <1>4, <2>2, <2>5 DEF HangUp, Delivers
<1>5. CASE UNCHANGED events
    BY <1>5 DEF Delivers, events
<1>6. User \/ ShutdownReturns \/ Receive => UNCHANGED events
    BY DEF User, Build, Run, Cancel, DropDht, DropReceiver, Shutdown, DropSender,
           ShutdownReturns, Receive
<1>7. Loop => LoopPublishes \/ UNCHANGED events
    BY DEF Loop, LoopCalls, LoopDrops, LoopFails, LoopStops
<1>8. (\E t \in Task : TaskStops(t) \/ TaskEnds(t)) => UNCHANGED events
    BY DEF TaskStops, TaskEnds
<1>9. UNCHANGED vars => UNCHANGED events
    BY DEF vars, events
<1> QED
    BY <1>1, <1>2, <1>3, <1>4, <1>5, <1>6, <1>7, <1>8, <1>9 DEF Next, Subscribers

LEMMA QueuedMeansReached == Delivers => EventsReach
<1> SUFFICES ASSUME Delivers, NEW s \in Subscriber
             PROVE  LET sub == subs[s]
                    IN  /\ sub.receiver = "open" => sub.enlisted
                        /\ sub.receiver = "open" /\ ~sub.missed =>
                               sub.chan = [i \in 1 .. published - sub.read |-> sub.read + i]
                        /\ \A i \in DOMAIN sub.chan : sub.read < sub.chan[i]
                        /\ \A i, j \in DOMAIN sub.chan : i < j => sub.chan[i] < sub.chan[j]
    BY DEF EventsReach
<1> DEFINE sub == subs[s]
<1>1. sub \in Subs /\ Queued(sub, published) /\ DOMAIN sub.chan = 1 .. Len(sub.chan)
    BY DEF Delivers, Subs
<1>2. sub.receiver = "open" /\ ~sub.missed =>
          sub.chan = [i \in 1 .. published - sub.read |-> sub.read + i]
    <2> SUFFICES ASSUME sub.receiver = "open", ~sub.missed
                 PROVE  sub.chan = [i \in 1 .. published - sub.read |-> sub.read + i]
        OBVIOUS
    <2>1. Gapless(sub.chan, sub.read, published)
        BY <1>1 DEF Queued
    <2>2. sub.chan = [i \in 1 .. Len(sub.chan) |-> sub.chan[i]]
        BY <1>1 DEF Subs
    <2> QED
        BY <2>1, <2>2 DEF Gapless
<1> QED
    BY <1>1, <1>2 DEF Queued, InOrder

\* For any capacity and any number of subscribers, slow and gone ones among them:
\* who never fell behind gets every event in order, and a late one goes on getting
\* events (dht.rs:557-580).
THEOREM EventsAlwaysReach == Spec => []EventsReach
<1>1. Init /\ [][Next]_vars => []Delivers
    BY DeliversInitially, DeliversKept, PTL
<1> QED
    BY <1>1, QueuedMeansReached, PTL DEF Spec

----------------------------------------------------------------------------
(* Types.                                                                  *)

LEMMA OfferedFits ==
    ASSUME NEW sub \in Subs, Len(sub.chan) <= EventCap
    PROVE  Len(Offered(sub).chan) <= EventCap
<1>1. sub.chan \in Seq(Nat) /\ Len(sub.chan) \in Nat /\ EventCap \in Nat
    BY LifecycleAssumption DEF Subs
<1>2. CASE sub.receiver = "open" /\ Len(sub.chan) # EventCap
    <2>1. Offered(sub).chan = Append(sub.chan, published + 1)
        BY <1>2 DEF Offered, Subs
    <2>2. Len(Append(sub.chan, published + 1)) = Len(sub.chan) + 1
        BY <1>1, AppendProperties
    <2> QED
        BY <1>1, <1>2, <2>1, <2>2
<1>3. CASE ~(sub.receiver = "open" /\ Len(sub.chan) # EventCap)
    <2>1. Offered(sub).chan = sub.chan
        BY <1>3 DEF Offered, Subs
    <2> QED
        BY <2>1
<1> QED
    BY <1>2, <1>3

LEMMA ShorterFits ==
    ASSUME Delivers, \A s \in Subscriber : Len(subs[s].chan) <= EventCap,
           NEW s \in Subscriber, Subscribe(s) \/ Read(s) \/ HangUp(s)
    PROVE  \A r \in Subscriber : Len(subs'[r].chan) <= EventCap
<1>1. /\ subs[s] \in Subs /\ subs \in [Subscriber -> Subs]
      /\ subs[s].chan \in Seq(Nat) /\ Len(subs[s].chan) \in Nat /\ EventCap \in Nat
    BY LifecycleAssumption DEF Delivers, Subs
<1>2. subs'[s].chan \in {<<>>, Tail(subs[s].chan)} /\ (Read(s) \/ subs'[s].chan = <<>>)
    <2>1. CASE Subscribe(s)
        <3>1. subs' = [subs EXCEPT ![s] = [Absent EXCEPT !.receiver = "open", !.enlisted = TRUE,
                                                        !.read = published]]
            BY <2>1 DEF Subscribe
        <3> QED
            BY <1>1, <3>1 DEF Absent
    <2>2. CASE Read(s)
        <3>1. subs'[s].chan = Tail(subs[s].chan)
            BY <1>1, <2>2 DEF Read, Subs
        <3> QED
            BY <2>2, <3>1
    <2>3. CASE HangUp(s)
        BY <1>1, <2>3 DEF HangUp, Subs
    <2> QED
        BY <2>1, <2>2, <2>3
<1>3. Read(s) => Len(Tail(subs[s].chan)) = Len(subs[s].chan) - 1
    BY <1>1, HeadTailProperties DEF Read
<1>4. Len(subs'[s].chan) <= EventCap
    BY <1>1, <1>2, <1>3
<1>5. \A r \in Subscriber \ {s} : subs'[r] = subs[r]
    BY <1>1 DEF Subscribe, Read, HangUp
<1> QED
    BY <1>4, <1>5

LEMMA TypesKept == TypeOK /\ Alone /\ Delivers /\ Delivers' /\ [Next]_vars => TypeOK'
<1> SUFFICES ASSUME TypeOK, Alone, Delivers, Delivers', [Next]_vars PROVE TypeOK'
    OBVIOUS
<1> DEFINE Tasks == /\ user \in BOOLEAN /\ dht \in {"unbuilt", "held", "dropped"}
                    /\ loop \in {"idle", "running", "ok", "err"} /\ running \subseteq Task
                    /\ loop = "running" => dht = "held"
                    /\ dht = "unbuilt" => running = {}
           Sender == sender \in {"silent", "signalled", "returned", "dropped"}
           Counts == packets \in 0 .. RecvCap /\ published \in 0 .. MaxEvents
           Room == \A s \in Subscriber : Len(subs[s].chan) <= EventCap
           ReadOnly == \A s \in Subscriber : subs[s].read <= published
<1>1. TypeOK <=> Tasks /\ Sender /\ Counts /\ Room /\ ReadOnly
    BY DEF TypeOK
<1>2. ReadOnly'
    BY DEF Delivers, Queued, InOrder
<1>3. Tasks'
    <2>1. CASE UNCHANGED tasks
        BY <1>1, <2>1 DEF tasks
    <2>2. CASE Build
        BY <1>1, <2>2 DEF Build, Task
    <2>3. CASE Run \/ Cancel \/ DropDht \/ DropReceiver
        BY <1>1, <2>3 DEF Run, Cancel, DropDht, DropReceiver
    <2>4. CASE LoopFails \/ LoopStops
        BY <1>1, <2>4 DEF LoopFails, LoopStops
    <2>5. ASSUME NEW c \in Call, LoopCalls(c) PROVE Tasks'
        BY <1>1, <2>5 DEF LoopCalls, Task
    <2>6. ASSUME NEW t \in Task, TaskStops(t) \/ TaskEnds(t) PROVE Tasks'
        BY <1>1, <2>6 DEF TaskStops, TaskEnds
    <2>7. Shutdown \/ DropSender \/ ShutdownReturns \/ Receive => UNCHANGED tasks
        BY DEF Shutdown, DropSender, ShutdownReturns, Receive
    <2>8. LoopPublishes \/ LoopDrops \/ Subscribers \/ UNCHANGED vars => UNCHANGED tasks
        BY Zenon DEF LoopPublishes, LoopDrops, Subscribers, Subscribe, Read, HangUp, vars, tasks
    <2> HIDE DEF Tasks
    <2> QED
        BY <2>1, <2>2, <2>3, <2>4, <2>5, <2>6, <2>7, <2>8 DEF Next, User, Loop
<1>4. Sender'
    <2>1. CASE Shutdown \/ DropSender \/ ShutdownReturns
        BY <2>1 DEF Shutdown, DropSender, ShutdownReturns
    <2>2. User => Shutdown \/ DropSender \/ UNCHANGED sender
        BY DEF User, Build, Run, Cancel, DropDht, DropReceiver
    <2>3. Receive \/ Loop \/ Subscribers => UNCHANGED sender
        BY DEF Receive, Loop, LoopCalls, LoopPublishes, LoopDrops, LoopFails, LoopStops,
               Subscribers, Subscribe, Read, HangUp
    <2>4. (\E t \in Task : TaskStops(t) \/ TaskEnds(t)) \/ UNCHANGED vars => UNCHANGED sender
        BY DEF TaskStops, TaskEnds, vars
    <2> QED
        BY <1>1, <2>1, <2>2, <2>3, <2>4 DEF Next
<1>5. Counts'
    <2> USE LifecycleAssumption
    <2>1. CASE Receive
        BY <1>1, <2>1 DEF Receive, events
    <2>2. CASE LoopPublishes
        BY <1>1, <2>2 DEF LoopPublishes
    <2>3. CASE LoopDrops \/ LoopFails
        BY <1>1, <2>3 DEF LoopDrops, LoopFails, events
    <2>4. CASE UNCHANGED <<packets, published>>
        BY <1>1, <2>4
    <2>5. User \/ ShutdownReturns => UNCHANGED <<packets, published>>
        BY DEF User, Build, Run, Cancel, DropDht, DropReceiver, Shutdown, DropSender,
               ShutdownReturns, events
    <2>6. Loop => LoopPublishes \/ LoopDrops \/ LoopFails \/ UNCHANGED <<packets, published>>
        BY DEF Loop, LoopCalls, LoopStops, events
    <2>7. Subscribers \/ UNCHANGED vars => UNCHANGED <<packets, published>>
        BY DEF Subscribers, Subscribe, Read, HangUp, vars
    <2>8. (\E t \in Task : TaskStops(t) \/ TaskEnds(t)) => UNCHANGED <<packets, published>>
        BY DEF TaskStops, TaskEnds, events
    <2> QED
        BY <2>1, <2>2, <2>3, <2>4, <2>5, <2>6, <2>7, <2>8 DEF Next
<1>6. Room'
    <2>1. CASE UNCHANGED subs
        BY <1>1, <2>1
    <2>2. CASE LoopPublishes
        BY <1>1, <2>2, OfferedFits DEF LoopPublishes, Delivers
    <2>3. ASSUME NEW s \in Subscriber, Subscribe(s) \/ Read(s) \/ HangUp(s) PROVE Room'
        BY <1>1, <2>3, ShorterFits
    <2>4. User \/ ShutdownReturns \/ Receive => UNCHANGED subs
        BY DEF User, Build, Run, Cancel, DropDht, DropReceiver, Shutdown, DropSender,
               ShutdownReturns, Receive, events
    <2>5. Loop => LoopPublishes \/ UNCHANGED subs
        BY DEF Loop, LoopCalls, LoopDrops, LoopFails, LoopStops, events
    <2>6. (\E t \in Task : TaskStops(t) \/ TaskEnds(t)) \/ UNCHANGED vars => UNCHANGED subs
        BY DEF TaskStops, TaskEnds, events, vars
    <2> HIDE DEF Room
    <2> QED
        BY <2>1, <2>2, <2>3, <2>4, <2>5, <2>6 DEF Next, Subscribers
<1> QED
    BY <1>1, <1>2, <1>3, <1>4, <1>5, <1>6 DEF TypeOK

\* No subscriber's channel outgrows its capacity, nor the queue of packets its own;
\* the event loop never outlives the DHT, and nothing runs before it is built.
THEOREM LifecycleTypeCorrect == Spec => []TypeOK
<1>1. Init => TypeOK
    BY LifecycleAssumption DEF Init, TypeOK, Absent
<1>2. Init /\ [][Next]_vars => [](TypeOK /\ Alone /\ Delivers)
    BY <1>1, TypesKept, AloneInitially, AloneKept, DeliversInitially, DeliversKept, PTL
<1> QED
    BY <1>2, PTL DEF Spec
============================================================================
