------------------------- MODULE EventDeliveryProofs -------------------------
(***************************************************************************)
(* What the delivery of events promises, for any number of reads, records  *)
(* and event streams and for any limits: a read of Kafka records is        *)
(* continued only if it lost none (PresentationInv); the costs of every    *)
(* queue add up, nothing waits for good, and no event under way loses its  *)
(* lease (DeliveryInv).                                                    *)
(*                                                                         *)
(* An action computes a world, and publishing may stop the reads in the    *)
(* middle of it. So the lemmas are about worlds: what publishing does to   *)
(* the reads and to the facade is one relation, Told, and what an action   *)
(* does to one read beside it is another, Moves. Good is what a world      *)
(* keeps at every step of an action, where what is under way to the host   *)
(* and the stop that is being answered are those of a host k.              *)
(***************************************************************************)
EXTENDS EventDeliveryProperties, WellFoundedInduction, SequenceTheorems, TLAPS

---------------------------------------------------------------------------
(* The invariant.                                                          *)

\* A read that began, one whose start has its intent, and one that has had
\* the presentation.
Past == {"clearing", "starting", "running", "over"}
Started == {"preferring"} \cup Past
Phases == {"none", "admitted", "resuming"} \cup Started

Stop == [intent : Nat, read : 0 .. MaxReads, by : {"none", "stop", "failure"}]

IsRead(read) ==
    read = [phase |-> read.phase, continues |-> read.continues, admission |-> read.admission,
            intent |-> read.intent, state |-> read.state, loading |-> read.loading,
            received |-> read.received, dropped |-> read.dropped, queue |-> read.queue,
            published |-> read.published, flush |-> read.flush, sample |-> read.sample,
            terminal |-> read.terminal]

IsFacade(f) ==
    f = [active |-> f.active, stopping |-> f.stopping, stops |-> f.stops, intent |-> f.intent,
         admission |-> f.admission, paused |-> f.paused, continuation |-> f.continuation,
         sequence |-> f.sequence]

HasFields(w) ==
    w = [reads |-> w.reads, facade |-> w.facade, streams |-> w.streams, clients |-> w.clients,
         route |-> w.route, toRenderer |-> w.toRenderer, toHost |-> w.toHost,
         listening |-> w.listening, shown |-> w.shown, stopCommand |-> w.stopCommand,
         bounds |-> w.bounds]

IsWorld(w) ==
    /\ HasFields(w)
    /\ w.reads = [r \in Reads |-> w.reads[r]]
    /\ \A r \in Reads : IsRead(w.reads[r])
    /\ IsFacade(w.facade)

ReadsTyped(w) == \A r \in Reads : w.reads[r].phase \in Phases /\ w.reads[r].intent \in Nat
FacadeTyped(f) ==
    /\ f.active \in 0 .. MaxReads /\ f.continuation \in 0 .. MaxReads
    /\ f.stopping \in Stop /\ f.stops \subseteq Stop /\ f.intent \in Nat

\* What a stop stops has had the presentation, and has it no more.
StopFits(w, stop) ==
    /\ stop.intent <= w.facade.intent
    /\ stop.read # 0 => w.reads[stop.read].phase \in Past /\ stop.read # w.facade.active
StopsFit(w) == \A stop \in w.facade.stops \cup {w.facade.stopping} : StopFits(w, stop)

\* While a read has the presentation, nothing stops it, and no other read that
\* had it has the newest intent.
ActiveFits(w) ==
    LET a == w.facade.active IN
    a # 0 =>
        /\ w.facade.stopping = NoStop /\ w.facade.continuation = 0 /\ w.facade.intent # 0
        /\ w.reads[a].phase \in Past
        /\ \A r \in Reads : r # a /\ w.reads[r].phase \in Past => w.reads[r].intent # w.facade.intent

\* A read that can be continued lost nothing, and has nothing left to lose.
ContinuationFits(w) ==
    LET c == w.facade.continuation IN
    c # 0 => w.reads[c].dropped = 0 /\ w.reads[c].queue = <<>> /\ w.reads[c].phase \in Past

\* Every read that begins has an intent of its own.
IntentsDiffer(w) ==
    /\ \A r \in Reads : w.reads[r].intent <= w.facade.intent
    /\ \A r \in Reads :
          /\ w.reads[r].phase \in {"none", "admitted"} => w.reads[r].intent = 0
          /\ w.reads[r].phase = "preferring" => w.reads[r].intent # 0
    /\ \A q, r \in Reads :
          /\ q # r /\ w.reads[q].phase \in Started /\ w.reads[r].phase \in Started
          /\ w.reads[q].intent = w.reads[r].intent
          => w.reads[r].intent = 0

PresentationInv(w) ==
    /\ IsWorld(w) /\ ReadsTyped(w) /\ FacadeTyped(w.facade)
    /\ StopsFit(w) /\ ActiveFits(w) /\ ContinuationFits(w) /\ IntentsDiffer(w)

---------------------------------------------------------------------------
(* What publishing does to the reads and to the facade.                    *)

\* Nothing
Quiet(w, v) == IsWorld(v) /\ v.reads = w.reads /\ v.facade = w.facade

SameRead(a, b) ==
    b.phase = a.phase /\ b.intent = a.intent /\ b.dropped = a.dropped /\ b.queue = a.queue
SameReads(w, v) == \A r \in Reads : SameRead(w.reads[r], v.reads[r])

SameOwner(f, g) ==
    g.active = f.active /\ g.stopping = f.stopping /\ g.stops = f.stops /\ g.intent = f.intent

\* A stop that owns the intent
Owned(f) == f.stopping # NoStop /\ f.stopping.intent = f.intent
StopJoined(f, g) ==
    /\ Owned(f)
    /\ g.active = f.active /\ g.stopping = f.stopping /\ g.intent = f.intent
    /\ g.stops = f.stops \cup {f.stopping}
StopBegun(f, g) ==
    /\ ~Owned(f)
    /\ g.active = 0 /\ g.intent = f.intent + 1
    /\ g.stopping = [intent |-> f.intent + 1, read |-> f.active, by |-> "stop"]
    /\ g.stops = f.stops \cup {g.stopping}

FacadeTold(f, g) ==
    /\ g.continuation = f.continuation
    /\ SameOwner(f, g) \/ StopJoined(f, g) \/ StopBegun(f, g)

Told(w, v) == IsWorld(v) /\ SameReads(w, v) /\ FacadeTold(w.facade, v.facade)

\* What the lemmas below need of a world.
Usable(w) == IsWorld(w) /\ FacadeTyped(w.facade)

LEMMA ReadsAreNumbers == Reads \subseteq Nat /\ MaxReads \in Nat /\ 0 \notin Reads
  BY PresentationAssumption DEF Reads

LEMMA ToldTyped ==
    ASSUME NEW f, NEW g, FacadeTyped(f), FacadeTold(f, g)
    PROVE  FacadeTyped(g)
<1>1. CASE SameOwner(f, g) \/ StopJoined(f, g)
  BY <1>1 DEF FacadeTold, FacadeTyped, SameOwner, StopJoined
<1>2. CASE StopBegun(f, g)
  <2>1. g.stopping \in Stop
    BY <1>2 DEF StopBegun, FacadeTyped, Stop
  <2>. QED
    BY <1>2, <2>1, ReadsAreNumbers DEF FacadeTold, FacadeTyped, StopBegun
<1>. QED
  BY <1>1, <1>2 DEF FacadeTold

LEMMA ToldTwice ==
    ASSUME NEW f, NEW g, NEW h, FacadeTyped(f), FacadeTold(f, g), FacadeTold(g, h)
    PROVE  FacadeTold(f, h)
<1>1. f.intent \in Nat
  BY DEF FacadeTyped
<1>2. CASE SameOwner(f, g)
  BY <1>2 DEF FacadeTold, SameOwner, StopJoined, StopBegun, Owned
<1>3. CASE StopJoined(f, g)
  BY <1>3 DEF FacadeTold, SameOwner, StopJoined, StopBegun, Owned
<1>4. CASE StopBegun(f, g)
  <2>1. Owned(g)
    BY <1>1, <1>4 DEF StopBegun, Owned, NoStop
  <2>. QED
    BY <1>4, <2>1 DEF FacadeTold, SameOwner, StopJoined, StopBegun
<1>. QED
  BY <1>2, <1>3, <1>4 DEF FacadeTold

LEMMA ToldOn ==
    ASSUME NEW u, NEW v, NEW w, Usable(u), Told(u, v), Told(v, w)
    PROVE  Told(u, w)
  BY ToldTwice DEF Told, SameReads, SameRead, Usable

LEMMA ToldUsable ==
    ASSUME NEW w, NEW v, Usable(w), Told(w, v)
    PROVE  Usable(v)
  BY ToldTyped DEF Told, Usable

LEMMA QuietTold ==
    ASSUME NEW w, NEW v, Quiet(w, v)
    PROVE  Told(w, v)
  BY DEF Quiet, Told, SameReads, SameRead, FacadeTold, SameOwner

LEMMA SameTold ==
    ASSUME NEW w, Usable(w)
    PROVE  Told(w, w)
  BY DEF Usable, Told, SameReads, SameRead, FacadeTold, SameOwner

\* A world with another field than the reads and the facade.
LEMMA FieldsQuiet ==
    ASSUME NEW w, IsWorld(w), NEW x
    PROVE  /\ Quiet(w, [w EXCEPT !.streams = x]) /\ Quiet(w, [w EXCEPT !.clients = x])
           /\ Quiet(w, [w EXCEPT !.route = x]) /\ Quiet(w, [w EXCEPT !.toRenderer = x])
           /\ Quiet(w, [w EXCEPT !.toHost = x]) /\ Quiet(w, [w EXCEPT !.listening = x])
           /\ Quiet(w, [w EXCEPT !.shown = x]) /\ Quiet(w, [w EXCEPT !.stopCommand = x])
           /\ Quiet(w, [w EXCEPT !.bounds = x])
  BY DEF Quiet, IsWorld, HasFields

LEMMA ReadChanges ==
    ASSUME NEW w, IsWorld(w), NEW r \in Reads, NEW read, IsRead(read)
    PROVE  LET v == [w EXCEPT !.reads[r] = read]
           IN  /\ IsWorld(v) /\ v.facade = w.facade
               /\ v.reads = [w.reads EXCEPT ![r] = read]
               /\ v.reads[r] = read /\ \A q \in Reads : q # r => v.reads[q] = w.reads[q]
  BY DEF IsWorld, HasFields

LEMMA FacadeChanges ==
    ASSUME NEW w, IsWorld(w), NEW f, IsFacade(f)
    PROVE  LET v == [w EXCEPT !.facade = f]
           IN  IsWorld(v) /\ v.facade = f /\ v.reads = w.reads
  BY DEF IsWorld, HasFields

\* Nothing of a read but its timers.
LEMMA ReadTold ==
    ASSUME NEW w, IsWorld(w), NEW r \in Reads, NEW read, IsRead(read), SameRead(w.reads[r], read)
    PROVE  Told(w, [w EXCEPT !.reads[r] = read])
<1>1. PICK v : v = [w EXCEPT !.reads[r] = read]
  OBVIOUS
<1>2. /\ IsWorld(v) /\ v.facade = w.facade /\ v.reads[r] = read
      /\ \A q \in Reads : q # r => v.reads[q] = w.reads[q]
  BY <1>1, ReadChanges
<1>3. Told(w, v)
  BY <1>2 DEF Told, SameReads, SameRead, FacadeTold, SameOwner
<1>. QED
  BY <1>1, <1>3

LEMMA TimersTold ==
    ASSUME NEW w, IsWorld(w), NEW r \in Reads
    PROVE  /\ \A x : Told(w, [w EXCEPT !.reads[r].flush = x])
           /\ \A x : Told(w, [w EXCEPT !.reads[r].sample = x])
           /\ \A x : Told(w, [w EXCEPT !.reads[r].state = x])
           /\ \A x : Told(w, [w EXCEPT !.reads[r].loading = x])
           /\ Told(w, [w EXCEPT !.reads[r] = Silenced(@)])
<1>0. IsRead(w.reads[r])
  BY DEF IsWorld
<1>1. ASSUME NEW x PROVE Told(w, [w EXCEPT !.reads[r].flush = x])
  <2>1. PICK read : read = [w.reads[r] EXCEPT !.flush = x]
    OBVIOUS
  <2>2. IsRead(read) /\ SameRead(w.reads[r], read)
    BY <1>0, <2>1 DEF IsRead, SameRead
  <2>3. [w EXCEPT !.reads[r].flush = x] = [w EXCEPT !.reads[r] = read]
    BY <2>1
  <2>. QED
    BY <2>2, <2>3, ReadTold
<1>2. ASSUME NEW x PROVE Told(w, [w EXCEPT !.reads[r].sample = x])
  <2>1. PICK read : read = [w.reads[r] EXCEPT !.sample = x]
    OBVIOUS
  <2>2. IsRead(read) /\ SameRead(w.reads[r], read)
    BY <1>0, <2>1 DEF IsRead, SameRead
  <2>3. [w EXCEPT !.reads[r].sample = x] = [w EXCEPT !.reads[r] = read]
    BY <2>1
  <2>. QED
    BY <2>2, <2>3, ReadTold
<1>3. ASSUME NEW x PROVE Told(w, [w EXCEPT !.reads[r].state = x])
  <2>1. PICK read : read = [w.reads[r] EXCEPT !.state = x]
    OBVIOUS
  <2>2. IsRead(read) /\ SameRead(w.reads[r], read)
    BY <1>0, <2>1 DEF IsRead, SameRead
  <2>3. [w EXCEPT !.reads[r].state = x] = [w EXCEPT !.reads[r] = read]
    BY <2>1
  <2>. QED
    BY <2>2, <2>3, ReadTold
<1>4. ASSUME NEW x PROVE Told(w, [w EXCEPT !.reads[r].loading = x])
  <2>1. PICK read : read = [w.reads[r] EXCEPT !.loading = x]
    OBVIOUS
  <2>2. IsRead(read) /\ SameRead(w.reads[r], read)
    BY <1>0, <2>1 DEF IsRead, SameRead
  <2>3. [w EXCEPT !.reads[r].loading = x] = [w EXCEPT !.reads[r] = read]
    BY <2>1
  <2>. QED
    BY <2>2, <2>3, ReadTold
<1>5. Told(w, [w EXCEPT !.reads[r] = Silenced(@)])
  <2>1. PICK read : read = Silenced(w.reads[r])
    OBVIOUS
  <2>2. IsRead(read) /\ SameRead(w.reads[r], read)
    BY <1>0, <2>1 DEF IsRead, SameRead, Silenced
  <2>3. [w EXCEPT !.reads[r] = Silenced(@)] = [w EXCEPT !.reads[r] = read]
    BY <2>1
  <2>. QED
    BY <2>2, <2>3, ReadTold
<1>. QED
  BY <1>1, <1>2, <1>3, <1>4, <1>5

\* The facade is told something, and its reads are not.
LEMMA FacadeToldOnly ==
    ASSUME NEW w, IsWorld(w), NEW f, IsFacade(f), FacadeTold(w.facade, f)
    PROVE  Told(w, [w EXCEPT !.facade = f])
<1>1. PICK v : v = [w EXCEPT !.facade = f]
  OBVIOUS
<1>2. IsWorld(v) /\ v.facade = f /\ v.reads = w.reads
  BY <1>1, FacadeChanges
<1>3. Told(w, v)
  BY <1>2 DEF Told, SameReads, SameRead
<1>. QED
  BY <1>1, <1>3

LEMMA FacadeFieldsTold ==
    ASSUME NEW w, IsWorld(w), NEW x
    PROVE  /\ Told(w, [w EXCEPT !.facade.paused = x])
           /\ Told(w, [w EXCEPT !.facade.sequence = x])
           /\ Told(w, [w EXCEPT !.facade.admission = x])
<1>0. IsFacade(w.facade)
  BY DEF IsWorld
<1>1. Told(w, [w EXCEPT !.facade.paused = x])
  <2>1. PICK f : f = [w.facade EXCEPT !.paused = x]
    OBVIOUS
  <2>2. IsFacade(f) /\ FacadeTold(w.facade, f)
    BY <1>0, <2>1 DEF IsFacade, FacadeTold, SameOwner
  <2>3. [w EXCEPT !.facade.paused = x] = [w EXCEPT !.facade = f]
    BY <2>1
  <2>. QED
    BY <2>2, <2>3, FacadeToldOnly
<1>2. Told(w, [w EXCEPT !.facade.sequence = x])
  <2>1. PICK f : f = [w.facade EXCEPT !.sequence = x]
    OBVIOUS
  <2>2. IsFacade(f) /\ FacadeTold(w.facade, f)
    BY <1>0, <2>1 DEF IsFacade, FacadeTold, SameOwner
  <2>3. [w EXCEPT !.facade.sequence = x] = [w EXCEPT !.facade = f]
    BY <2>1
  <2>. QED
    BY <2>2, <2>3, FacadeToldOnly
<1>3. Told(w, [w EXCEPT !.facade.admission = x])
  <2>1. PICK f : f = [w.facade EXCEPT !.admission = x]
    OBVIOUS
  <2>2. IsFacade(f) /\ FacadeTold(w.facade, f)
    BY <1>0, <2>1 DEF IsFacade, FacadeTold, SameOwner
  <2>3. [w EXCEPT !.facade.admission = x] = [w EXCEPT !.facade = f]
    BY <2>1
  <2>. QED
    BY <2>2, <2>3, FacadeToldOnly
<1>. QED
  BY <1>1, <1>2, <1>3

LEMMA PausedTold ==
    ASSUME NEW w, Usable(w), NEW paused \in BOOLEAN
    PROVE  Told(w, PresentationPaused(w, paused))
<1>1. PICK told : told = [w EXCEPT !.facade.paused = paused]
  OBVIOUS
<1>2. Told(w, told) /\ IsWorld(told) /\ Usable(told)
  BY <1>1, FacadeFieldsTold, ToldUsable DEF Usable, Told
<1>3. told.facade.active = w.facade.active /\ w.facade.active \in 0 .. MaxReads
  BY <1>1 DEF Usable, FacadeTyped, IsWorld, HasFields, IsFacade
<1>4. CASE w.facade.active = 0
  BY <1>1, <1>2, <1>4 DEF PresentationPaused
<1>5. CASE w.facade.active # 0
  <2>1. PICK r \in Reads : r = w.facade.active
    BY <1>3, <1>5, ReadsAreNumbers DEF Reads
  <2>2. /\ Told(told, [told EXCEPT !.reads[r].flush = FALSE])
        /\ Told(told, [told EXCEPT !.reads[r].flush = TRUE])
    BY <1>2, <2>1, TimersTold
  <2>3. Told(w, [told EXCEPT !.reads[r].flush = FALSE]) /\ Told(w, [told EXCEPT !.reads[r].flush = TRUE])
    BY <1>2, <2>2, ToldOn DEF Usable
  <2>4. \/ PresentationPaused(w, paused) = [told EXCEPT !.reads[r].flush = FALSE]
        \/ PresentationPaused(w, paused) = [told EXCEPT !.reads[r].flush = TRUE]
        \/ PresentationPaused(w, paused) = told
    BY <1>1, <1>5, <2>1 DEF PresentationPaused, Scheduled
  <2>. QED
    BY <1>2, <2>3, <2>4
<1>. QED
  BY <1>4, <1>5

LEMMA StreamsTold == ASSUME NEW w, IsWorld(w) PROVE Told(w, StreamsStopped(w))
  BY FieldsQuiet, QuietTold DEF StreamsStopped

\* The reads are quiet and the stop is the facade's.
LEMMA StopTold ==
    ASSUME NEW w, Usable(w)
    PROVE  Told(w, StreamStopped(w))
<1> DEFINE f == w.facade
<1>1. PICK quiet : quiet = ReadSilenced(w, f.active)
  OBVIOUS
<1>2. Told(w, quiet) /\ IsWorld(quiet) /\ quiet.facade = f
  <2>1. CASE f.active = 0
    BY <1>1, <2>1, SameTold DEF ReadSilenced, Usable
  <2>2. CASE f.active # 0
    <3>1. f.active \in Reads
      BY <2>2, ReadsAreNumbers DEF Usable, FacadeTyped, Reads
    <3>2. quiet = [w EXCEPT !.reads[f.active] = Silenced(@)]
      BY <1>1, <2>2 DEF ReadSilenced
    <3>3. quiet.facade = f
      BY <3>2 DEF Usable, IsWorld, HasFields
    <3>. QED
      BY <3>1, <3>2, <3>3, TimersTold DEF Usable, Told
  <2>. QED
    BY <2>1, <2>2
<1>3. PICK stop : stop = [intent |-> f.intent + 1, read |-> f.active, by |-> "stop"]
  OBVIOUS
<1>4. PICK begun : begun = IF Owned(f) THEN w
                           ELSE [quiet EXCEPT !.facade.intent = @ + 1, !.facade.active = 0,
                                              !.facade.stopping = stop]
  OBVIOUS
<1>4a. begun.facade.stops = f.stops
  BY <1>2, <1>4 DEF Usable, IsWorld, HasFields, IsFacade
<1>5. StreamStopped(w) =
         IF begun.facade.stopping \in f.stops THEN begun
         ELSE StreamsStopped([begun EXCEPT !.facade.stops = @ \cup {begun.facade.stopping}])
  BY <1>1, <1>3, <1>4, <1>4a DEF StreamStopped, StopOwned, StopRequested, Owned
<1>6. IsFacade(f)
  BY DEF Usable, IsWorld
<1>7. PICK g : g = IF Owned(f) THEN [f EXCEPT !.stops = @ \cup {f.stopping}]
                   ELSE [f EXCEPT !.intent = @ + 1, !.active = 0, !.stopping = stop,
                                  !.stops = @ \cup {stop}]
  OBVIOUS
<1>8. IsFacade(g) /\ FacadeTold(f, g)
  <2>1. CASE Owned(f)
    BY <1>6, <1>7, <2>1 DEF IsFacade, FacadeTold, StopJoined
  <2>2. CASE ~Owned(f)
    BY <1>3, <1>6, <1>7, <2>2 DEF IsFacade, FacadeTold, StopBegun
  <2>. QED
    BY <2>1, <2>2
<1>9. IsWorld(begun) /\ begun.reads = (IF Owned(f) THEN w.reads ELSE quiet.reads)
  <2>1. CASE Owned(f)
    BY <1>4, <2>1 DEF Usable
  <2>2. CASE ~Owned(f)
    <3>1. PICK h : h = [f EXCEPT !.intent = @ + 1, !.active = 0, !.stopping = stop]
      OBVIOUS
    <3>2. IsFacade(h)
      BY <1>6, <3>1 DEF IsFacade
    <3>3. begun = [quiet EXCEPT !.facade = h]
      BY <1>2, <1>4, <2>2, <3>1 DEF IsWorld, HasFields
    <3>. QED
      BY <1>2, <2>2, <3>2, <3>3, FacadeChanges
  <2>. QED
    BY <2>1, <2>2
<1>10. SameReads(w, begun)
  BY <1>2, <1>9 DEF Told, SameReads, SameRead
<1>11. begun.facade.stops = f.stops
  BY <1>2, <1>4 DEF Usable, IsWorld, HasFields, IsFacade
<1>12. begun.facade.stopping = (IF Owned(f) THEN f.stopping ELSE stop)
  BY <1>2, <1>4, <1>6 DEF Usable, IsWorld, HasFields, IsFacade
<1>13. CASE begun.facade.stopping \in f.stops
  <2>1. begun.facade = g
    <3>1. CASE Owned(f)
      BY <1>4, <1>6, <1>7, <1>12, <1>13, <3>1 DEF IsFacade
    <3>2. CASE ~Owned(f)
      <4>1. begun.facade = [f EXCEPT !.intent = @ + 1, !.active = 0, !.stopping = stop]
        BY <1>2, <1>4, <1>6, <3>2 DEF IsWorld, HasFields, IsFacade
      <4>2. f.stops \cup {stop} = f.stops
        BY <1>12, <1>13, <3>2
      <4>. QED
        BY <1>6, <1>7, <3>2, <4>1, <4>2, ZenonT(60) DEF IsFacade
    <3>. QED
      BY <3>1, <3>2
  <2>. QED
    BY <1>5, <1>8, <1>9, <1>10, <1>13, <2>1 DEF Told
<1>14. CASE begun.facade.stopping \notin f.stops
  <2>1. PICK v : v = [begun EXCEPT !.facade.stops = @ \cup {begun.facade.stopping}]
    OBVIOUS
  <2>2. v = [begun EXCEPT !.facade = g]
    <3>1. CASE Owned(f)
      BY <1>4, <1>7, <1>9, <2>1, <3>1 DEF IsWorld, HasFields
    <3>2. CASE ~Owned(f)
      <4>1. begun.facade = [f EXCEPT !.intent = @ + 1, !.active = 0, !.stopping = stop]
        BY <1>2, <1>4, <1>6, <3>2 DEF IsWorld, HasFields, IsFacade
      <4>2. [begun.facade EXCEPT !.stops = @ \cup {stop}] = g
        BY <1>6, <1>7, <3>2, <4>1 DEF IsFacade
      <4>. QED
        BY <1>12, <2>1, <3>2, <4>2
    <3>. QED
      BY <3>1, <3>2
  <2>3. IsWorld(v) /\ v.facade = g /\ v.reads = begun.reads
    BY <1>8, <1>9, <2>2, FacadeChanges
  <2>4. Told(w, v)
    BY <1>8, <1>10, <2>3 DEF Told, SameReads
  <2>5. Told(v, StreamsStopped(v))
    BY <2>3, StreamsTold
  <2>. QED
    BY <1>5, <1>14, <2>1, <2>4, <2>5, ToldOn
<1>. QED
  BY <1>13, <1>14

LEMMA InterruptedTold == ASSUME NEW w, IsWorld(w) PROVE Told(w, Interrupted(w))
  BY FacadeFieldsTold DEF Interrupted

LEMMA RecoveryTold ==
    ASSUME NEW w, Usable(w)
    PROVE  Told(w, RecoveryStops(w))
<1>1. PICK u : u = Interrupted(w)
  OBVIOUS
<1>2. PICK v : v = StreamStopped(u)
  OBVIOUS
<1>3. Told(w, u) /\ Usable(u)
  BY <1>1, InterruptedTold, ToldUsable DEF Usable
<1>4. Told(w, v) /\ IsWorld(v)
  BY <1>2, <1>3, StopTold, ToldOn DEF Told
<1>5. PICK path : path = [v.route EXCEPT !.recovery = "pending", !.stop = v.facade.stopping]
  OBVIOUS
<1>6. RecoveryStops(w) = [v EXCEPT !.route = path]
  BY <1>1, <1>2, <1>4, <1>5 DEF RecoveryStops, RecoveryWaits, IsWorld, HasFields
<1>7. Told(v, [v EXCEPT !.route = path])
  BY <1>4, FieldsQuiet, QuietTold
<1>. QED
  BY <1>4, <1>6, <1>7, ToldOn

---------------------------------------------------------------------------
(* The desktop's delivery.                                                 *)

LEMMA ClientsTold ==
    ASSUME NEW w, IsWorld(w), NEW c, NEW x
    PROVE  /\ Told(w, [w EXCEPT !.clients[c] = x])
           /\ Told(w, [w EXCEPT !.clients[c].queue = x])
           /\ Told(w, [w EXCEPT !.clients[c].paused = x])
<1>1. PICK whole, queue, paused :
         /\ whole = [w.clients EXCEPT ![c] = x]
         /\ queue = [w.clients EXCEPT ![c].queue = x]
         /\ paused = [w.clients EXCEPT ![c].paused = x]
  OBVIOUS
<1>2. /\ Told(w, [w EXCEPT !.clients = whole])
      /\ Told(w, [w EXCEPT !.clients = queue])
      /\ Told(w, [w EXCEPT !.clients = paused])
  BY FieldsQuiet, QuietTold
<1>3. /\ [w EXCEPT !.clients = whole] = [w EXCEPT !.clients[c] = x]
      /\ [w EXCEPT !.clients = queue] = [w EXCEPT !.clients[c].queue = x]
      /\ [w EXCEPT !.clients = paused] = [w EXCEPT !.clients[c].paused = x]
  BY <1>1
<1>. QED
  BY <1>2, <1>3

LEMMA ClosedTold ==
    ASSUME NEW w, Usable(w), NEW c
    PROVE  Told(w, DeliveryClosed(w, c))
<1>1. PICK closed : closed = [w EXCEPT !.clients[c] = NoClient]
  OBVIOUS
<1>2. Told(w, closed) /\ Usable(closed)
  BY <1>1, ClientsTold, ToldUsable DEF Usable
<1>3. Told(w, PresentationPaused(closed, FALSE))
  BY <1>2, PausedTold, ToldOn
<1>. QED
  BY <1>1, <1>2, <1>3 DEF DeliveryClosed

LEMMA FailedTold ==
    ASSUME NEW w, Usable(w)
    PROVE  Told(w, DeliveryFailed(w))
<1>1. PICK closed : closed = DeliveryClosed(w, Desktop)
  OBVIOUS
<1>2. PICK path : path = [closed.route EXCEPT !.subscribed = FALSE]
  OBVIOUS
<1>3. Told(w, closed) /\ Usable(closed) /\ IsWorld(closed)
  BY <1>1, ClosedTold, ToldUsable DEF Told
<1>4. PICK left : left = [closed EXCEPT !.route = path]
  OBVIOUS
<1>5. Told(w, left) /\ Usable(left)
  <2>1. Told(closed, left)
    BY <1>3, <1>4, FieldsQuiet, QuietTold
  <2>. QED
    BY <1>3, <2>1, ToldOn, ToldUsable
<1>6. DeliveryFailed(w) = RecoveryStops(left)
  BY <1>1, <1>2, <1>4 DEF DeliveryFailed
<1>. QED
  BY <1>5, <1>6, RecoveryTold, ToldOn

LEMMA PressureTold ==
    ASSUME NEW w, Usable(w)
    PROVE  Told(w, PressureUpdated(w))
<1>1. PICK paused \in BOOLEAN :
         PressureUpdated(w) \in
             {w, PresentationPaused([w EXCEPT !.clients[Desktop].paused = paused], paused)}
  BY DEF PressureUpdated
<1>2. PICK changed : changed = [w EXCEPT !.clients[Desktop].paused = paused]
  OBVIOUS
<1>3. Told(w, changed) /\ Usable(changed)
  BY <1>2, ClientsTold, ToldUsable DEF Usable
<1>4. Told(w, PresentationPaused(changed, paused))
  BY <1>1, <1>3, PausedTold, ToldOn
<1>5. Told(w, w)
  BY SameTold
<1>. QED
  BY <1>1, <1>2, <1>4, <1>5

LEMMA FlushedTold ==
    ASSUME NEW w, Usable(w)
    PROVE  Told(w, DeliveryFlushed(w))
<1>1. PICK begun : begun = Begun(w.clients[Desktop].queue)
  OBVIOUS
<1>2. PICK sent : sent = Append(w.toRenderer, Lease(begun, FALSE))
  OBVIOUS
<1>3. PICK changed : changed = [w EXCEPT !.clients[Desktop].queue = begun]
  OBVIOUS
<1>4. Told(w, changed) /\ IsWorld(changed) /\ changed.toRenderer = w.toRenderer
  BY <1>3, ClientsTold DEF Usable, Told, IsWorld, HasFields
<1>5. Told(changed, [changed EXCEPT !.toRenderer = sent])
  BY <1>4, FieldsQuiet, QuietTold
<1>6. [w EXCEPT !.clients[Desktop].queue = begun, !.toRenderer = Append(@, Lease(begun, FALSE))]
         = [changed EXCEPT !.toRenderer = sent]
  BY <1>2, <1>3, <1>4
<1>7. DeliveryFlushed(w) \in {w, [changed EXCEPT !.toRenderer = sent]}
  BY <1>1, <1>6 DEF DeliveryFlushed
<1>. QED
  BY <1>4, <1>5, <1>7, SameTold, ToldOn

LEMMA ChangedTold ==
    ASSUME NEW w, Usable(w)
    PROVE  Told(w, DeliveryChanged(w))
  BY PressureTold, FlushedTold, ToldUsable, ToldOn DEF DeliveryChanged

LEMMA DeliveredTold ==
    ASSUME NEW w, Usable(w), NEW event
    PROVE  Told(w, Delivered(w, event))
<1>1. PICK queue : queue = Enqueued(w.clients[Desktop].queue, FALSE, event)
  OBVIOUS
<1>2. PICK v : v = [w EXCEPT !.clients[Desktop].queue = queue]
  OBVIOUS
<1>3. Told(w, v) /\ Usable(v)
  BY <1>2, ClientsTold, ToldUsable DEF Usable
<1>4. Delivered(w, event) \in {DeliveryFailed(v), DeliveryChanged(v)}
  BY <1>1, <1>2 DEF Delivered, DeliveryUsed
<1>. QED
  BY <1>3, <1>4, FailedTold, ChangedTold, ToldOn

LEMMA AcknowledgedTold ==
    ASSUME NEW w, Usable(w), NEW sequence
    PROVE  Told(w, Acknowledged(w, sequence))
<1>1. PICK queue : queue = Completed(w.clients[Desktop].queue)
  OBVIOUS
<1>2. PICK v : v = [w EXCEPT !.clients[Desktop].queue = queue]
  OBVIOUS
<1>3. Told(w, v) /\ Usable(v)
  BY <1>2, ClientsTold, ToldUsable DEF Usable
<1>4. Acknowledged(w, sequence) \in {w, DeliveryChanged(v)}
  BY <1>1, <1>2 DEF Acknowledged
<1>. QED
  BY <1>3, <1>4, SameTold, ChangedTold, ToldOn

---------------------------------------------------------------------------
(* The web host's event streams.                                           *)

LEMMA StreamClosedTold ==
    ASSUME NEW w, Usable(w), NEW c
    PROVE  Told(w, StreamClosed(w, c))
<1>1. PICK left, view :
         left = [w.clients EXCEPT ![c] = NoClient] /\ view = [w.shown EXCEPT ![c] = NothingShown]
  OBVIOUS
<1>2. PICK u : u = [w EXCEPT !.clients = left]
  OBVIOUS
<1>3. PICK v : v = [u EXCEPT !.shown = view]
  OBVIOUS
<1>4. Told(w, u) /\ Usable(u) /\ IsWorld(u)
  <2>1. Told(w, u)
    BY <1>2, FieldsQuiet, QuietTold DEF Usable
  <2>. QED
    BY <2>1, ToldUsable DEF Told
<1>5. Told(u, v)
  BY <1>3, <1>4, FieldsQuiet, QuietTold
<1>6. Told(w, v) /\ Usable(v)
  BY <1>4, <1>5, ToldOn, ToldUsable
<1>7. v = [w EXCEPT !.clients[c] = NoClient, !.shown[c] = NothingShown]
  BY <1>1, <1>2, <1>3 DEF Usable, IsWorld, HasFields
<1>8. StreamClosed(w, c) \in {w, v, RecoveryStops(v)}
  BY <1>7 DEF StreamClosed
<1>. QED
  BY <1>6, <1>8, SameTold, RecoveryTold, ToldOn

LEMMA WrittenTold ==
    ASSUME NEW w, IsWorld(w), NEW c, NEW write
    PROVE  Told(w, Written(w, c, write))
<1>1. PICK left : left = Written(w, c, write).clients
  OBVIOUS
<1>2. Written(w, c, write) = [w EXCEPT !.clients = left]
  BY <1>1 DEF Written, IsWorld, HasFields
<1>3. Told(w, [w EXCEPT !.clients = left])
  BY FieldsQuiet, QuietTold
<1>. QED
  BY <1>2, <1>3

LEMMA PumpedTold ==
    ASSUME NEW w, Usable(w), NEW c
    PROVE  Told(w, Pumped(w, c))
<1>1. PICK left, view :
         /\ left = [w.clients EXCEPT ![c].queue = Begun(@)]
         /\ view = [w.shown EXCEPT ![c] = Shown(@, Lease(Begun(w.clients[c].queue), TRUE))]
  OBVIOUS
<1>2. PICK u : u = [w EXCEPT !.clients = left]
  OBVIOUS
<1>3. PICK v : v = [u EXCEPT !.shown = view]
  OBVIOUS
<1>4. Told(w, u) /\ IsWorld(u)
  BY <1>2, FieldsQuiet, QuietTold DEF Usable, Told
<1>5. Told(u, v) /\ IsWorld(v)
  BY <1>3, <1>4, FieldsQuiet, QuietTold DEF Told
<1>6. Told(w, Written(v, c, "event"))
  BY <1>4, <1>5, WrittenTold, ToldOn
<1>7. v = [w EXCEPT !.clients[c].queue = Begun(@),
                    !.shown[c] = Shown(@, Lease(Begun(w.clients[c].queue), TRUE))]
  BY <1>1, <1>2, <1>3 DEF Usable, IsWorld, HasFields
<1>8. Pumped(w, c) \in {w, Written(v, c, "event")}
  BY <1>7 DEF Pumped
<1>. QED
  BY <1>6, <1>8, SameTold

LEMMA StreamedTold ==
    ASSUME NEW w, Usable(w), NEW c, NEW event
    PROVE  Told(w, Streamed(w, c, event))
<1>1. PICK queue : queue = Enqueued(w.clients[c].queue, TRUE, event)
  OBVIOUS
<1>2. PICK v : v = [w EXCEPT !.clients[c].queue = queue]
  OBVIOUS
<1>3. Told(w, v) /\ Usable(v)
  BY <1>2, ClientsTold, ToldUsable DEF Usable
<1>4. Streamed(w, c, event) \in {w, StreamClosed(v, c), Pumped(v, c)}
  BY <1>1, <1>2 DEF Streamed, StreamUsed
<1>. QED
  BY <1>3, <1>4, SameTold, StreamClosedTold, PumpedTold, ToldOn

---------------------------------------------------------------------------
(* Publishing goes from stream to stream. A recursive definition names a   *)
(* function only if there is one, and what holds for each of its values is *)
(* shown for the set of those for which it does.                           *)

\* A set of naturals has a least member.
LEMMA LeastOf ==
    ASSUME NEW T \in SUBSET Nat, T # {}
    PROVE  \E x \in T : \A y \in T : ~(y < x)
<1> DEFINE R == {pair \in Nat \X Nat : pair[1] < pair[2]}
<1>1. IsWellFoundedOn(R, Nat)
  BY NatLessThanWellFounded DEF OpToRel
<1>2. \E x \in T : \A y \in T : ~(<<y, x>> \in R)
  <2>. HIDE DEF R
  <2>. QED
    BY <1>1, WFMin
<1>. QED
  BY <1>2

\* Induction over the members of a set.
LEMMA SetInduction ==
    ASSUME NEW S, 0 \in S, \A n \in Nat : n \in S => n + 1 \in S
    PROVE  Nat \subseteq S
<1> DEFINE T == Nat \ S
<1>1. ASSUME T # {} PROVE FALSE
  <2>1. PICK x \in T : \A y \in T : ~(y < x)
    <3>1. T \in SUBSET Nat
      OBVIOUS
    <3>. HIDE DEF T
    <3>. QED
      BY <1>1, <3>1, LeastOf
  <2>2. x # 0 /\ x - 1 \in Nat
    BY <2>1
  <2>. QED
    BY <2>1, <2>2
<1>. QED
  BY <1>1

\* The worlds after the first n streams are told.
AreTellings(f, told, event, n) ==
    f = [c \in 0 .. n |-> IF c = 0 THEN told ELSE Streamed(f[c - 1], c, event)]

LEMMA TellingsExist ==
    ASSUME NEW told, NEW event, NEW m \in Nat
    PROVE  \E f : AreTellings(f, told, event, m)
<1> DEFINE S == {n \in Nat : \E f : AreTellings(f, told, event, n)}
<1>1. 0 \in S
  <2>1. AreTellings([c \in 0 .. 0 |-> told], told, event, 0)
    BY DEF AreTellings
  <2>. QED
    BY <2>1
<1>2. ASSUME NEW n \in Nat, n \in S PROVE n + 1 \in S
  <2>1. PICK f : AreTellings(f, told, event, n)
    BY <1>2
  <2> DEFINE g == [c \in 0 .. n + 1 |-> IF c = n + 1 THEN Streamed(f[n], n + 1, event) ELSE f[c]]
  <2>2. \A c \in 0 .. n + 1 : g[c] = IF c = 0 THEN told ELSE Streamed(g[c - 1], c, event)
    <3>1. f[0] = told /\ \A c \in 1 .. n : f[c] = Streamed(f[c - 1], c, event)
      BY <2>1 DEF AreTellings
    <3>2. \A c \in 0 .. n : g[c] = f[c]
      OBVIOUS
    <3>3. g[n + 1] = Streamed(f[n], n + 1, event)
      OBVIOUS
    <3>4. ASSUME NEW c \in 1 .. n PROVE g[c] = Streamed(g[c - 1], c, event)
      <4>1. c \in 0 .. n /\ c - 1 \in 0 .. n
        OBVIOUS
      <4>. QED
        BY <3>1, <3>2, <4>1
    <3>. HIDE DEF g
    <3>5. g[n + 1] = Streamed(g[(n + 1) - 1], n + 1, event)
      <4>1. (n + 1) - 1 = n /\ n \in 0 .. n
        OBVIOUS
      <4>. QED
        BY <3>2, <3>3, <4>1
    <3>6. g[0] = told
      BY <3>1, <3>2
    <3>7. \A c \in 0 .. n + 1 : c = 0 \/ c \in 1 .. n \/ c = n + 1
      OBVIOUS
    <3>. QED
      BY <3>4, <3>5, <3>6, <3>7
  <2>3. AreTellings(g, told, event, n + 1)
    BY <2>2 DEF AreTellings
  <2>. QED
    BY <2>3
<1>3. m \in S
  <2>. HIDE DEF S
  <2>. QED
    BY <1>1, <1>2, SetInduction
<1>. QED
  BY <1>3

LEMMA TellingsTold ==
    ASSUME NEW w, NEW told, Usable(w), Told(w, told), NEW event, NEW m \in Nat,
           NEW f, AreTellings(f, told, event, m)
    PROVE  Told(w, f[m])
<1> DEFINE S == {n \in Nat : n <= m => Told(w, f[n])}
<1>1. 0 \in S
  <2>1. f[0] = told
    BY DEF AreTellings
  <2>. QED
    BY <2>1
<1>2. ASSUME NEW n \in Nat, n \in S PROVE n + 1 \in S
  <2>1. SUFFICES ASSUME n + 1 <= m PROVE Told(w, f[n + 1])
    OBVIOUS
  <2>2. PICK u, v, c : u = f[n] /\ v = f[n + 1] /\ c = n + 1
    OBVIOUS
  <2>3. v = Streamed(u, c, event)
    BY <2>1, <2>2 DEF AreTellings
  <2>4. Told(w, u) /\ Usable(u)
    BY <1>2, <2>1, <2>2, ToldUsable
  <2>5. Told(w, v)
    BY <2>3, <2>4, StreamedTold, ToldOn
  <2>. QED
    BY <2>2, <2>5
<1>3. m \in S
  <2>. HIDE DEF S
  <2>. QED
    BY <1>1, <1>2, SetInduction
<1>. QED
  BY <1>3

LEMMA PublishTold ==
    ASSUME NEW w, Usable(w), NEW event
    PROVE  Told(w, Publish(w, event))
<1>1. PICK told : told = [w EXCEPT !.facade.sequence = @ + 1]
  OBVIOUS
<1>2. PICK numbered : numbered = [event EXCEPT !.seq = w.facade.sequence + 1]
  OBVIOUS
<1>3. Told(w, told) /\ IsWorld(told) /\ Usable(told)
  <2>1. Told(w, told)
    BY <1>1, FacadeFieldsTold DEF Usable
  <2>. QED
    BY <2>1, ToldUsable DEF Told
<1> DEFINE After == CHOOSE f : AreTellings(f, told, numbered, MaxClients)
<1>4. Told(w, After[MaxClients])
  <2>1. AreTellings(After, told, numbered, MaxClients)
    BY TellingsExist, ClientsAssumption
  <2>. HIDE DEF After
  <2>. QED
    BY <1>3, <2>1, ClientsAssumption, TellingsTold
<1>5. PICK seen : seen = [told EXCEPT !.route.lastSequence = numbered.seq]
  OBVIOUS
<1>6. Told(w, seen) /\ Usable(seen)
  <2>1. PICK path : path = [told.route EXCEPT !.lastSequence = numbered.seq]
    OBVIOUS
  <2>2. seen = [told EXCEPT !.route = path]
    BY <1>5, <2>1
  <2>3. Told(told, seen)
    BY <1>3, <2>2, FieldsQuiet, QuietTold
  <2>. QED
    BY <1>3, <2>3, ToldOn, ToldUsable
<1>7. Told(w, Delivered(seen, numbered))
  BY <1>6, DeliveredTold, ToldOn
<1>8. Publish(w, event) \in {After[MaxClients], Delivered(seen, numbered), told}
  BY <1>1, <1>2, <1>5 DEF Publish, AreTellings
<1>. QED
  BY <1>3, <1>4, <1>7, <1>8

LEMMA NotedTold == ASSUME NEW w, Usable(w) PROVE Told(w, Noted(w))
  BY PublishTold DEF Noted

LEMMA MetricsTold == ASSUME NEW w, Usable(w), NEW r PROVE Told(w, Metrics(w, r))
  BY PublishTold DEF Metrics

LEMMA MetricsPublishedTold ==
    ASSUME NEW w, Usable(w), NEW r \in Reads
    PROVE  Told(w, MetricsPublished(w, r))
<1>1. PICK v : v = Metrics(w, r)
  OBVIOUS
<1>2. Told(w, v) /\ Usable(v) /\ IsWorld(v)
  BY <1>1, MetricsTold, ToldUsable DEF Told
<1>3. Told(v, [v EXCEPT !.reads[r].sample = TRUE]) /\ Told(v, v)
  BY <1>2, TimersTold, SameTold
<1>4. MetricsPublished(w, r) \in {v, [v EXCEPT !.reads[r].sample = TRUE]}
  BY <1>1 DEF MetricsPublished, SampleScheduled
<1>. QED
  BY <1>2, <1>3, <1>4, ToldOn

LEMMA StateTold ==
    ASSUME NEW w, Usable(w), NEW r \in Reads, NEW state
    PROVE  Told(w, StatePublished(w, r, state))
<1>1. PICK v : v = [w EXCEPT !.reads[r].state = state]
  OBVIOUS
<1>2. PICK event : event = [NoEvent EXCEPT !.kind = "state", !.read = r, !.state = state,
                                           !.received = w.reads[r].received, !.dropped = w.reads[r].dropped]
  OBVIOUS
<1>3. Told(w, v) /\ Usable(v)
  <2>1. Told(w, v)
    BY <1>1, TimersTold DEF Usable
  <2>. QED
    BY <2>1, ToldUsable
<1>4. PICK u : u = Publish(v, event)
  OBVIOUS
<1>5. Told(w, u) /\ Usable(u)
  BY <1>3, <1>4, PublishTold, ToldOn, ToldUsable
<1>6. Told(w, Metrics(u, r))
  BY <1>5, MetricsTold, ToldOn
<1>7. StatePublished(w, r, state) = Metrics(u, r)
  BY <1>1, <1>2, <1>4 DEF StatePublished
<1>. QED
  BY <1>6, <1>7

LEMMA LoadingTold ==
    ASSUME NEW w, Usable(w), NEW r \in Reads
    PROVE  Told(w, LoadingPublished(w, r))
<1>1. PICK v : v = [w EXCEPT !.reads[r].loading = TRUE]
  OBVIOUS
<1>2. Told(w, v) /\ Usable(v)
  <2>1. Told(w, v)
    BY <1>1, TimersTold DEF Usable
  <2>. QED
    BY <2>1, ToldUsable
<1>3. Told(w, StatePublished(v, r, "loading"))
  BY <1>2, StateTold, ToldOn
<1>. QED
  BY <1>1, <1>3, SameTold DEF LoadingPublished

LEMMA ScheduledTold ==
    ASSUME NEW w, Usable(w), NEW r \in Reads
    PROVE  Told(w, Scheduled(w, r))
  BY TimersTold, SameTold DEF Scheduled, Usable

---------------------------------------------------------------------------
(* What a flush does to its read, and to the facade.                       *)

Lossless(read) == read.dropped = 0 /\ read.queue = <<>>
SameIntent(a, b) == b.phase = a.phase /\ b.intent = a.intent

\* Whatever goes from the queue of read r, the other reads keep theirs, and
\* nothing is lost if nothing was queued.
Moves(w, v, r) ==
    /\ IsWorld(v) /\ FacadeTold(w.facade, v.facade)
    /\ \A q \in Reads : q # r => SameRead(w.reads[q], v.reads[q])
    /\ SameIntent(w.reads[r], v.reads[r])
    /\ Lossless(w.reads[r]) => Lossless(v.reads[r])

LEMMA ToldMoves ==
    ASSUME NEW w, NEW v, Told(w, v), NEW r \in Reads
    PROVE  Moves(w, v, r)
  BY DEF Told, Moves, SameReads, SameRead, SameIntent, Lossless

LEMMA MovesOn ==
    ASSUME NEW u, NEW v, NEW w, NEW r \in Reads, Usable(u), Moves(u, v, r), Moves(v, w, r)
    PROVE  Moves(u, w, r)
  BY ToldTwice DEF Usable, Moves, SameRead, SameIntent

LEMMA MovesUsable ==
    ASSUME NEW w, NEW v, NEW r, Usable(w), Moves(w, v, r)
    PROVE  Usable(v)
  BY ToldTyped DEF Moves, Usable

LEMMA ReadMoves ==
    ASSUME NEW w, IsWorld(w), NEW r \in Reads, NEW read, IsRead(read),
           SameIntent(w.reads[r], read), Lossless(w.reads[r]) => Lossless(read)
    PROVE  Moves(w, [w EXCEPT !.reads[r] = read], r)
<1>1. PICK v : v = [w EXCEPT !.reads[r] = read]
  OBVIOUS
<1>2. /\ IsWorld(v) /\ v.facade = w.facade /\ v.reads[r] = read
      /\ \A q \in Reads : q # r => v.reads[q] = w.reads[q]
  BY <1>1, ReadChanges
<1>3. Moves(w, v, r)
  BY <1>2 DEF Moves, SameRead, FacadeTold, SameOwner
<1>. QED
  BY <1>1, <1>3

LEMMA DiscardedMoves ==
    ASSUME NEW w, IsWorld(w), NEW r \in Reads
    PROVE  LET v == [w EXCEPT !.reads[r] = Discarded(@)]
           IN  Moves(w, v, r) /\ v.reads[r].queue = <<>>
<1>1. PICK read : read = Discarded(w.reads[r])
  OBVIOUS
<1>2. IsRead(read) /\ SameIntent(w.reads[r], read) /\ read.queue = <<>>
  <2>1. IsRead(w.reads[r])
    BY DEF IsWorld
  <2>. QED
    BY <1>1, <2>1 DEF IsRead, Discarded, SameIntent
<1>3. Lossless(w.reads[r]) => Lossless(read)
  BY <1>1 DEF IsWorld, IsRead, Discarded, Lossless
<1>4. [w EXCEPT !.reads[r] = Discarded(@)] = [w EXCEPT !.reads[r] = read]
  BY <1>1
<1>5. Moves(w, [w EXCEPT !.reads[r] = read], r)
  BY <1>2, <1>3, ReadMoves
<1>6. [w EXCEPT !.reads[r] = read].reads[r] = read
  <2>1. PICK v : v = [w EXCEPT !.reads[r] = read]
    OBVIOUS
  <2>2. v.reads[r] = read
    BY <1>2, <2>1, ReadChanges
  <2>. QED
    BY <2>1, <2>2
<1>. QED
  BY <1>2, <1>4, <1>5, <1>6

LEMMA BatchMoves ==
    ASSUME NEW w, Usable(w), NEW r \in Reads
    PROVE  Moves(w, BatchPublished(w, r), r)
<1>1. PICK left : left = [w EXCEPT !.reads[r] = Taken(@)]
  OBVIOUS
<1>2. PICK event : event = [NoEvent EXCEPT !.kind = "batch", !.read = r,
                                           !.records = Batch(w.reads[r]),
                                           !.dropped = left.reads[r].dropped]
  OBVIOUS
<1>3. Moves(w, w, r)
  BY SameTold, ToldMoves
<1>4. CASE w.facade.paused \/ w.reads[r].queue = <<>>
  BY <1>3, <1>4 DEF BatchPublished
<1>5. CASE ~(w.facade.paused \/ w.reads[r].queue = <<>>)
  <2>1. PICK read : read = Taken(w.reads[r])
    OBVIOUS
  <2>2. IsRead(read) /\ SameIntent(w.reads[r], read)
    <3>1. IsRead(w.reads[r])
      BY DEF Usable, IsWorld
    <3>. QED
      BY <2>1, <3>1 DEF IsRead, Taken, SameIntent
  <2>3. left = [w EXCEPT !.reads[r] = read]
    BY <1>1, <2>1
  <2>4. Moves(w, left, r) /\ Usable(left)
    <3>1. Moves(w, left, r)
      BY <1>5, <2>2, <2>3, ReadMoves DEF Usable, Lossless
    <3>. QED
      BY <3>1, MovesUsable
  <2>5. Moves(w, Publish(left, event), r)
    BY <2>4, PublishTold, ToldMoves, MovesOn
  <2>6. BatchPublished(w, r) \in {left, Publish(left, event)}
    BY <1>1, <1>2, <1>5 DEF BatchPublished
  <2>. QED
    BY <2>4, <2>5, <2>6
<1>. QED
  BY <1>4, <1>5

LEMMA FlushedMoves ==
    ASSUME NEW w, Usable(w), NEW r \in Reads, NEW measured \in BOOLEAN
    PROVE  Moves(w, Flushed(w, r, measured), r)
<1>1. PICK quiet : quiet = [w EXCEPT !.reads[r].flush = FALSE]
  OBVIOUS
<1>2. Moves(w, quiet, r) /\ Usable(quiet)
  <2>1. Told(w, quiet)
    BY <1>1, TimersTold DEF Usable
  <2>. QED
    BY <2>1, ToldMoves, ToldUsable
<1>3. PICK sent : sent = BatchPublished(quiet, r)
  OBVIOUS
<1>4. Moves(w, sent, r) /\ Usable(sent)
  BY <1>2, <1>3, BatchMoves, MovesOn, MovesUsable
<1>5. PICK counted : counted = Measured(sent, r, ~w.reads[r].published \/ measured)
  OBVIOUS
<1>6. counted \in {sent, MetricsPublished(sent, r)}
  BY <1>5 DEF Measured
<1>7. Moves(w, counted, r) /\ Usable(counted)
  <2>1. Told(sent, counted)
    BY <1>4, <1>6, SameTold, MetricsPublishedTold
  <2>. QED
    BY <1>4, <2>1, ToldMoves, MovesOn, MovesUsable
<1>8. Flushed(w, r, measured) \in {quiet, counted, Scheduled(counted, r)}
  BY <1>1, <1>3, <1>5 DEF Flushed, Continued
<1>9. Moves(w, Scheduled(counted, r), r)
  BY <1>7, ScheduledTold, ToldMoves, MovesOn
<1>. QED
  BY <1>2, <1>7, <1>8, <1>9

\* The worlds after the first n turns of a whole flush.
AreTurns(f, quiet, r, n) ==
    f = [turn \in 0 .. n |-> IF turn = 0 THEN quiet ELSE BatchPublished(f[turn - 1], r)]

LEMMA TurnsExist ==
    ASSUME NEW quiet, NEW r, NEW m \in Nat
    PROVE  \E f : AreTurns(f, quiet, r, m)
<1> DEFINE S == {n \in Nat : \E f : AreTurns(f, quiet, r, n)}
<1>1. 0 \in S
  <2>1. AreTurns([turn \in 0 .. 0 |-> quiet], quiet, r, 0)
    BY DEF AreTurns
  <2>. QED
    BY <2>1
<1>2. ASSUME NEW n \in Nat, n \in S PROVE n + 1 \in S
  <2>1. PICK f : AreTurns(f, quiet, r, n)
    BY <1>2
  <2> DEFINE g == [turn \in 0 .. n + 1 |-> IF turn = n + 1 THEN BatchPublished(f[n], r) ELSE f[turn]]
  <2>2. \A turn \in 0 .. n + 1 : g[turn] = IF turn = 0 THEN quiet ELSE BatchPublished(g[turn - 1], r)
    <3>1. f[0] = quiet /\ \A turn \in 1 .. n : f[turn] = BatchPublished(f[turn - 1], r)
      BY <2>1 DEF AreTurns
    <3>2. \A turn \in 0 .. n : g[turn] = f[turn]
      OBVIOUS
    <3>3. g[n + 1] = BatchPublished(f[n], r)
      OBVIOUS
    <3>4. ASSUME NEW turn \in 1 .. n PROVE g[turn] = BatchPublished(g[turn - 1], r)
      <4>1. turn \in 0 .. n /\ turn - 1 \in 0 .. n
        OBVIOUS
      <4>. QED
        BY <3>1, <3>2, <4>1
    <3>. HIDE DEF g
    <3>5. g[n + 1] = BatchPublished(g[(n + 1) - 1], r)
      <4>1. (n + 1) - 1 = n /\ n \in 0 .. n
        OBVIOUS
      <4>. QED
        BY <3>2, <3>3, <4>1
    <3>6. g[0] = quiet
      BY <3>1, <3>2
    <3>7. \A turn \in 0 .. n + 1 : turn = 0 \/ turn \in 1 .. n \/ turn = n + 1
      OBVIOUS
    <3>. QED
      BY <3>4, <3>5, <3>6, <3>7
  <2>3. AreTurns(g, quiet, r, n + 1)
    BY <2>2 DEF AreTurns
  <2>. QED
    BY <2>3
<1>3. m \in S
  <2>. HIDE DEF S
  <2>. QED
    BY <1>1, <1>2, SetInduction
<1>. QED
  BY <1>3

LEMMA TurnsMove ==
    ASSUME NEW w, NEW quiet, NEW r \in Reads, Usable(w), Moves(w, quiet, r), NEW m \in Nat,
           NEW f, AreTurns(f, quiet, r, m)
    PROVE  Moves(w, f[m], r)
<1> DEFINE S == {n \in Nat : n <= m => Moves(w, f[n], r)}
<1>1. 0 \in S
  <2>1. f[0] = quiet
    BY DEF AreTurns
  <2>. QED
    BY <2>1
<1>2. ASSUME NEW n \in Nat, n \in S PROVE n + 1 \in S
  <2>1. SUFFICES ASSUME n + 1 <= m PROVE Moves(w, f[n + 1], r)
    OBVIOUS
  <2>2. PICK u, v : u = f[n] /\ v = f[n + 1]
    OBVIOUS
  <2>3. v = BatchPublished(u, r)
    BY <2>1, <2>2 DEF AreTurns
  <2>4. Moves(w, u, r) /\ Usable(u)
    BY <1>2, <2>1, <2>2, MovesUsable
  <2>5. Moves(w, v, r)
    BY <2>3, <2>4, BatchMoves, MovesOn
  <2>. QED
    BY <2>2, <2>5
<1>3. m \in S
  <2>. HIDE DEF S
  <2>. QED
    BY <1>1, <1>2, SetInduction
<1>. QED
  BY <1>3

\* A whole flush leaves nothing queued.
LEMMA WholeMoves ==
    ASSUME NEW w, Usable(w), NEW r \in Reads
    PROVE  Moves(w, FlushedWhole(w, r), r) /\ FlushedWhole(w, r).reads[r].queue = <<>>
<1>1. PICK quiet : quiet = [w EXCEPT !.reads[r] = Silenced(@)]
  OBVIOUS
<1>2. Moves(w, quiet, r)
  BY <1>1, TimersTold, ToldMoves DEF Usable
<1> DEFINE After == CHOOSE f : AreTurns(f, quiet, r, QueueDepth)
<1>3. PICK flushed : flushed = After[QueueDepth]
  OBVIOUS
<1>4. Moves(w, flushed, r) /\ Usable(flushed)
  <2>1. AreTurns(After, quiet, r, QueueDepth)
    BY TurnsExist, PresentationAssumption
  <2>2. Moves(w, flushed, r)
    <3>. HIDE DEF After
    <3>. QED
      BY <1>2, <1>3, <2>1, PresentationAssumption, TurnsMove
  <2>. QED
    BY <2>2, MovesUsable
<1>5. FlushedWhole(w, r) = [flushed EXCEPT !.reads[r] = Discarded(@)]
  BY <1>1, <1>3 DEF FlushedWhole, AreTurns
<1>. QED
  BY <1>4, <1>5, DiscardedMoves, MovesOn DEF Usable

---------------------------------------------------------------------------
(* The invariant through a flush, and from one state to the next.          *)

LEMMA MovesKeeps ==
    ASSUME NEW w, NEW v, NEW r \in Reads, PresentationInv(w), Moves(w, v, r)
    PROVE  PresentationInv(v)
<1> DEFINE f == w.facade
           g == v.facade
<1>1. IsWorld(v) /\ FacadeTold(f, g) /\ FacadeTyped(f) /\ f.intent \in Nat
  BY DEF Moves, PresentationInv, FacadeTyped
<1>2. FacadeTyped(g) /\ g.intent \in Nat
  BY <1>1, ToldTyped DEF FacadeTyped
<1>3. \A q \in Reads : SameIntent(w.reads[q], v.reads[q]) /\ (Lossless(w.reads[q]) => Lossless(v.reads[q]))
  BY DEF Moves, SameRead, SameIntent, Lossless
<1>4. ReadsTyped(v)
  BY <1>3 DEF PresentationInv, ReadsTyped, SameIntent
<1>5. f.intent <= g.intent /\ (g.active # 0 => g.active = f.active) /\ g.continuation = f.continuation
  BY <1>1 DEF FacadeTold, SameOwner, StopJoined, StopBegun
<1>6. StopsFit(v)
  <2>1. ASSUME NEW stop \in Stop, StopFits(w, stop) PROVE StopFits(v, stop)
    <3>1. stop.intent \in Nat /\ (stop.read # 0 => stop.read \in Reads)
      BY ReadsAreNumbers DEF Stop, Reads
    <3>. QED
      BY <1>1, <1>2, <1>3, <1>5, <2>1, <3>1 DEF StopFits, SameIntent
  <2>2. CASE SameOwner(f, g) \/ StopJoined(f, g)
    BY <1>1, <2>1, <2>2 DEF PresentationInv, StopsFit, FacadeTyped, SameOwner, StopJoined
  <2>3. CASE StopBegun(f, g)
    <3>1. StopFits(v, g.stopping)
      <4>1. f.active # 0 => f.active \in Reads /\ w.reads[f.active].phase \in Past
        BY <1>1, ReadsAreNumbers DEF PresentationInv, ActiveFits, FacadeTyped, Reads
      <4>2. f.active # 0 => v.reads[f.active].phase \in Past
        BY <1>3, <4>1 DEF SameIntent
      <4>. QED
        BY <1>1, <2>3, <4>2 DEF StopBegun, StopFits
    <3>2. \A stop \in f.stops : StopFits(v, stop)
      BY <1>1, <2>1 DEF PresentationInv, StopsFit, FacadeTyped
    <3>. QED
      BY <2>3, <3>1, <3>2 DEF StopBegun, StopsFit
  <2>. QED
    BY <1>1, <2>2, <2>3 DEF FacadeTold
<1>7. ActiveFits(v)
  <2>1. SUFFICES ASSUME g.active # 0
                 PROVE  /\ g.stopping = NoStop /\ g.continuation = 0 /\ g.intent # 0
                        /\ v.reads[g.active].phase \in Past
                        /\ \A q \in Reads : q # g.active /\ v.reads[q].phase \in Past
                                               => v.reads[q].intent # g.intent
    BY DEF ActiveFits
  <2>2. f.active = g.active /\ g.active \in Reads
    BY <1>2, <1>5, <2>1, ReadsAreNumbers DEF FacadeTyped, Reads
  <2>3. /\ f.stopping = NoStop /\ f.continuation = 0 /\ f.intent # 0
        /\ w.reads[f.active].phase \in Past
        /\ \A q \in Reads : q # f.active /\ w.reads[q].phase \in Past => w.reads[q].intent # f.intent
    BY <2>1, <2>2 DEF PresentationInv, ActiveFits
  <2>4. SameOwner(f, g)
    BY <1>1, <2>1, <2>3 DEF FacadeTold, StopJoined, StopBegun, Owned
  <2>. QED
    BY <1>3, <1>5, <2>2, <2>3, <2>4 DEF SameOwner, SameIntent
<1>8. ContinuationFits(v)
  <2>1. g.continuation # 0 => g.continuation \in Reads /\ Lossless(w.reads[g.continuation])
                                /\ w.reads[g.continuation].phase \in Past
    BY <1>2, <1>5, ReadsAreNumbers DEF PresentationInv, ContinuationFits, FacadeTyped, Reads, Lossless
  <2>. QED
    BY <1>3, <2>1 DEF ContinuationFits, Lossless, SameIntent
<1>9. IntentsDiffer(v)
  <2>1. \A q \in Reads : w.reads[q].intent \in Nat /\ w.reads[q].intent <= f.intent
    BY DEF PresentationInv, ReadsTyped, IntentsDiffer
  <2>2. \A q \in Reads : v.reads[q].intent <= g.intent
    BY <1>1, <1>2, <1>3, <1>5, <2>1 DEF SameIntent
  <2>. QED
    BY <1>3, <2>2 DEF PresentationInv, IntentsDiffer, SameIntent
<1>. QED
  BY <1>1, <1>2, <1>4, <1>6, <1>7, <1>8, <1>9 DEF PresentationInv

LEMMA ToldKeeps ==
    ASSUME NEW w, NEW v, PresentationInv(w), Told(w, v)
    PROVE  PresentationInv(v)
<1>1. PICK r \in Reads : r = 1
  BY PresentationAssumption DEF Reads
<1>. QED
  BY <1>1, ToldMoves, MovesKeeps

LEMMA InvUsable ==
    ASSUME NEW w, PresentationInv(w)
    PROVE  Usable(w) /\ IsWorld(w)
  BY DEF PresentationInv, Usable

\* A read that is over and that nobody holds is forgotten.
LEMMA KeptKeeps ==
    ASSUME NEW w, PresentationInv(w)
    PROVE  PresentationInv([w EXCEPT !.reads = Kept(w)])
<1>1. PICK v : v = [w EXCEPT !.reads = Kept(w)]
  OBVIOUS
<1>2. v.reads = Kept(w) /\ v.facade = w.facade /\ HasFields(v)
  BY <1>1 DEF PresentationInv, IsWorld, HasFields
<1>3. \A r \in Reads : v.reads[r] = IF Held(w, r) THEN w.reads[r] ELSE [NoRead EXCEPT !.phase = "over"]
  BY <1>2 DEF Kept
<1>4. \A r \in Reads : ~Held(w, r) =>
         /\ v.reads[r].phase = "over" /\ v.reads[r].intent = 0 /\ IsRead(v.reads[r])
         /\ w.reads[r].phase = "over"
  BY <1>3 DEF NoRead, IsRead, Held
<1>5. \A r \in Reads : Held(w, r) => v.reads[r] = w.reads[r]
  BY <1>3
<1>6. IsWorld(v)
  BY <1>2, <1>4, <1>5 DEF PresentationInv, IsWorld, Kept
<1>7. ReadsTyped(v)
  BY <1>4, <1>5 DEF PresentationInv, ReadsTyped, Phases, Started, Past
<1>8. \A r \in Reads : v.reads[r].phase = w.reads[r].phase
  BY <1>4, <1>5
<1>9. StopsFit(v)
  <2>1. \A stop \in Stop : stop.read # 0 => stop.read \in Reads
    BY ReadsAreNumbers DEF Stop, Reads
  <2>. QED
    BY <1>2, <1>8, <2>1 DEF PresentationInv, StopsFit, StopFits, FacadeTyped
<1>10. ActiveFits(v)
  BY <1>2, <1>4, <1>5, ReadsAreNumbers DEF PresentationInv, ActiveFits, FacadeTyped, Reads
<1>11. ContinuationFits(v)
  <2>1. w.facade.continuation # 0 => v.reads[w.facade.continuation] = w.reads[w.facade.continuation]
    BY <1>5, ReadsAreNumbers DEF PresentationInv, FacadeTyped, Reads, Held
  <2>. QED
    BY <1>2, <2>1 DEF PresentationInv, ContinuationFits
<1>12. IntentsDiffer(v)
  <2>1. \A r \in Reads : v.reads[r].intent \in {0, w.reads[r].intent}
    BY <1>4, <1>5
  <2>2. w.facade.intent \in Nat /\ \A r \in Reads : w.reads[r].intent <= w.facade.intent
    BY DEF PresentationInv, FacadeTyped, IntentsDiffer
  <2>3. \A r \in Reads : v.reads[r].intent <= v.facade.intent
    BY <1>2, <2>1, <2>2
  <2>4. \A r \in Reads :
           /\ v.reads[r].phase \in {"none", "admitted"} => v.reads[r].intent = 0
           /\ v.reads[r].phase = "preferring" => v.reads[r].intent # 0
    BY <1>4, <1>5 DEF PresentationInv, IntentsDiffer
  <2>5. \A q, r \in Reads :
           /\ q # r /\ v.reads[q].phase \in Started /\ v.reads[r].phase \in Started
           /\ v.reads[q].intent = v.reads[r].intent
           => v.reads[r].intent = 0
    BY <1>4, <1>5 DEF PresentationInv, IntentsDiffer
  <2>. QED
    BY <2>3, <2>4, <2>5 DEF IntentsDiffer
<1>13. PresentationInv(v)
  BY <1>2, <1>6, <1>7, <1>9, <1>10, <1>11, <1>12 DEF PresentationInv
<1>. QED
  BY <1>1, <1>13

LEMMA BecomesKeeps ==
    ASSUME NEW w, PresentationInv(w), Becomes(w)
    PROVE  PresentationInv(World)'
<1>1. PICK v : v = [w EXCEPT !.reads = Kept(w)]
  OBVIOUS
<1>2. PresentationInv(v)
  BY <1>1, KeptKeeps
<1>3. v = World'
  BY <1>1 DEF Becomes, World, PresentationInv, IsWorld, HasFields
<1>. QED
  BY <1>2, <1>3

---------------------------------------------------------------------------
(* What actions do to the facade, and to a read.                           *)

\* The presentation, a stop or the continuation is given up, an intent is
\* outdated.
FacadeLess(f, g) ==
    /\ IsFacade(g)
    /\ g.active \in {f.active, 0} /\ g.continuation \in {f.continuation, 0}
    /\ g.stopping \in {f.stopping, NoStop} /\ g.stops \subseteq f.stops
    /\ g.intent \in Nat /\ f.intent <= g.intent

\* The reads keep their phases and intents.
Keeps(w, v) ==
    /\ PresentationInv(v)
    /\ \A q \in Reads : SameIntent(w.reads[q], v.reads[q])

LEMMA KeepsOn ==
    ASSUME NEW u, NEW v, NEW w, Keeps(u, v), Keeps(v, w)
    PROVE  Keeps(u, w)
  BY DEF Keeps, SameIntent

LEMMA MovesKeepsRead ==
    ASSUME NEW w, NEW v, NEW r \in Reads, PresentationInv(w), Moves(w, v, r)
    PROVE  Keeps(w, v)
  BY MovesKeeps DEF Keeps, Moves, SameRead, SameIntent

LEMMA ToldKeepsRead ==
    ASSUME NEW w, NEW v, PresentationInv(w), Told(w, v)
    PROVE  Keeps(w, v)
  BY ToldKeeps DEF Keeps, Told, SameReads, SameRead, SameIntent

LEMMA FacadeKeeps ==
    ASSUME NEW w, NEW g, PresentationInv(w), FacadeLess(w.facade, g)
    PROVE  LET v == [w EXCEPT !.facade = g]
           IN  Keeps(w, v) /\ v.facade = g /\ v.reads = w.reads
<1>1. PICK v : v = [w EXCEPT !.facade = g]
  OBVIOUS
<1>2. IsWorld(v) /\ v.facade = g /\ v.reads = w.reads
  BY <1>1, FacadeChanges DEF PresentationInv, FacadeLess
<1>3. FacadeTyped(w.facade) /\ FacadeTyped(g)
  <2>1. 0 \in 0 .. MaxReads /\ NoStop \in Stop
    BY ReadsAreNumbers DEF NoStop, Stop
  <2>. QED
    BY <2>1 DEF PresentationInv, FacadeLess, FacadeTyped
<1>4. ReadsTyped(v)
  BY <1>2 DEF PresentationInv, ReadsTyped
<1>5. StopsFit(v)
  <2>1. StopFits(v, NoStop)
    BY <1>2, <1>3 DEF StopFits, NoStop, FacadeTyped
  <2>2. ASSUME NEW stop \in Stop, StopFits(w, stop) PROVE StopFits(v, stop)
    <3>1. stop.intent \in Nat
      BY DEF Stop
    <3>. QED
      BY <1>2, <1>3, <2>2, <3>1 DEF StopFits, FacadeLess, FacadeTyped
  <2>. QED
    BY <1>2, <1>3, <2>1, <2>2 DEF PresentationInv, StopsFit, FacadeTyped, FacadeLess
<1>6. ActiveFits(v)
  <2>1. \A q \in Reads : w.reads[q].intent \in Nat /\ w.reads[q].intent <= w.facade.intent
    BY DEF PresentationInv, ReadsTyped, IntentsDiffer
  <2>. QED
    BY <1>2, <1>3, <2>1 DEF PresentationInv, ActiveFits, FacadeLess, FacadeTyped
<1>7. ContinuationFits(v)
  BY <1>2 DEF PresentationInv, ContinuationFits, FacadeLess
<1>8. IntentsDiffer(v)
  <2>1. \A q \in Reads : w.reads[q].intent \in Nat /\ w.reads[q].intent <= w.facade.intent
    BY DEF PresentationInv, ReadsTyped, IntentsDiffer
  <2>2. \A q \in Reads : v.reads[q].intent <= v.facade.intent
    BY <1>2, <1>3, <2>1 DEF FacadeLess, FacadeTyped
  <2>. QED
    BY <1>2, <2>2 DEF PresentationInv, IntentsDiffer
<1>9. Keeps(w, v)
  BY <1>2, <1>3, <1>4, <1>5, <1>6, <1>7, <1>8 DEF PresentationInv, Keeps, SameIntent
<1>. QED
  BY <1>1, <1>2, <1>9

\* What a read may become.
ReadFits(w, r, read) ==
    LET f == w.facade IN
    /\ IsRead(read) /\ read.phase \in Phases /\ read.intent \in Nat /\ read.intent <= f.intent
    /\ w.reads[r].phase \in Past => read.phase \in Past
    /\ f.continuation = r => Lossless(read)
    /\ read.phase \in Past /\ f.active # 0 /\ f.active # r => read.intent # f.intent
    /\ read.phase \in {"none", "admitted"} => read.intent = 0
    /\ read.phase = "preferring" => read.intent # 0
    /\ read.phase \in Started /\ read.intent # 0 =>
           \A q \in Reads : q # r /\ w.reads[q].phase \in Started => w.reads[q].intent # read.intent

LEMMA ReadKeeps ==
    ASSUME NEW w, NEW r \in Reads, NEW read, PresentationInv(w), ReadFits(w, r, read)
    PROVE  LET v == [w EXCEPT !.reads[r] = read]
           IN  /\ PresentationInv(v) /\ v.facade = w.facade /\ v.reads[r] = read
               /\ \A q \in Reads : q # r => v.reads[q] = w.reads[q]
<1>1. PICK v : v = [w EXCEPT !.reads[r] = read]
  OBVIOUS
<1>2. /\ IsWorld(v) /\ v.facade = w.facade /\ v.reads[r] = read
      /\ \A q \in Reads : q # r => v.reads[q] = w.reads[q]
  BY <1>1, ReadChanges DEF PresentationInv, ReadFits
<1>3. ReadsTyped(v) /\ FacadeTyped(v.facade)
  BY <1>2 DEF PresentationInv, ReadsTyped, ReadFits
<1>4. \A q \in Reads : w.reads[q].phase \in Past => v.reads[q].phase \in Past
  BY <1>2 DEF ReadFits
<1>5. StopsFit(v)
  <2>1. \A stop \in Stop : stop.read # 0 => stop.read \in Reads
    BY ReadsAreNumbers DEF Stop, Reads
  <2>. QED
    BY <1>2, <1>4, <2>1 DEF PresentationInv, StopsFit, StopFits, FacadeTyped
<1>6. ActiveFits(v)
  <2>1. w.facade.active # 0 => w.facade.active \in Reads
    BY ReadsAreNumbers DEF PresentationInv, FacadeTyped, Reads
  <2>. QED
    BY <1>2, <1>4, <2>1 DEF PresentationInv, ActiveFits, ReadFits
<1>7. ContinuationFits(v)
  <2>1. w.facade.continuation # 0 => w.facade.continuation \in Reads
    BY ReadsAreNumbers DEF PresentationInv, FacadeTyped, Reads
  <2>. QED
    BY <1>2, <1>4, <2>1 DEF PresentationInv, ContinuationFits, ReadFits, Lossless
<1>8. IntentsDiffer(v)
  <2>1. \A q \in Reads : v.reads[q].intent <= v.facade.intent
    BY <1>2 DEF PresentationInv, IntentsDiffer, ReadFits
  <2>2. \A q \in Reads :
           /\ v.reads[q].phase \in {"none", "admitted"} => v.reads[q].intent = 0
           /\ v.reads[q].phase = "preferring" => v.reads[q].intent # 0
    BY <1>2 DEF PresentationInv, IntentsDiffer, ReadFits
  <2>3. \A p, q \in Reads :
           /\ p # q /\ v.reads[p].phase \in Started /\ v.reads[q].phase \in Started
           /\ v.reads[p].intent = v.reads[q].intent
           => v.reads[q].intent = 0
    BY <1>2 DEF PresentationInv, IntentsDiffer, ReadFits
  <2>. QED
    BY <2>1, <2>2, <2>3 DEF IntentsDiffer
<1>. QED
  BY <1>1, <1>2, <1>3, <1>5, <1>6, <1>7, <1>8 DEF PresentationInv

\* A read that had the presentation goes on with its intent.
LEMMA PastReadFits ==
    ASSUME NEW w, NEW r \in Reads, NEW read, PresentationInv(w), IsRead(read),
           w.reads[r].phase \in Past, read.phase \in Past, read.intent = w.reads[r].intent,
           w.facade.active # r => (Lossless(w.reads[r]) => Lossless(read))
    PROVE  ReadFits(w, r, read)
<1>1. read.phase \in Started /\ w.reads[r].phase \in Started /\ read.phase \in Phases
  BY DEF Started, Phases
<1>2. read.phase \notin {"none", "admitted", "preferring"}
  BY DEF Past
<1>3. w.reads[r].intent \in Nat /\ w.reads[r].intent <= w.facade.intent
  BY DEF PresentationInv, ReadsTyped, IntentsDiffer
<1>4. w.facade.continuation = r => Lossless(read)
  BY ReadsAreNumbers DEF PresentationInv, ContinuationFits, ActiveFits, Lossless
<1>5. w.facade.active # 0 /\ w.facade.active # r => read.intent # w.facade.intent
  BY DEF PresentationInv, ActiveFits
<1>6. read.intent # 0 =>
         \A q \in Reads : q # r /\ w.reads[q].phase \in Started => w.reads[q].intent # read.intent
  BY <1>1 DEF PresentationInv, IntentsDiffer
<1>. QED
  BY <1>1, <1>2, <1>3, <1>4, <1>5, <1>6 DEF ReadFits

LEMMA DiscardKeeps ==
    ASSUME NEW w, NEW r, PresentationInv(w), r = 0 \/ r \in Reads
    PROVE  LET v == ReadDiscarded(w, r)
           IN  Keeps(w, v) /\ v.facade = w.facade
<1>1. PICK v : v = ReadDiscarded(w, r)
  OBVIOUS
<1>2. CASE r = 0
  BY <1>1, <1>2 DEF ReadDiscarded, Keeps, SameIntent
<1>3. CASE r # 0
  <2>1. PICK read : read = Discarded(Silenced(w.reads[r]))
    OBVIOUS
  <2>2. IsRead(w.reads[r]) /\ r \in Reads /\ IsWorld(w)
    BY <1>3 DEF PresentationInv, IsWorld
  <2>3. IsRead(read) /\ SameIntent(w.reads[r], read)
    BY <2>1, <2>2 DEF IsRead, SameIntent, Discarded, Silenced
  <2>4. Lossless(w.reads[r]) => Lossless(read)
    BY <2>1, <2>2 DEF IsRead, Lossless, Discarded, Silenced
  <2>5. v = [w EXCEPT !.reads[r] = read]
    BY <1>1, <1>3, <2>1 DEF ReadDiscarded
  <2>6. Moves(w, v, r)
    BY <2>2, <2>3, <2>4, <2>5, ReadMoves
  <2>7. v.facade = w.facade
    BY <2>2, <2>3, <2>5, ReadChanges
  <2>. QED
    BY <2>2, <2>6, <2>7, <1>1, MovesKeepsRead
<1>. QED
  BY <1>1, <1>2, <1>3

LEMMA StoppingKeeps ==
    ASSUME NEW w, PresentationInv(w)
    PROVE  LET v == StoppingDiscarded(w)
           IN  Keeps(w, v) /\ v.facade = [w.facade EXCEPT !.stopping = NoStop]
<1>1. PICK u : u = ReadDiscarded(w, w.facade.stopping.read)
  OBVIOUS
<1>2. Keeps(w, u) /\ u.facade = w.facade
  <2>1. w.facade.stopping.read = 0 \/ w.facade.stopping.read \in Reads
    BY ReadsAreNumbers DEF PresentationInv, FacadeTyped, Stop, Reads
  <2>. QED
    BY <1>1, <2>1, DiscardKeeps
<1>3. PICK g : g = [w.facade EXCEPT !.stopping = NoStop]
  OBVIOUS
<1>4. FacadeLess(u.facade, g)
  BY <1>2, <1>3 DEF PresentationInv, IsWorld, IsFacade, FacadeLess, FacadeTyped
<1>5. StoppingDiscarded(w) = [u EXCEPT !.facade = g]
  BY <1>1, <1>2, <1>3 DEF StoppingDiscarded
<1>. QED
  BY <1>2, <1>3, <1>4, <1>5, FacadeKeeps, KeepsOn DEF Keeps

---------------------------------------------------------------------------
(* How a read ends.                                                        *)

\* A read that has had the presentation has another phase, and timers.
LEMMA PhaseKeeps ==
    ASSUME NEW w, NEW r \in Reads, NEW read, PresentationInv(w), IsRead(read),
           w.reads[r].phase \in Past, read.phase \in Past, read.intent = w.reads[r].intent,
           read.dropped = w.reads[r].dropped, read.queue = w.reads[r].queue
    PROVE  LET v == [w EXCEPT !.reads[r] = read]
           IN  PresentationInv(v) /\ v.facade = w.facade /\ v.reads[r] = read
<1>1. ReadFits(w, r, read)
  <2>1. Lossless(w.reads[r]) => Lossless(read)
    BY DEF Lossless
  <2>. QED
    BY <2>1, PastReadFits
<1>. QED
  BY <1>1, ReadKeeps

\* The continuation is set when nothing has the presentation: whoever owns
\* the newest intent is the last that had it.
LEMMA FinishedKeeps ==
    ASSUME NEW w, NEW r \in Reads, NEW more, PresentationInv(w),
           w.reads[r].phase \in Past, w.reads[r].queue = <<>>, r # w.facade.active
    PROVE  Keeps(w, Finished(w, r, more))
<1>1. CASE ~(more /\ w.reads[r].dropped = 0 /\ OwnsContinuation(w, r))
  BY <1>1 DEF Finished, Keeps, SameIntent
<1>2. CASE more /\ w.reads[r].dropped = 0 /\ OwnsContinuation(w, r)
  <2>1. PICK g : g = [w.facade EXCEPT !.continuation = r]
    OBVIOUS
  <2>2. PICK v : v = [w EXCEPT !.facade = g]
    OBVIOUS
  <2>3. IsFacade(w.facade) /\ FacadeTyped(w.facade) /\ IsWorld(w)
    BY DEF PresentationInv, IsWorld
  <2>4. IsFacade(g) /\ g = [w.facade EXCEPT !.continuation = r] /\ FacadeTyped(g)
    BY <2>1, <2>3 DEF IsFacade, FacadeTyped, Reads
  <2>5. IsWorld(v) /\ v.facade = g /\ v.reads = w.reads
    BY <2>2, <2>3, <2>4, FacadeChanges
  <2>6. /\ g.active = w.facade.active /\ g.stopping = w.facade.stopping /\ g.stops = w.facade.stops
        /\ g.intent = w.facade.intent /\ g.continuation = r
    BY <2>1, <2>3 DEF IsFacade
  <2>7. w.facade.active = 0
    <3>1. SUFFICES ASSUME w.facade.active # 0 PROVE FALSE
      OBVIOUS
    <3>2. w.facade.stopping = NoStop /\ w.reads[r].intent # w.facade.intent
      BY <3>1 DEF PresentationInv, ActiveFits
    <3>3. w.facade.stopping.read # r
      BY <3>2, ReadsAreNumbers DEF NoStop
    <3>. QED
      BY <1>2, <3>2, <3>3 DEF OwnsContinuation
  <2>8. PresentationInv(v)
    BY <1>2, <2>4, <2>5, <2>6, <2>7 DEF PresentationInv, ReadsTyped, StopsFit, StopFits, ActiveFits,
                                         ContinuationFits, IntentsDiffer
  <2>9. Finished(w, r, more) = v
    BY <1>2, <2>1, <2>2 DEF Finished
  <2>. QED
    BY <2>5, <2>8, <2>9 DEF Keeps, SameIntent
<1>. QED
  BY <1>1, <1>2

\* The presentation is given up.
LEMMA LeftKeeps ==
    ASSUME NEW w, PresentationInv(w)
    PROVE  LET v == [w EXCEPT !.facade.active = 0]
           IN  Keeps(w, v) /\ v.facade = [w.facade EXCEPT !.active = 0] /\ v.reads = w.reads
<1>1. PICK g : g = [w.facade EXCEPT !.active = 0]
  OBVIOUS
<1>2. FacadeLess(w.facade, g)
  BY <1>1 DEF PresentationInv, IsWorld, IsFacade, FacadeLess, FacadeTyped
<1>3. [w EXCEPT !.facade.active = 0] = [w EXCEPT !.facade = g]
  BY <1>1
<1>. QED
  BY <1>1, <1>2, <1>3, FacadeKeeps

LEMMA StateKeeps ==
    ASSUME NEW w, NEW r \in Reads, NEW state, PresentationInv(w)
    PROVE  Keeps(w, StatePublished(w, r, state))
  BY InvUsable, StateTold, ToldKeepsRead

LEMMA WholeKeeps ==
    ASSUME NEW w, NEW r \in Reads, PresentationInv(w)
    PROVE  Keeps(w, FlushedWhole(w, r)) /\ FlushedWhole(w, r).reads[r].queue = <<>>
  BY InvUsable, WholeMoves, MovesKeepsRead

LEMMA CompletingKeeps ==
    ASSUME NEW w, NEW r \in Reads, NEW more, PresentationInv(w), w.reads[r].phase \in Past
    PROVE  Keeps(w, Completing(w, r, more))
<1>1. PICK flushed : flushed = FlushedWhole(w, r)
  OBVIOUS
<1>2. Keeps(w, flushed) /\ PresentationInv(flushed) /\ flushed.reads[r].queue = <<>>
  BY <1>1, WholeKeeps DEF Keeps
<1>3. PICK left : left = [flushed EXCEPT !.facade.active = 0]
  OBVIOUS
<1>4. Keeps(flushed, left) /\ left.facade = [flushed.facade EXCEPT !.active = 0] /\ left.reads = flushed.reads
  BY <1>2, <1>3, LeftKeeps
<1>5. Keeps(w, left) /\ PresentationInv(left)
  BY <1>2, <1>4, KeepsOn DEF Keeps
<1>6. IsFacade(flushed.facade) /\ IsFacade(left.facade)
  BY <1>2, <1>5 DEF PresentationInv, IsWorld
<1>7. left.facade.active = 0
  BY <1>4, <1>6 DEF IsFacade
<1>8. left.reads[r].phase \in Past /\ left.reads[r].queue = <<>> /\ r # left.facade.active
  BY <1>2, <1>4, <1>5, <1>7, ReadsAreNumbers DEF Keeps, SameIntent
<1>9. PICK done : done = Finished(left, r, more)
  OBVIOUS
<1>10. Keeps(w, done) /\ PresentationInv(done)
  BY <1>5, <1>8, <1>9, FinishedKeeps, KeepsOn DEF Keeps
<1>11. [Finished(flushed, r, more) EXCEPT !.facade.active = 0] = done
  <2>1. OwnsContinuation(left, r) <=> OwnsContinuation(flushed, r)
    BY <1>4, <1>6 DEF OwnsContinuation, IsFacade
  <2>2. left.reads[r].dropped = flushed.reads[r].dropped
    BY <1>4
  <2>3. HasFields(flushed)
    BY <1>2 DEF PresentationInv, IsWorld
  <2>4. [[flushed EXCEPT !.facade.continuation = r] EXCEPT !.facade.active = 0]
           = [left EXCEPT !.facade.continuation = r]
    <3>1. PICK g : g = [left.facade EXCEPT !.continuation = r]
      OBVIOUS
    <3>2. g = [[flushed.facade EXCEPT !.continuation = r] EXCEPT !.active = 0]
      BY <1>4, <1>6, <3>1 DEF IsFacade
    <3>3. [left EXCEPT !.facade = g] = [flushed EXCEPT !.facade = g]
      BY <1>3, <2>3 DEF HasFields
    <3>4. [left EXCEPT !.facade.continuation = r] = [left EXCEPT !.facade = g]
      BY <3>1
    <3>5. [[flushed EXCEPT !.facade.continuation = r] EXCEPT !.facade.active = 0]
             = [flushed EXCEPT !.facade = g]
      BY <2>3, <3>2 DEF HasFields
    <3>. QED
      BY <3>3, <3>4, <3>5
  <2>. QED
    BY <1>3, <1>9, <2>1, <2>2, <2>4 DEF Finished
<1>12. PICK state : Completing(w, r, more) = StatePublished(done, r, state)
  BY <1>1, <1>11 DEF Completing
<1>. QED
  BY <1>10, <1>12, StateKeeps, KeepsOn

LEMMA FailingKeeps ==
    ASSUME NEW w, NEW r \in Reads, PresentationInv(w), w.reads[r].phase \in Past
    PROVE  Keeps(w, Failing(w, r))
<1>1. PICK u : u = FlushedWhole(w, r)
  OBVIOUS
<1>2. Keeps(w, u) /\ PresentationInv(u)
  BY <1>1, WholeKeeps DEF Keeps
<1>3. PICK stop : stop = [intent |-> u.facade.intent, read |-> r, by |-> "failure"]
  OBVIOUS
<1>4. PICK g : g = [u.facade EXCEPT !.active = 0, !.stopping = stop]
  OBVIOUS
<1>5. PICK v : v = [u EXCEPT !.facade = g]
  OBVIOUS
<1>6. IsFacade(u.facade) /\ FacadeTyped(u.facade) /\ IsWorld(u)
  BY <1>2 DEF PresentationInv, IsWorld
<1>7. IsFacade(g)
  BY <1>4, <1>6 DEF IsFacade
<1>8. /\ g.active = 0 /\ g.stopping = stop /\ g.stops = u.facade.stops /\ g.intent = u.facade.intent
      /\ g.continuation = u.facade.continuation
  BY <1>4, <1>6 DEF IsFacade
<1>9. stop \in Stop
  BY <1>3, <1>6 DEF Stop, FacadeTyped, Reads
<1>10. FacadeTyped(g)
  BY <1>6, <1>8, <1>9, ReadsAreNumbers DEF FacadeTyped
<1>11. IsWorld(v) /\ v.facade = g /\ v.reads = u.reads
  BY <1>5, <1>6, <1>7, FacadeChanges
<1>12. u.reads[r].phase \in Past
  BY <1>2 DEF Keeps, SameIntent
<1>13. StopsFit(v)
  <2>1. StopFits(v, stop)
    BY <1>3, <1>6, <1>8, <1>11, <1>12, ReadsAreNumbers DEF StopFits, FacadeTyped
  <2>2. ASSUME NEW s \in u.facade.stops PROVE StopFits(v, s)
    BY <1>2, <1>8, <1>11 DEF PresentationInv, StopsFit, StopFits
  <2>. QED
    BY <1>8, <1>11, <2>1, <2>2 DEF StopsFit
<1>14. PresentationInv(v)
  BY <1>2, <1>8, <1>10, <1>11, <1>13
     DEF PresentationInv, ReadsTyped, ActiveFits, ContinuationFits, IntentsDiffer
<1>15. Keeps(w, v)
  BY <1>2, <1>11, <1>14 DEF Keeps, SameIntent
<1>16. Failing(w, r) = StatePublished(v, r, "failed")
  BY <1>1, <1>3, <1>4, <1>5 DEF Failing
<1>. QED
  BY <1>14, <1>15, <1>16, StateKeeps, KeepsOn

LEMMA TerminatedKeeps ==
    ASSUME NEW w, NEW r \in Reads, NEW terminal, NEW more, PresentationInv(w), w.reads[r].phase \in Past
    PROVE  Keeps(w, Terminated(w, r, terminal, more))
<1>1. Terminated(w, r, terminal, more) \in {w, Completing(w, r, more), Failing(w, r)}
  BY DEF Terminated
<1>2. Keeps(w, w)
  BY DEF Keeps, SameIntent
<1>. QED
  BY <1>1, <1>2, CompletingKeeps, FailingKeeps

LEMMA ReadFailedKeeps ==
    ASSUME NEW w, NEW r \in Reads, PresentationInv(w), w.reads[r].phase \in Past
    PROVE  PresentationInv(ReadFailed(w, r))
<1>1. PICK read : read = Ended(w.reads[r])
  OBVIOUS
<1>2. PICK over : over = [w EXCEPT !.reads[r] = read]
  OBVIOUS
<1>3. IsRead(w.reads[r]) /\ IsWorld(w)
  BY DEF PresentationInv, IsWorld
<1>4. /\ IsRead(read) /\ read.phase = "over" /\ read.intent = w.reads[r].intent
      /\ read.dropped = w.reads[r].dropped /\ read.queue = w.reads[r].queue
  BY <1>1, <1>3 DEF IsRead, Ended
<1>5. PresentationInv(over) /\ over.facade = w.facade /\ over.reads[r] = read /\ IsWorld(over)
  <2>1. read.phase \in Past
    BY <1>4 DEF Past
  <2>. QED
    BY <1>2, <1>4, <2>1, PhaseKeeps DEF PresentationInv
<1>6. PICK quiet : quiet = ReadDiscarded(over, r)
  OBVIOUS
<1>7. PresentationInv(quiet) /\ quiet.facade = over.facade
  BY <1>5, <1>6, DiscardKeeps DEF Keeps
<1>8. PICK left : left = [quiet EXCEPT !.facade.active = 0]
  OBVIOUS
<1>9. PresentationInv(left)
  BY <1>7, <1>8, LeftKeeps DEF Keeps
<1>10. quiet = [over EXCEPT !.reads[r] = Discarded(Silenced(@))]
  BY <1>6, ReadsAreNumbers DEF ReadDiscarded
<1>11. ReadFailed(w, r) \in {over, StatePublished(left, r, "failed")}
  BY <1>1, <1>2, <1>8, <1>10 DEF ReadFailed
<1>12. PresentationInv(StatePublished(left, r, "failed"))
  BY <1>9, StateKeeps DEF Keeps
<1>. QED
  BY <1>5, <1>11, <1>12

\* The end of a stop's operation, told to whoever waits for it.
LEMMA ReadStoppedKeeps ==
    ASSUME NEW w, NEW r \in Reads, NEW confirmed, NEW more, PresentationInv(w),
           w.reads[r].phase \in Past, r # w.facade.active
    PROVE  Keeps(w, ReadStopped(w, r, confirmed, more))
<1>1. PICK flushed : flushed = FlushedWhole(w, r)
  OBVIOUS
<1>2. Keeps(w, flushed) /\ PresentationInv(flushed) /\ flushed.reads[r].queue = <<>>
  BY <1>1, WholeKeeps DEF Keeps
<1>3. flushed.reads[r].phase \in Past
  BY <1>2 DEF Keeps, SameIntent
<1>4. r # flushed.facade.active
  <2>1. FacadeTold(w.facade, flushed.facade)
    BY <1>1, InvUsable, WholeMoves DEF Moves
  <2>. QED
    BY <2>1, ReadsAreNumbers DEF FacadeTold, SameOwner, StopJoined, StopBegun
<1>5. PICK done, state : /\ done = Finished(flushed, r, confirmed /\ more)
                         /\ ReadStopped(w, r, confirmed, more) = StatePublished(done, r, state)
  BY <1>1 DEF ReadStopped
<1>6. Keeps(w, done) /\ PresentationInv(done)
  <2>1. PICK known : known = (confirmed /\ more)
    OBVIOUS
  <2>2. Keeps(flushed, Finished(flushed, r, known))
    BY <1>2, <1>3, <1>4, FinishedKeeps
  <2>. QED
    BY <1>2, <1>5, <2>1, <2>2, KeepsOn DEF Keeps
<1>. QED
  BY <1>5, <1>6, StateKeeps, KeepsOn

LEMMA StopPublishedKeeps ==
    ASSUME NEW w, NEW stop \in Stop, NEW confirmed, NEW more, PresentationInv(w), StopFits(w, stop)
    PROVE  PresentationInv(StopPublished(w, stop, confirmed, more))
<1>1. PICK nothing : nothing = [NoEvent EXCEPT !.kind = "state", !.state = "stopped"]
  OBVIOUS
<1>2. PICK told, ended : told = Publish(w, nothing) /\ ended = ReadStopped(w, stop.read, confirmed, more)
  OBVIOUS
<1>3. PresentationInv(told)
  BY <1>2, InvUsable, PublishTold, ToldKeeps
<1>4. stop.read # 0 => PresentationInv(ended)
  <2>1. stop.read # 0 => stop.read \in Reads
    BY ReadsAreNumbers DEF Stop, Reads
  <2>. QED
    BY <1>2, <2>1, ReadStoppedKeeps DEF StopFits, Keeps
<1>5. ASSUME NEW u, PresentationInv(u) PROVE PresentationInv(StopReleased(u, stop))
  <2>1. PICK g : g = [u.facade EXCEPT !.stopping = NoStop]
    OBVIOUS
  <2>2. FacadeLess(u.facade, g)
    BY <1>5, <2>1 DEF PresentationInv, IsWorld, IsFacade, FacadeLess, FacadeTyped
  <2>3. [u EXCEPT !.facade.stopping = NoStop] = [u EXCEPT !.facade = g]
    BY <2>1
  <2>4. PresentationInv([u EXCEPT !.facade = g])
    BY <1>5, <2>2, FacadeKeeps DEF Keeps
  <2>. QED
    BY <1>5, <2>3, <2>4 DEF StopReleased
<1>6. \/ StopPublished(w, stop, confirmed, more) \in {w, StopReleased(told, stop)}
      \/ stop.read # 0 /\ StopPublished(w, stop, confirmed, more) \in {ended, StopReleased(ended, stop)}
  BY <1>1, <1>2 DEF StopPublished
<1>. QED
  BY <1>3, <1>4, <1>5, <1>6

LEMMA CommandStoppedKeeps ==
    ASSUME NEW w, NEW stop, PresentationInv(w)
    PROVE  PresentationInv(CommandStopped(w, stop))
<1>1. PICK v : v = [w EXCEPT !.stopCommand = NoCommand]
  OBVIOUS
<1>2. PresentationInv(v)
  <2>1. Told(w, v)
    BY <1>1, InvUsable, FieldsQuiet, QuietTold
  <2>. QED
    BY <2>1, ToldKeeps
<1>3. PresentationInv(Noted(v))
  BY <1>2, InvUsable, NotedTold, ToldKeeps
<1>4. CommandStopped(w, stop) \in {w, Noted(v)}
  BY <1>1 DEF CommandStopped
<1>. QED
  BY <1>3, <1>4

LEMMA RecoveredKeeps ==
    ASSUME NEW w, NEW stop, NEW confirmed, PresentationInv(w)
    PROVE  PresentationInv(Recovered(w, stop, confirmed))
<1>1. PICK noted : noted = Noted(w)
  OBVIOUS
<1>2. PresentationInv(noted) /\ IsWorld(noted)
  BY <1>1, InvUsable, NotedTold, ToldKeeps
<1>3. PICK v : v = Recovered(w, stop, confirmed)
  OBVIOUS
<1>4. v = w \/ v = [[noted EXCEPT !.route = v.route] EXCEPT !.toRenderer = v.toRenderer]
  BY <1>1, <1>2, <1>3 DEF Recovered, IsWorld, HasFields
<1>5. CASE v = w
  BY <1>3, <1>5
<1>6. CASE v = [[noted EXCEPT !.route = v.route] EXCEPT !.toRenderer = v.toRenderer]
  <2>1. PICK x, y : x = v.route /\ y = v.toRenderer
    OBVIOUS
  <2>2. PICK u : u = [noted EXCEPT !.route = x]
    OBVIOUS
  <2>3. PresentationInv(u) /\ IsWorld(u)
    <3>1. Told(noted, u)
      BY <1>2, <2>2, FieldsQuiet, QuietTold
    <3>. QED
      BY <1>2, <3>1, ToldKeeps, InvUsable
  <2>4. Told(u, [u EXCEPT !.toRenderer = y])
    BY <2>3, FieldsQuiet, QuietTold
  <2>5. v = [u EXCEPT !.toRenderer = y]
    BY <1>6, <2>1, <2>2
  <2>. QED
    BY <1>3, <2>3, <2>4, <2>5, ToldKeeps
<1>. QED
  BY <1>4, <1>5, <1>6

---------------------------------------------------------------------------
(* How a read begins.                                                      *)

\* The read has the newest intent, before any other.
LEMMA BegunKeeps ==
    ASSUME NEW w, NEW r \in Reads, PresentationInv(w), w.reads[r].phase \in {"admitted", "resuming"}
    PROVE  PresentationInv(ReadBegun([w EXCEPT !.facade.continuation = 0], r))
<1>1. PICK g : g = [w.facade EXCEPT !.continuation = 0, !.intent = @ + 1]
  OBVIOUS
<1>2. PICK u : u = [w EXCEPT !.facade = g]
  OBVIOUS
<1>3. IsFacade(w.facade) /\ FacadeTyped(w.facade)
  BY DEF PresentationInv, IsWorld
<1>4. FacadeLess(w.facade, g) /\ g.intent = w.facade.intent + 1 /\ g.continuation = 0
  <2>1. /\ IsFacade(g) /\ g.intent = w.facade.intent + 1 /\ g.continuation = 0
        /\ g.active = w.facade.active /\ g.stopping = w.facade.stopping /\ g.stops = w.facade.stops
    BY <1>1, <1>3 DEF IsFacade
  <2>2. w.facade.intent \in Nat
    BY <1>3 DEF FacadeTyped
  <2>3. g.intent \in Nat /\ w.facade.intent <= g.intent
    BY <2>1, <2>2
  <2>. QED
    BY <2>1, <2>3 DEF FacadeLess
<1>5. PresentationInv(u) /\ u.facade = g /\ u.reads = w.reads
  BY <1>2, <1>4, FacadeKeeps DEF Keeps
<1>6. PICK begun : begun = StoppingDiscarded(u)
  OBVIOUS
<1>7. Keeps(u, begun) /\ PresentationInv(begun) /\ begun.facade = [g EXCEPT !.stopping = NoStop]
  BY <1>5, <1>6, StoppingKeeps DEF Keeps
<1>8. begun.facade.intent = w.facade.intent + 1 /\ begun.facade.continuation = 0
  BY <1>4, <1>7 DEF FacadeLess, IsFacade
<1>9. PICK read : read = [begun.reads[r] EXCEPT !.phase = "preferring", !.intent = begun.facade.intent]
  OBVIOUS
<1>10. \A q \in Reads : begun.reads[q].phase = w.reads[q].phase /\ begun.reads[q].intent = w.reads[q].intent
  BY <1>5, <1>7 DEF Keeps, SameIntent
<1>11. ReadFits(begun, r, read)
  <2>1. IsRead(read) /\ read.phase = "preferring" /\ read.intent = w.facade.intent + 1
    <3>1. IsRead(begun.reads[r])
      BY <1>7 DEF PresentationInv, IsWorld
    <3>. QED
      BY <1>8, <1>9, <3>1 DEF IsRead
  <2>2. w.facade.intent \in Nat
    BY <1>3 DEF FacadeTyped
  <2>3. \A q \in Reads : w.reads[q].intent \in Nat /\ w.reads[q].intent <= w.facade.intent
    BY DEF PresentationInv, ReadsTyped, IntentsDiffer
  <2>4. \A q \in Reads : begun.reads[q].intent # read.intent
    BY <1>10, <2>1, <2>2, <2>3
  <2>5. begun.reads[r].phase \notin Past
    BY <1>10 DEF Past
  <2>6. read.phase \in Phases /\ read.phase \notin Past /\ read.phase \notin {"none", "admitted"}
    BY <2>1 DEF Phases, Started, Past
  <2>7. read.intent \in Nat /\ read.intent <= begun.facade.intent /\ read.intent # 0
    BY <1>8, <2>1, <2>2
  <2>8. begun.facade.continuation # r
    BY <1>8, ReadsAreNumbers
  <2>. QED
    BY <2>1, <2>4, <2>5, <2>6, <2>7, <2>8 DEF ReadFits
<1>12. PresentationInv([begun EXCEPT !.reads[r] = read])
  BY <1>7, <1>11, ReadKeeps
<1>13. [begun EXCEPT !.reads[r].phase = "preferring", !.reads[r].intent = begun.facade.intent]
          = [begun EXCEPT !.reads[r] = read]
  BY <1>7, <1>9 DEF PresentationInv, IsWorld, HasFields
<1>14. [[w EXCEPT !.facade.continuation = 0] EXCEPT !.facade.intent = @ + 1] = u
  BY <1>1, <1>2, <1>3 DEF PresentationInv, IsWorld, HasFields, IsFacade
<1>. QED
  BY <1>6, <1>12, <1>13, <1>14 DEF ReadBegun

\* A read that never had the presentation is over, and nobody holds it.
LEMMA SupersededKeeps ==
    ASSUME NEW w, NEW r \in Reads, PresentationInv(w), w.reads[r].phase \notin Past,
           Becomes([w EXCEPT !.reads[r] = Ended(@)])
    PROVE  PresentationInv(World)'
<1>1. PICK read, none : read = Ended(w.reads[r]) /\ none = [NoRead EXCEPT !.phase = "over"]
  OBVIOUS
<1>2. PICK v, u : v = [w EXCEPT !.reads[r] = read] /\ u = [w EXCEPT !.reads[r] = none]
  OBVIOUS
<1>3. IsRead(read) /\ read.phase = "over" /\ IsRead(none) /\ none.phase = "over" /\ none.intent = 0
  <2>1. IsRead(w.reads[r])
    BY DEF PresentationInv, IsWorld
  <2>. QED
    BY <1>1, <2>1 DEF IsRead, Ended, NoRead
<1>4. ReadFits(w, r, none)
  <2>1. \/ w.facade.continuation = 0
        \/ w.facade.continuation \in Reads /\ w.reads[w.facade.continuation].phase \in Past
    BY ReadsAreNumbers DEF PresentationInv, ContinuationFits, FacadeTyped, Reads
  <2>2. w.facade.continuation # r
    BY <2>1, ReadsAreNumbers
  <2>3. w.facade.active # 0 => w.facade.intent # 0
    BY DEF PresentationInv, ActiveFits
  <2>4. none.phase \in Phases /\ none.phase \in Past /\ none.phase \notin {"none", "admitted", "preferring"}
    BY <1>3 DEF Phases, Started, Past
  <2>5. w.facade.intent \in Nat /\ 0 <= w.facade.intent
    BY DEF PresentationInv, FacadeTyped
  <2>. QED
    BY <1>3, <2>2, <2>3, <2>4, <2>5 DEF ReadFits
<1>5. /\ PresentationInv(u) /\ u.facade = w.facade /\ u.reads[r] = none
      /\ \A q \in Reads : q # r => u.reads[q] = w.reads[q]
  BY <1>2, <1>4, ReadKeeps
<1>6. /\ IsWorld(v) /\ v.facade = w.facade /\ v.reads[r] = read
      /\ \A q \in Reads : q # r => v.reads[q] = w.reads[q]
  BY <1>2, <1>3, ReadChanges DEF PresentationInv
<1>7. ~Held(v, r) /\ ~Held(u, r)
  <2>1. \A q \in {w.facade.active, w.facade.stopping.read, w.facade.continuation} :
           q # 0 => q \in Reads /\ w.reads[q].phase \in Past
    BY ReadsAreNumbers, SMTT(20) DEF PresentationInv, FacadeTyped, Reads, Stop, ActiveFits, StopsFit, StopFits,
                           ContinuationFits
  <2>2. r \notin {w.facade.active, w.facade.stopping.read, w.facade.continuation}
    BY <2>1, ReadsAreNumbers
  <2>3. \A stop \in w.facade.stops : stop.read # r
    BY ReadsAreNumbers DEF PresentationInv, StopsFit, StopFits
  <2>. QED
    BY <1>3, <1>5, <1>6, <2>2, <2>3 DEF Held
<1>8. \A q \in Reads : q # r => (Held(v, q) <=> Held(u, q))
  BY <1>5, <1>6 DEF Held
<1>9. Kept(v) = Kept(u)
  BY <1>5, <1>6, <1>7, <1>8 DEF Kept
<1>10. /\ v.streams = u.streams /\ v.clients = u.clients /\ v.route = u.route
       /\ v.toRenderer = u.toRenderer /\ v.toHost = u.toHost /\ v.listening = u.listening
       /\ v.shown = u.shown /\ v.stopCommand = u.stopCommand /\ v.bounds = u.bounds
  BY <1>2 DEF PresentationInv, IsWorld, HasFields
<1>11. Becomes(v)
  <2>1. [w EXCEPT !.reads[r] = Ended(@)] = v
    BY <1>1, <1>2
  <2>. QED
    BY <2>1
<1>12. Becomes(u)
  BY <1>5, <1>6, <1>9, <1>10, <1>11 DEF Becomes
<1>. QED
  BY <1>5, <1>12, BecomesKeeps

---------------------------------------------------------------------------
(* The actions of the renderers and of the clients.                        *)

LEMMA FieldsTold ==
    ASSUME NEW w, NEW v, IsWorld(w), HasFields(v), v.reads = w.reads, v.facade = w.facade
    PROVE  Told(w, v)
  BY QuietTold DEF Quiet, IsWorld

LEMMA TellKeeps ==
    ASSUME NEW w, NEW v, PresentationInv(w), Told(w, v), Becomes(v)
    PROVE  PresentationInv(World)'
  BY ToldKeeps, BecomesKeeps

LEMMA TurnedTold ==
    ASSUME PresentationInv(World)
    PROVE  Told(World, Turned) /\ PresentationInv(Turned) /\ Usable(Turned) /\ IsWorld(Turned)
<1>1. PICK w, t : w = World /\ t = Turned
  OBVIOUS
<1>2. PresentationInv(w) /\ IsWorld(w) /\ HasFields(w)
  BY <1>1 DEF PresentationInv, IsWorld
<1>3. t = [w EXCEPT !.bounds.turns = @ - 1]
  BY <1>1 DEF Turned
<1>4. HasFields(t) /\ t.reads = w.reads /\ t.facade = w.facade
  BY <1>2, <1>3 DEF HasFields
<1>5. Told(w, t)
  BY <1>2, <1>4, FieldsTold
<1>. QED
  BY <1>1, <1>2, <1>5, ToldKeeps, InvUsable

LEMMA SubscribedTold ==
    ASSUME NEW w, Usable(w)
    PROVE  Told(w, Subscribed(w))
<1>1. PICK closed : closed = DeliveryClosed(w, Desktop)
  OBVIOUS
<1>2. Told(w, closed) /\ IsWorld(closed)
  BY <1>1, ClosedTold DEF Told
<1>3. PICK begun : begun = [closed EXCEPT !.clients[Desktop] = [NoClient EXCEPT !.open = TRUE],
                                          !.route.subscribed = TRUE, !.route.recovery = "none"]
  OBVIOUS
<1>4. HasFields(begun) /\ begun.reads = closed.reads /\ begun.facade = closed.facade
  BY <1>2, <1>3 DEF IsWorld, HasFields
<1>5. Told(w, begun) /\ Usable(begun)
  BY <1>2, <1>4, FieldsTold, ToldOn, ToldUsable
<1>6. Subscribed(w) = Noted(begun)
  BY <1>1, <1>3 DEF Subscribed
<1>. QED
  BY <1>5, <1>6, NotedTold, ToldOn

LEMMA RendererKeeps ==
    ASSUME PresentationInv(World), RendererNext
    PROVE  PresentationInv(World)'
<1>1. PICK w, t : w = World /\ t = Turned
  OBVIOUS
<1>2. PresentationInv(w) /\ Usable(w) /\ IsWorld(w) /\ HasFields(w)
  BY <1>1, InvUsable DEF IsWorld
<1>3. Told(w, t) /\ Usable(t) /\ IsWorld(t) /\ HasFields(t)
  BY <1>1, TurnedTold DEF IsWorld
<1>4. CASE Listen
  <2>1. PICK v : Becomes(v) /\ v = [w EXCEPT !.listening = TRUE, !.toHost = Append(@, Subscription)]
    BY <1>1, <1>4 DEF Listen
  <2>2. HasFields(v) /\ v.reads = w.reads /\ v.facade = w.facade
    BY <1>2, <2>1 DEF HasFields
  <2>. QED
    BY <1>2, <2>1, <2>2, FieldsTold, TellKeeps
<1>5. CASE Leave
  <2>1. PICK v : Becomes(v) /\ v = [t EXCEPT !.listening = FALSE, !.shown[Desktop] = NothingShown]
    BY <1>1, <1>5 DEF Leave
  <2>2. HasFields(v) /\ v.reads = t.reads /\ v.facade = t.facade
    BY <1>3, <2>1 DEF HasFields
  <2>3. Told(w, v)
    BY <1>2, <1>3, <2>2, FieldsTold, ToldOn
  <2>. QED
    BY <1>2, <2>1, <2>3, TellKeeps
<1>6. CASE Receive
  <2>1. PICK event : event = Head(toRenderer)
    OBVIOUS
  <2>2. PICK rest : rest = [w EXCEPT !.toRenderer = Tail(@)]
    OBVIOUS
  <2>3. PICK v : /\ Becomes(v)
                 /\ v \in {rest, [rest EXCEPT !.shown[Desktop] = Shown(@, event),
                                              !.toHost = Append(@, event.seq)]}
    BY <1>1, <1>6, <2>1, <2>2 DEF Receive
  <2>4. HasFields(rest) /\ rest.reads = w.reads /\ rest.facade = w.facade
    BY <1>2, <2>2 DEF HasFields
  <2>5. HasFields(v) /\ v.reads = w.reads /\ v.facade = w.facade
    BY <2>3, <2>4 DEF HasFields
  <2>. QED
    BY <1>2, <2>3, <2>5, FieldsTold, TellKeeps
<1>7. PICK u : u = [w EXCEPT !.toHost = Tail(@)]
  OBVIOUS
<1>8. Told(w, u) /\ Usable(u)
  <2>1. HasFields(u) /\ u.reads = w.reads /\ u.facade = w.facade
    BY <1>2, <1>7 DEF HasFields
  <2>. QED
    BY <1>2, <2>1, FieldsTold, ToldUsable
<1>9. CASE AcknowledgementArrives
  <2>1. PICK sequence : sequence = Head(toHost)
    OBVIOUS
  <2>2. PICK v : Becomes(v) /\ v = Acknowledged(u, sequence)
    BY <1>1, <1>7, <1>9, <2>1 DEF AcknowledgementArrives
  <2>3. Told(w, v)
    BY <1>2, <1>8, <2>2, AcknowledgedTold, ToldOn
  <2>. QED
    BY <1>2, <2>2, <2>3, TellKeeps
<1>10. CASE SubscriptionArrives
  <2>1. PICK s, nothing : s = Subscribed(u) /\ nothing = [NothingShown EXCEPT !.since = facade.sequence]
    OBVIOUS
  <2>2. PICK v : /\ Becomes(v)
                 /\ v \in {[u EXCEPT !.listening = FALSE], [s EXCEPT !.shown[Desktop] = nothing]}
    BY <1>1, <1>7, <1>10, <2>1 DEF SubscriptionArrives
  <2>3. Told(w, s) /\ IsWorld(s)
    BY <1>2, <1>8, <2>1, SubscribedTold, ToldOn DEF Told
  <2>4. CASE v = [u EXCEPT !.listening = FALSE]
    <3>1. Told(u, v)
      BY <1>8, <2>4, FieldsQuiet, QuietTold DEF Usable
    <3>. QED
      BY <1>2, <1>8, <2>2, <3>1, ToldOn, TellKeeps
  <2>5. CASE v = [s EXCEPT !.shown[Desktop] = nothing]
    <3>1. HasFields(v) /\ v.reads = s.reads /\ v.facade = s.facade
      BY <2>3, <2>5 DEF IsWorld, HasFields
    <3>2. Told(w, v)
      BY <1>2, <2>3, <3>1, FieldsTold, ToldOn
    <3>. QED
      BY <1>2, <2>2, <3>2, TellKeeps
  <2>. QED
    BY <2>2, <2>4, <2>5
<1>11. CASE AcknowledgementTimesOut
  <2>1. PICK v : Becomes(v) /\ v \in {DeliveryFailed(w), DeliveryFailed(t)}
    BY <1>1, <1>11 DEF AcknowledgementTimesOut
  <2>2. Told(w, v)
    BY <1>2, <1>3, <2>1, FailedTold, ToldOn
  <2>. QED
    BY <1>2, <2>1, <2>2, TellKeeps
<1>. QED
  BY <1>4, <1>5, <1>6, <1>9, <1>10, <1>11 DEF RendererNext

LEMMA ClientKeeps ==
    ASSUME PresentationInv(World), ClientNext
    PROVE  PresentationInv(World)'
<1>1. PICK w, t : w = World /\ t = Turned
  OBVIOUS
<1>2. PresentationInv(w) /\ Usable(w) /\ IsWorld(w) /\ HasFields(w)
  BY <1>1, InvUsable DEF IsWorld
<1>3. Told(w, t) /\ Usable(t) /\ IsWorld(t) /\ HasFields(t)
  BY <1>1, TurnedTold DEF IsWorld
<1>4. PICK c \in Clients :
         OpenEvents(c) \/ SocketFills(c) \/ WriteCompletes(c) \/ SocketDrains(c) \/ WriteTimesOut(c)
         \/ PeerLeaves(c)
  BY DEF ClientNext
<1>5. CASE OpenEvents(c)
  <2>1. PICK u : u = [w EXCEPT !.clients[c].open = TRUE]
    OBVIOUS
  <2>2. PICK v : Becomes(v) /\ v = Written(u, c, "comment")
    BY <1>1, <1>5, <2>1 DEF OpenEvents
  <2>3. HasFields(u) /\ u.reads = w.reads /\ u.facade = w.facade
    BY <1>2, <2>1 DEF HasFields
  <2>4. Told(w, u) /\ IsWorld(u)
    BY <1>2, <2>3, FieldsTold DEF Told
  <2>5. Told(w, v)
    BY <1>2, <2>2, <2>4, WrittenTold, ToldOn
  <2>. QED
    BY <1>2, <2>2, <2>5, TellKeeps
<1>6. CASE SocketFills(c)
  <2>1. PICK v : Becomes(v) /\ v = [t EXCEPT !.clients[c].full = TRUE]
    BY <1>1, <1>6 DEF SocketFills
  <2>2. HasFields(v) /\ v.reads = t.reads /\ v.facade = t.facade
    BY <1>3, <2>1 DEF HasFields
  <2>3. Told(w, v)
    BY <1>2, <1>3, <2>2, FieldsTold, ToldOn
  <2>. QED
    BY <1>2, <2>1, <2>3, TellKeeps
<1>7. CASE WriteCompletes(c) \/ SocketDrains(c)
  <2>2. PICK u, v : /\ Becomes(v) /\ v = Pumped(u, c)
                    /\ HasFields(u) /\ u.reads = w.reads /\ u.facade = w.facade
    <3>1. PICK written, drained :
             /\ written = [w EXCEPT !.clients[c].write = "none",
                                    !.clients[c].queue = IF clients[c].write = "event"
                                                         THEN Completed(@) ELSE @]
             /\ drained = [w EXCEPT !.clients[c].blocked = FALSE, !.clients[c].full = FALSE]
      OBVIOUS
    <3>2. HasFields(written) /\ written.reads = w.reads /\ written.facade = w.facade
      BY <1>2, <3>1 DEF HasFields
    <3>3. HasFields(drained) /\ drained.reads = w.reads /\ drained.facade = w.facade
      BY <1>2, <3>1 DEF HasFields
    <3>4. Becomes(Pumped(written, c)) \/ Becomes(Pumped(drained, c))
      BY <1>1, <1>7, <3>1 DEF WriteCompletes, SocketDrains
    <3>. QED
      BY <3>2, <3>3, <3>4
  <2>3. Told(w, u) /\ Usable(u)
    BY <1>2, <2>2, FieldsTold, ToldUsable
  <2>4. Told(w, v)
    BY <1>2, <2>2, <2>3, PumpedTold, ToldOn
  <2>. QED
    BY <1>2, <2>2, <2>4, TellKeeps
<1>8. CASE WriteTimesOut(c) \/ PeerLeaves(c)
  <2>1. PICK v : Becomes(v) /\ v = StreamClosed(t, c)
    BY <1>1, <1>8 DEF WriteTimesOut, PeerLeaves
  <2>2. Told(w, v)
    BY <1>2, <1>3, <2>1, StreamClosedTold, ToldOn
  <2>. QED
    BY <1>2, <2>1, <2>2, TellKeeps
<1>. QED
  BY <1>4, <1>5, <1>6, <1>7, <1>8

---------------------------------------------------------------------------
(* The commands.                                                           *)

LEMMA InterruptedKeeps ==
    ASSUME NEW w, PresentationInv(w)
    PROVE  Keeps(w, Interrupted(w)) /\ PresentationInv(Interrupted(w))
  BY InvUsable, InterruptedTold, ToldKeepsRead, ToldKeeps, SMTT(20)

LEMMA InvalidatedKeeps ==
    ASSUME NEW w, PresentationInv(w)
    PROVE  PresentationInv(Invalidated(w))
<1>1. PICK g : g = [w.facade EXCEPT !.continuation = 0, !.intent = @ + 1]
  OBVIOUS
<1>2. IsFacade(w.facade) /\ FacadeTyped(w.facade) /\ IsWorld(w)
  BY DEF PresentationInv, IsWorld
<1>3. FacadeLess(w.facade, g)
  <2>1. /\ IsFacade(g) /\ g.intent = w.facade.intent + 1 /\ g.continuation = 0
        /\ g.active = w.facade.active /\ g.stopping = w.facade.stopping /\ g.stops = w.facade.stops
    BY <1>1, <1>2 DEF IsFacade
  <2>2. w.facade.intent \in Nat
    BY <1>2 DEF FacadeTyped
  <2>3. g.intent \in Nat /\ w.facade.intent <= g.intent
    BY <2>1, <2>2
  <2>. QED
    BY <2>1, <2>3 DEF FacadeLess
<1>4. PICK u : u = [w EXCEPT !.facade = g]
  OBVIOUS
<1>5. PresentationInv(u)
  BY <1>3, <1>4, FacadeKeeps DEF Keeps
<1>6. PICK left : left = StoppingDiscarded(u)
  OBVIOUS
<1>7. PresentationInv(left)
  BY <1>5, <1>6, StoppingKeeps DEF Keeps
<1>8. PICK taken : taken = ReadDiscarded(left, left.facade.active)
  OBVIOUS
<1>9. PresentationInv(taken)
  <2>1. left.facade.active = 0 \/ left.facade.active \in Reads
    BY <1>7, ReadsAreNumbers DEF PresentationInv, FacadeTyped, Reads
  <2>. QED
    BY <1>7, <1>8, <2>1, DiscardKeeps DEF Keeps
<1>10. PresentationInv([taken EXCEPT !.facade.active = 0])
  BY <1>9, LeftKeeps DEF Keeps
<1>11. [w EXCEPT !.facade.continuation = 0, !.facade.intent = @ + 1] = u
  BY <1>1, <1>2, <1>4 DEF IsWorld, HasFields, IsFacade
<1>. QED
  BY <1>6, <1>8, <1>10, <1>11 DEF Invalidated

LEMMA StartCommandKeeps ==
    ASSUME NEW r \in Reads, NEW continues, PresentationInv(World), StartCommand(r, continues)
    PROVE  PresentationInv(World)'
<1>1. PICK w : w = World
  OBVIOUS
<1>2. PICK u : u = Interrupted(w)
  OBVIOUS
<1>3. PICK read : read = [NoRead EXCEPT !.phase = "admitted", !.continues = continues,
                                        !.admission = u.facade.admission]
  OBVIOUS
<1>4. PICK v : Becomes(v) /\ v = [u EXCEPT !.reads[r] = read]
  BY <1>1, <1>2, <1>3 DEF StartCommand
<1>5. w.reads[r].phase = "none"
  BY <1>1 DEF StartCommand, World
<1>6. PresentationInv(u) /\ u.reads[r].phase = "none"
  BY <1>1, <1>2, <1>5, InterruptedKeeps DEF Keeps, SameIntent
<1>7. IsRead(read) /\ read.phase = "admitted" /\ read.intent = 0
  BY <1>3 DEF IsRead, NoRead
<1>8. ReadFits(u, r, read)
  <2>1. read.phase \in Phases /\ read.phase \notin Started /\ read.phase \notin Past /\ read.phase # "preferring"
    BY <1>7 DEF Phases, Started, Past
  <2>2. u.reads[r].phase \notin Past
    BY <1>6 DEF Past
  <2>3. u.facade.continuation # r
    BY <1>6, <2>2, ReadsAreNumbers DEF PresentationInv, ContinuationFits
  <2>4. u.facade.intent \in Nat /\ 0 <= u.facade.intent
    BY <1>6 DEF PresentationInv, FacadeTyped
  <2>. QED
    BY <1>7, <2>1, <2>2, <2>3, <2>4 DEF ReadFits
<1>9. PresentationInv(v)
  BY <1>4, <1>6, <1>8, ReadKeeps
<1>. QED
  BY <1>4, <1>9, BecomesKeeps

LEMMA AdmitKeeps ==
    ASSUME NEW r \in Reads, PresentationInv(World), Admit(r)
    PROVE  PresentationInv(World)'
<1>1. PICK w : w = World
  OBVIOUS
<1>2. PresentationInv(w) /\ w.reads[r].phase = "admitted"
  BY <1>1 DEF Admit, World
<1>3. PICK read : read = [w.reads[r] EXCEPT !.phase = "resuming", !.intent = w.facade.intent]
  OBVIOUS
<1>4. [w EXCEPT !.reads[r].phase = "resuming", !.reads[r].intent = w.facade.intent]
         = [w EXCEPT !.reads[r] = read]
  BY <1>2, <1>3 DEF PresentationInv, IsWorld, HasFields
<1>5. \/ Becomes([w EXCEPT !.reads[r] = Ended(@)])
      \/ Becomes(ReadBegun([w EXCEPT !.facade.continuation = 0], r))
      \/ Becomes([w EXCEPT !.reads[r] = read])
  <2>1. w.facade.intent = facade.intent
    BY <1>1 DEF World
  <2>. QED
    BY <1>1, <1>4, <2>1 DEF Admit
<1>6. CASE Becomes([w EXCEPT !.reads[r] = Ended(@)])
  <2>1. w.reads[r].phase \notin Past
    BY <1>2 DEF Past
  <2>. QED
    BY <1>2, <1>6, <2>1, SupersededKeeps
<1>7. CASE Becomes(ReadBegun([w EXCEPT !.facade.continuation = 0], r))
  <2>1. PICK v : v = ReadBegun([w EXCEPT !.facade.continuation = 0], r)
    OBVIOUS
  <2>2. PresentationInv(v)
    BY <1>2, <2>1, BegunKeeps
  <2>. QED
    BY <1>7, <2>1, <2>2, BecomesKeeps
<1>8. CASE Becomes([w EXCEPT !.reads[r] = read])
  <2>1. IsRead(read) /\ read.phase = "resuming" /\ read.intent = w.facade.intent
    <3>1. IsRead(w.reads[r])
      BY <1>2 DEF PresentationInv, IsWorld
    <3>. QED
      BY <1>3, <3>1 DEF IsRead
  <2>2. /\ read.phase \in Phases /\ read.phase \notin Started /\ read.phase \notin Past
        /\ read.phase \notin {"none", "admitted", "preferring"} /\ w.reads[r].phase \notin Past
    BY <1>2, <2>1 DEF Phases, Started, Past
  <2>3. w.facade.continuation # r
    BY <1>2, <2>2, ReadsAreNumbers DEF PresentationInv, ContinuationFits
  <2>4. w.facade.intent \in Nat /\ w.facade.intent <= w.facade.intent
    BY <1>2 DEF PresentationInv, FacadeTyped
  <2>5. ReadFits(w, r, read)
    BY <2>1, <2>2, <2>3, <2>4 DEF ReadFits
  <2>6. PICK v : v = [w EXCEPT !.reads[r] = read]
    OBVIOUS
  <2>7. PresentationInv(v)
    BY <1>2, <2>5, <2>6, ReadKeeps
  <2>. QED
    BY <1>8, <2>6, <2>7, BecomesKeeps
<1>. QED
  BY <1>5, <1>6, <1>7, <1>8

LEMMA ResumeKeeps ==
    ASSUME NEW r \in Reads, PresentationInv(World), Resume(r)
    PROVE  PresentationInv(World)'
<1>1. PICK w : w = World
  OBVIOUS
<1>2. PresentationInv(w) /\ w.reads[r].phase = "resuming"
  BY <1>1 DEF Resume, World
<1>3. \/ Becomes([w EXCEPT !.reads[r] = Ended(@)])
      \/ Becomes(ReadBegun([w EXCEPT !.facade.continuation = 0], r))
  BY <1>1 DEF Resume
<1>4. CASE Becomes([w EXCEPT !.reads[r] = Ended(@)])
  <2>1. w.reads[r].phase \notin Past
    BY <1>2 DEF Past
  <2>. QED
    BY <1>2, <1>4, <2>1, SupersededKeeps
<1>5. CASE Becomes(ReadBegun([w EXCEPT !.facade.continuation = 0], r))
  <2>1. PICK v : v = ReadBegun([w EXCEPT !.facade.continuation = 0], r)
    OBVIOUS
  <2>2. PresentationInv(v)
    BY <1>2, <2>1, BegunKeeps
  <2>. QED
    BY <1>5, <2>1, <2>2, BecomesKeeps
<1>. QED
  BY <1>3, <1>4, <1>5

\* A read takes the presentation: it alone has the newest intent.
LEMMA TakenKeeps ==
    ASSUME NEW w, NEW r \in Reads, PresentationInv(w), w.facade.stopping = NoStop,
           w.facade.continuation = 0, w.reads[r].phase = "preferring", w.reads[r].intent = w.facade.intent
    PROVE  PresentationInv([w EXCEPT !.facade.active = r, !.reads[r].phase = "clearing",
                                     !.reads[r].state = "loading"])
<1>1. PICK left : left = [w EXCEPT !.facade.active = 0]
  OBVIOUS
<1>2. PresentationInv(left) /\ left.facade = [w.facade EXCEPT !.active = 0] /\ left.reads = w.reads
  BY <1>1, LeftKeeps DEF Keeps
<1>3. PICK read : read = [w.reads[r] EXCEPT !.phase = "clearing", !.state = "loading"]
  OBVIOUS
<1>4. IsRead(read) /\ read.phase = "clearing" /\ read.intent = w.facade.intent
  <2>1. IsRead(w.reads[r])
    BY DEF PresentationInv, IsWorld
  <2>. QED
    BY <1>3, <2>1 DEF IsRead
<1>5. IsFacade(w.facade) /\ FacadeTyped(w.facade)
  BY DEF PresentationInv, IsWorld
<1>6. /\ left.facade.active = 0 /\ left.facade.stopping = NoStop /\ left.facade.continuation = 0
      /\ left.facade.intent = w.facade.intent /\ left.facade.stops = w.facade.stops
  BY <1>2, <1>5 DEF IsFacade
<1>7. w.facade.intent # 0 /\ w.facade.intent \in Nat
  BY <1>5 DEF PresentationInv, IntentsDiffer, FacadeTyped
<1>8. \A q \in Reads : q # r /\ w.reads[q].phase \in Started => w.reads[q].intent # w.facade.intent
  BY <1>7 DEF PresentationInv, IntentsDiffer, Started
<1>9. ReadFits(left, r, read)
  <2>1. read.phase \in Phases /\ read.phase \in Past /\ read.phase \notin {"none", "admitted", "preferring"}
    BY <1>4 DEF Phases, Started, Past
  <2>. QED
    BY <1>2, <1>4, <1>6, <1>7, <1>8, <2>1, ReadsAreNumbers DEF ReadFits
<1>10. PICK u : u = [left EXCEPT !.reads[r] = read]
  OBVIOUS
<1>11. /\ PresentationInv(u) /\ u.facade = left.facade /\ u.reads[r] = read
       /\ \A q \in Reads : q # r => u.reads[q] = w.reads[q]
  BY <1>2, <1>9, <1>10, ReadKeeps, SMTT(20)
<1>12. PICK g : g = [left.facade EXCEPT !.active = r]
  OBVIOUS
<1>13. /\ IsFacade(g) /\ g.active = r /\ g.stopping = NoStop /\ g.continuation = 0
       /\ g.intent = w.facade.intent /\ g.stops = w.facade.stops
  <2>1. IsFacade(left.facade)
    BY <1>2 DEF PresentationInv, IsWorld
  <2>. QED
    BY <1>6, <1>12, <2>1 DEF IsFacade
<1>14. PICK v : v = [u EXCEPT !.facade = g]
  OBVIOUS
<1>15. IsWorld(v) /\ v.facade = g /\ v.reads = u.reads
  BY <1>11, <1>13, <1>14, FacadeChanges DEF PresentationInv
<1>16. FacadeTyped(g)
  <2>1. r \in 0 .. MaxReads /\ 0 \in 0 .. MaxReads /\ NoStop \in Stop
    BY ReadsAreNumbers DEF Reads, NoStop, Stop
  <2>. QED
    BY <1>5, <1>13, <2>1 DEF FacadeTyped
<1>17. StopsFit(v)
  <2>1. \A stop \in w.facade.stops \cup {NoStop} : stop.read # r
    BY ReadsAreNumbers DEF PresentationInv, StopsFit, StopFits, NoStop, Past
  <2>2. \A stop \in w.facade.stops \cup {NoStop} : StopFits(u, stop)
    BY <1>6, <1>11 DEF PresentationInv, StopsFit
  <2>. QED
    BY <1>6, <1>11, <1>13, <1>15, <2>1, <2>2 DEF StopsFit, StopFits
<1>18. ActiveFits(v)
  <2>1. \A q \in Reads : q # r /\ v.reads[q].phase \in Past => v.reads[q].intent # g.intent
    BY <1>8, <1>11, <1>13, <1>15 DEF Started
  <2>2. v.reads[r].phase \in Past
    BY <1>4, <1>11, <1>15 DEF Past
  <2>. QED
    BY <1>7, <1>13, <1>15, <2>1, <2>2 DEF ActiveFits
<1>19. PresentationInv(v)
  BY <1>6, <1>11, <1>13, <1>15, <1>16, <1>17, <1>18
     DEF PresentationInv, ReadsTyped, ContinuationFits, IntentsDiffer
<1>20. [w EXCEPT !.facade.active = r, !.reads[r].phase = "clearing", !.reads[r].state = "loading"] = v
  <2>1. v = [[w EXCEPT !.facade = g] EXCEPT !.reads[r] = read]
    BY <1>1, <1>10, <1>14 DEF PresentationInv, IsWorld, HasFields
  <2>2. g = [w.facade EXCEPT !.active = r]
    BY <1>2, <1>5, <1>12 DEF IsFacade
  <2>3. [w EXCEPT !.facade.active = r] = [w EXCEPT !.facade = g]
    BY <2>2
  <2>4. PICK z : z = [w EXCEPT !.facade = g]
    OBVIOUS
  <2>5. z.reads = w.reads
    BY <2>4 DEF PresentationInv, IsWorld, HasFields
  <2>6. HasFields(z)
    BY <2>4 DEF PresentationInv, IsWorld, HasFields
  <2>7. [z EXCEPT !.reads[r].phase = "clearing", !.reads[r].state = "loading"] = [z EXCEPT !.reads[r] = read]
    BY <1>3, <2>5, <2>6 DEF HasFields, PresentationInv, IsWorld
  <2>. QED
    BY <2>1, <2>3, <2>4, <2>7
<1>. QED
  BY <1>19, <1>20

LEMMA PreferKeeps ==
    ASSUME NEW r \in Reads, PresentationInv(World), Prefer(r)
    PROVE  PresentationInv(World)'
<1>1. PICK w : w = World
  OBVIOUS
<1>2. PresentationInv(w) /\ w.reads[r].phase = "preferring"
  BY <1>1 DEF Prefer, World
<1>3. PICK idle : idle = [w EXCEPT !.facade.continuation = 0]
  OBVIOUS
<1>4. PICK u : u = StoppingDiscarded(idle)
  OBVIOUS
<1>5. PICK taken : taken = ReadDiscarded(u, u.facade.active)
  OBVIOUS
<1>6. PICK z : z = [taken EXCEPT !.facade.active = r, !.reads[r].phase = "clearing",
                                 !.reads[r].state = "loading"]
  OBVIOUS
<1>7. \/ Becomes([w EXCEPT !.reads[r] = Ended(@)])
      \/ w.reads[r].intent = w.facade.intent /\ Becomes(StreamsStopped(z))
  <2>1. w.reads[r].intent = reads[r].intent /\ w.facade.intent = facade.intent
    BY <1>1 DEF World
  <2>. QED
    BY <1>1, <1>3, <1>4, <1>5, <1>6, <2>1 DEF Prefer, ReadSuperseded
<1>8. CASE Becomes([w EXCEPT !.reads[r] = Ended(@)])
  <2>1. w.reads[r].phase \notin Past
    BY <1>2 DEF Past
  <2>. QED
    BY <1>2, <1>8, <2>1, SupersededKeeps
<1>9. CASE w.reads[r].intent = w.facade.intent /\ Becomes(StreamsStopped(z))
  <2>1. PICK g : g = [w.facade EXCEPT !.continuation = 0]
    OBVIOUS
  <2>2. IsFacade(w.facade) /\ FacadeTyped(w.facade)
    BY <1>2 DEF PresentationInv, IsWorld
  <2>3. FacadeLess(w.facade, g) /\ g.intent = w.facade.intent /\ g.continuation = 0
    BY <2>1, <2>2 DEF IsFacade, FacadeLess, FacadeTyped
  <2>4. idle = [w EXCEPT !.facade = g]
    BY <1>3, <2>1
  <2>5. Keeps(w, idle) /\ idle.facade = g
    BY <1>2, <2>3, <2>4, FacadeKeeps
  <2>6. Keeps(idle, u) /\ u.facade = [g EXCEPT !.stopping = NoStop]
    BY <1>4, <2>5, StoppingKeeps DEF Keeps
  <2>7. Keeps(u, taken) /\ taken.facade = u.facade
    <3>1. PresentationInv(u) /\ (u.facade.active = 0 \/ u.facade.active \in Reads)
      BY <2>6, ReadsAreNumbers DEF Keeps, PresentationInv, FacadeTyped, Reads
    <3>. QED
      BY <1>5, <3>1, DiscardKeeps
  <2>8. /\ PresentationInv(taken) /\ taken.reads[r].phase = "preferring"
        /\ taken.reads[r].intent = w.facade.intent
    BY <1>2, <1>9, <2>5, <2>6, <2>7 DEF Keeps, SameIntent
  <2>9. /\ taken.facade.stopping = NoStop /\ taken.facade.continuation = 0
        /\ taken.facade.intent = w.facade.intent
    BY <2>3, <2>6, <2>7, SMTT(20) DEF FacadeLess, IsFacade
  <2>10. PresentationInv(z)
    BY <1>6, <2>8, <2>9, TakenKeeps
  <2>11. PICK v : v = StreamsStopped(z)
    OBVIOUS
  <2>. QED
    BY <1>9, <2>10, <2>11, InvUsable, StreamsTold, TellKeeps, ToldKeeps, BecomesKeeps
<1>. QED
  BY <1>7, <1>8, <1>9

LEMMA ClearKeeps ==
    ASSUME NEW r \in Reads, PresentationInv(World), Clear(r) \/ ClearFails(r)
    PROVE  PresentationInv(World)'
<1>1. PICK w : w = World
  OBVIOUS
<1>2. PresentationInv(w) /\ w.reads[r].phase = "clearing"
  BY <1>1 DEF Clear, ClearFails, World
<1>3. CASE Clear(r)
  <2>1. PICK drained : drained = [w EXCEPT !.streams = Drained(@)]
    OBVIOUS
  <2>2. PresentationInv(drained) /\ drained.reads = w.reads /\ IsWorld(drained)
    <3>1. HasFields(drained) /\ drained.reads = w.reads /\ drained.facade = w.facade
      BY <1>2, <2>1 DEF PresentationInv, IsWorld, HasFields
    <3>2. Told(w, drained)
      BY <1>2, <3>1, FieldsTold DEF PresentationInv
    <3>. QED
      BY <1>2, <3>1, <3>2, ToldKeeps, InvUsable
  <2>3. PICK read : read = [w.reads[r] EXCEPT !.phase = "starting"]
    OBVIOUS
  <2>4. PICK u : u = [drained EXCEPT !.reads[r] = read]
    OBVIOUS
  <2>5. /\ IsRead(read) /\ read.phase = "starting" /\ read.intent = w.reads[r].intent
        /\ read.dropped = w.reads[r].dropped /\ read.queue = w.reads[r].queue
    <3>1. IsRead(w.reads[r])
      BY <1>2 DEF PresentationInv, IsWorld
    <3>. QED
      BY <2>3, <3>1 DEF IsRead
  <2>6. PresentationInv(u) /\ u.reads[r].phase = "starting"
    <3>1. read.phase \in Past /\ w.reads[r].phase \in Past
      BY <1>2, <2>5 DEF Past
    <3>. QED
      BY <2>2, <2>4, <2>5, <3>1, PhaseKeeps
  <2>7. [w EXCEPT !.streams = Drained(@), !.reads[r].phase = "starting"] = u
    BY <1>2, <2>1, <2>3, <2>4 DEF PresentationInv, IsWorld, HasFields
  <2>8. PICK told : told = IF reads[r].continues = 0 THEN LoadingPublished(u, r) ELSE u
    OBVIOUS
  <2>9. PresentationInv(told)
    BY <2>6, <2>8, InvUsable, LoadingTold, ToldKeeps
  <2>10. PICK v : Becomes(v) /\ v \in {ReadFailed(u, r), StreamRequested(told, r)}
    BY <1>1, <1>3, <2>7, <2>8 DEF Clear
  <2>11. PresentationInv(ReadFailed(u, r))
    BY <2>6, ReadFailedKeeps DEF Past
  <2>12. PresentationInv(StreamRequested(told, r))
    <3>1. Told(told, StreamRequested(told, r))
      BY <2>9, FieldsQuiet, QuietTold DEF StreamRequested, PresentationInv
    <3>. QED
      BY <2>9, <3>1, ToldKeeps
  <2>. QED
    BY <2>10, <2>11, <2>12, BecomesKeeps
<1>4. CASE ClearFails(r)
  <2>1. PICK v : Becomes(v) /\ v = ReadFailed(w, r)
    BY <1>1, <1>4 DEF ClearFails
  <2>2. PresentationInv(v)
    BY <1>2, <2>1, ReadFailedKeeps DEF Past
  <2>. QED
    BY <2>1, <2>2, BecomesKeeps
<1>. QED
  BY <1>3, <1>4

LEMMA StopCommandKeeps ==
    ASSUME PresentationInv(World), StopCommand
    PROVE  PresentationInv(World)'
<1>1. PICK t : t = Turned
  OBVIOUS
<1>2. PICK u : u = StreamStopped(Interrupted(t))
  OBVIOUS
<1>3. PresentationInv(u) /\ IsWorld(u)
  <2>1. PresentationInv(Interrupted(t))
    BY <1>1, TurnedTold, InterruptedKeeps
  <2>. QED
    BY <1>2, <2>1, InvUsable, StopTold, ToldKeeps
<1>4. PICK command : command = [state |-> "stopping", stop |-> u.facade.stopping]
  OBVIOUS
<1>5. PICK v : Becomes(v) /\ v = [u EXCEPT !.stopCommand = command]
  BY <1>1, <1>2, <1>4 DEF StopCommand
<1>6. Told(u, v)
  BY <1>3, <1>5, FieldsQuiet, QuietTold
<1>. QED
  BY <1>3, <1>5, <1>6, TellKeeps

LEMMA ConnectionKeeps ==
    ASSUME PresentationInv(World), ConnectionChanges
    PROVE  PresentationInv(World)'
<1>1. PICK t : t = Turned
  OBVIOUS
<1>2. PICK u : u = Invalidated(Interrupted(t))
  OBVIOUS
<1>3. PresentationInv(u)
  BY <1>1, <1>2, TurnedTold, InterruptedKeeps, InvalidatedKeeps
<1>4. PresentationInv(StreamsStopped(u))
  BY <1>3, InvUsable, StreamsTold, ToldKeeps
<1>5. PICK v : Becomes(v) /\ v = Noted(StreamsStopped(u))
  BY <1>1, <1>2 DEF ConnectionChanges
<1>6. PresentationInv(v)
  BY <1>4, <1>5, InvUsable, NotedTold, ToldKeeps
<1>. QED
  BY <1>5, <1>6, BecomesKeeps

LEMMA CommandKeeps ==
    ASSUME PresentationInv(World), CommandNext
    PROVE  PresentationInv(World)'
  BY StartCommandKeeps, AdmitKeeps, ResumeKeeps, PreferKeeps, ClearKeeps, StopCommandKeeps, ConnectionKeeps
     DEF CommandNext

---------------------------------------------------------------------------
(* The session's answers, and the timers.                                  *)

LEMMA StreamOpensKeeps ==
    ASSUME NEW r \in Reads, PresentationInv(World), StreamOpens(r)
    PROVE  PresentationInv(World)'
<1>1. PICK w : w = World
  OBVIOUS
<1>2. PICK v : Becomes(v) /\ v = [w EXCEPT !.streams = [Drained(@) EXCEPT ![r] = "open"]]
  BY <1>1 DEF StreamOpens
<1>3. HasFields(v) /\ v.reads = w.reads /\ v.facade = w.facade
  BY <1>1, <1>2 DEF PresentationInv, IsWorld, HasFields
<1>. QED
  BY <1>1, <1>2, <1>3, InvUsable, FieldsTold, TellKeeps

\* A record is queued by the read that has the presentation.
LEMMA QueuedKeeps ==
    ASSUME NEW w, NEW r \in Reads, PresentationInv(w), w.facade.active = r
    PROVE  PresentationInv([w EXCEPT !.reads[r] =
                                [Appended(w.reads[r], w.reads[r].received + 1) EXCEPT !.received = @ + 1]])
<1>1. PICK read : read = [Appended(w.reads[r], w.reads[r].received + 1) EXCEPT !.received = @ + 1]
  OBVIOUS
<1>2. IsRead(read) /\ SameIntent(w.reads[r], read)
  <2>1. IsRead(w.reads[r])
    BY DEF PresentationInv, IsWorld
  <2>. QED
    BY <1>1, <2>1 DEF IsRead, Appended, SameIntent
<1>3. w.reads[r].phase \in Past
  BY ReadsAreNumbers DEF PresentationInv, ActiveFits
<1>4. ReadFits(w, r, read)
  BY <1>2, <1>3, PastReadFits DEF SameIntent
<1>. QED
  BY <1>1, <1>4, ReadKeeps

LEMMA MessageKeeps ==
    ASSUME NEW r \in Reads, PresentationInv(World), MessageArrives(r)
    PROVE  PresentationInv(World)'
<1>1. PICK w : w = World
  OBVIOUS
<1>2. PICK u : u = LoadingPublished(w, r)
  OBVIOUS
<1>3. PresentationInv(u)
  BY <1>1, <1>2, InvUsable, LoadingTold, ToldKeeps
<1>4. PICK queued : queued = [u EXCEPT !.reads[r] =
                                 [Appended(u.reads[r], u.reads[r].received + 1) EXCEPT !.received = @ + 1]]
  OBVIOUS
<1>5. u.facade.active = r => PresentationInv(queued)
  BY <1>3, <1>4, QueuedKeeps
<1>6. PICK told : told \in {queued, StatePublished(queued, r, "running")}
                  /\ MessagePublished(u, r) \in IF u.facade.active = r THEN {Scheduled(told, r)} ELSE {u}
  BY <1>4 DEF MessagePublished
<1>7. u.facade.active = r => PresentationInv(told)
  BY <1>5, <1>6, StateKeeps DEF Keeps
<1>8. PICK v : Becomes(v) /\ v = MessagePublished(u, r)
  BY <1>1, <1>2 DEF MessageArrives
<1>9. PresentationInv(v)
  BY <1>3, <1>6, <1>7, <1>8, InvUsable, ScheduledTold, ToldKeeps
<1>. QED
  BY <1>8, <1>9, BecomesKeeps

LEMMA CoverageKeeps ==
    ASSUME NEW r \in Reads, PresentationInv(World), CoverageArrives(r)
    PROVE  PresentationInv(World)'
<1>1. PICK t : t = Turned
  OBVIOUS
<1>2. PICK u : u = LoadingPublished(t, r)
  OBVIOUS
<1>3. PresentationInv(u)
  BY <1>1, <1>2, TurnedTold, LoadingTold, ToldKeeps
<1>4. PICK state : CoveragePublished(u, r) \in {u, StatePublished(u, r, state)}
  BY DEF CoveragePublished
<1>5. PICK v : Becomes(v) /\ v = CoveragePublished(u, r)
  BY <1>1, <1>2 DEF CoverageArrives
<1>6. PresentationInv(v)
  BY <1>3, <1>4, <1>5, StateKeeps DEF Keeps
<1>. QED
  BY <1>5, <1>6, BecomesKeeps

LEMMA FlushedKeeps ==
    ASSUME NEW w, NEW r \in Reads, NEW measured \in BOOLEAN, PresentationInv(w)
    PROVE  PresentationInv(Flushed(w, r, measured))
  BY InvUsable, FlushedMoves, MovesKeeps

LEMMA NothingArrivesKeeps ==
    ASSUME NEW r \in Reads, PresentationInv(World), NothingArrives(r)
    PROVE  PresentationInv(World)'
<1>1. PICK w : w = World
  OBVIOUS
<1>2. PICK u : u = Flushed(w, r, FALSE)
  OBVIOUS
<1>3. PresentationInv(u)
  BY <1>1, <1>2, FlushedKeeps
<1>4. PICK v : Becomes(v) /\ v = StatePublished(u, r, "empty")
  BY <1>1, <1>2 DEF NothingArrives
<1>5. PresentationInv(v)
  BY <1>3, <1>4, StateKeeps DEF Keeps
<1>. QED
  BY <1>4, <1>5, BecomesKeeps

LEMMA StreamEndsKeeps ==
    ASSUME NEW r \in Reads, NEW terminal, NEW more, PresentationInv(World), StreamEnds(r, terminal, more)
    PROVE  PresentationInv(World)'
<1>1. PICK w : w = World
  OBVIOUS
<1>2. PICK u : u = [w EXCEPT !.streams[r] = "closed"]
  OBVIOUS
<1>3. PresentationInv(u) /\ IsWorld(u) /\ u.reads = w.reads /\ HasFields(u)
  <2>1. HasFields(u) /\ u.reads = w.reads /\ u.facade = w.facade
    BY <1>1, <1>2 DEF PresentationInv, IsWorld, HasFields
  <2>2. Told(w, u)
    BY <1>1, <2>1, InvUsable, FieldsTold
  <2>. QED
    BY <1>1, <2>1, <2>2, ToldKeeps, InvUsable
<1>4. u.reads[r].phase = reads[r].phase /\ u.reads[r].phase \in Past
  BY <1>1, <1>3 DEF World, StreamEnds, Past
<1>5. CASE reads[r].phase = "running"
  <2>1. PICK ended : ended = Terminated(u, r, terminal, more)
    OBVIOUS
  <2>2. PresentationInv(ended) /\ ended.reads[r].phase \in Past
    BY <1>3, <1>4, <2>1, TerminatedKeeps DEF Keeps, SameIntent
  <2>3. PICK read : read = [ended.reads[r] EXCEPT !.phase = "over"]
    OBVIOUS
  <2>4. /\ IsRead(read) /\ read.phase \in Past /\ read.intent = ended.reads[r].intent
        /\ read.dropped = ended.reads[r].dropped /\ read.queue = ended.reads[r].queue
    <3>1. IsRead(ended.reads[r])
      BY <2>2 DEF PresentationInv, IsWorld
    <3>. QED
      BY <2>3, <3>1 DEF IsRead, Past
  <2>5. PICK v : v = [ended EXCEPT !.reads[r] = read]
    OBVIOUS
  <2>6. PresentationInv(v)
    BY <2>2, <2>4, <2>5, PhaseKeeps
  <2>7. [ended EXCEPT !.reads[r].phase = "over"] = v
    BY <2>3, <2>5
  <2>8. Becomes([Terminated(u, r, terminal, more) EXCEPT !.reads[r].phase = "over"])
    BY <1>1, <1>2, <1>5 DEF StreamEnds
  <2>9. Becomes(v)
    BY <2>1, <2>7, <2>8
  <2>. QED
    BY <2>6, <2>9, BecomesKeeps
<1>6. CASE reads[r].phase # "running"
  <2>1. PICK x : x = [u EXCEPT !.streams[r] = "ended"]
    OBVIOUS
  <2>2. PresentationInv(x) /\ IsWorld(x) /\ x.reads = u.reads
    <3>1. HasFields(x) /\ x.reads = u.reads /\ x.facade = u.facade
      BY <1>3, <2>1 DEF HasFields
    <3>2. Told(u, x)
      BY <1>3, <3>1, FieldsTold
    <3>. QED
      BY <1>3, <3>1, <3>2, ToldKeeps, InvUsable
  <2>3. PICK read : read = [x.reads[r] EXCEPT !.terminal = terminal]
    OBVIOUS
  <2>4. IsRead(read) /\ SameRead(x.reads[r], read)
    <3>1. IsRead(x.reads[r])
      BY <2>2 DEF IsWorld
    <3>. QED
      BY <2>3, <3>1 DEF IsRead, SameRead
  <2>5. PICK v : v = [x EXCEPT !.reads[r] = read]
    OBVIOUS
  <2>6. Told(x, v)
    BY <2>2, <2>4, <2>5, ReadTold
  <2>7. [u EXCEPT !.streams[r] = "ended", !.reads[r].terminal = terminal] = v
    BY <2>1, <2>3, <2>5
  <2>8. Becomes([u EXCEPT !.streams[r] = "ended", !.reads[r].terminal = terminal])
    BY <1>1, <1>2, <1>6 DEF StreamEnds
  <2>9. Becomes(v)
    BY <2>7, <2>8
  <2>. QED
    BY <2>2, <2>6, <2>9, TellKeeps
<1>. QED
  BY <1>5, <1>6

LEMMA StartAcceptedKeeps ==
    ASSUME NEW r \in Reads, NEW more, PresentationInv(World), StartAccepted(r, more)
    PROVE  PresentationInv(World)'
<1>1. PICK w : w = World
  OBVIOUS
<1>2. PresentationInv(w) /\ w.reads[r].phase = "starting" /\ w.reads[r].phase \in Past
  BY <1>1 DEF StartAccepted, World, Past
<1>3. PICK loaded : loaded = LoadingPublished(w, r)
  OBVIOUS
<1>4. Keeps(w, loaded) /\ PresentationInv(loaded)
  BY <1>2, <1>3, InvUsable, LoadingTold, ToldKeepsRead DEF Keeps
<1>5. PICK told : told = RunningPublished(loaded, r)
  OBVIOUS
<1>6. Keeps(w, told) /\ PresentationInv(told)
  <2>1. told \in {loaded, StatePublished(loaded, r, "running")}
    BY <1>5 DEF RunningPublished
  <2>. QED
    BY <1>4, <2>1, StateKeeps, KeepsOn DEF Keeps
<1>7. PICK phase : phase = IF streams[r] = "open" THEN "running" ELSE "over"
  OBVIOUS
<1>8. PICK read : read = [told.reads[r] EXCEPT !.phase = phase, !.sample = TRUE]
  OBVIOUS
<1>9. /\ IsRead(read) /\ read.phase \in Past /\ read.intent = told.reads[r].intent
      /\ read.dropped = told.reads[r].dropped /\ read.queue = told.reads[r].queue
  <2>1. IsRead(told.reads[r])
    BY <1>6 DEF PresentationInv, IsWorld
  <2>. QED
    BY <1>7, <1>8, <2>1 DEF IsRead, Past
<1>10. told.reads[r].phase \in Past
  BY <1>2, <1>6 DEF Keeps, SameIntent
<1>11. PICK accepted : accepted = [told EXCEPT !.reads[r] = read]
  OBVIOUS
<1>12. PresentationInv(accepted) /\ accepted.reads[r].phase \in Past
  BY <1>6, <1>9, <1>10, <1>11, PhaseKeeps
<1>13. [told EXCEPT !.reads[r].phase = phase, !.reads[r].sample = TRUE] = accepted
  BY <1>6, <1>8, <1>11 DEF PresentationInv, IsWorld, HasFields
<1>14. PICK terminal : terminal = reads[r].terminal
  OBVIOUS
<1>15. PICK v : Becomes(v) /\ v \in {ReadFailed(w, r), Terminated(accepted, r, terminal, more)}
  BY <1>1, <1>3, <1>5, <1>7, <1>13, <1>14 DEF StartAccepted
<1>16. PresentationInv(v)
  BY <1>2, <1>12, <1>15, ReadFailedKeeps, TerminatedKeeps DEF Keeps
<1>. QED
  BY <1>15, <1>16, BecomesKeeps

LEMMA StartFailsKeeps ==
    ASSUME NEW r \in Reads, PresentationInv(World), StartFails(r)
    PROVE  PresentationInv(World)'
<1>1. PICK w : w = World
  OBVIOUS
<1>2. PICK u : u = [w EXCEPT !.streams[r] = "closed"]
  OBVIOUS
<1>3. PresentationInv(u) /\ u.reads = w.reads
  <2>1. HasFields(u) /\ u.reads = w.reads /\ u.facade = w.facade
    BY <1>1, <1>2 DEF PresentationInv, IsWorld, HasFields
  <2>2. Told(w, u)
    BY <1>1, <2>1, InvUsable, FieldsTold
  <2>. QED
    BY <1>1, <2>1, <2>2, ToldKeeps
<1>4. u.reads[r].phase \in Past
  BY <1>1, <1>3 DEF World, StartFails, Past
<1>5. PICK v : Becomes(v) /\ v = ReadFailed(u, r)
  BY <1>1, <1>2 DEF StartFails
<1>6. PresentationInv(v)
  BY <1>3, <1>4, <1>5, ReadFailedKeeps
<1>. QED
  BY <1>5, <1>6, BecomesKeeps

LEMMA StopEndsKeeps ==
    ASSUME NEW stop, NEW confirmed, NEW more, PresentationInv(World), StopEnds(stop, confirmed, more)
    PROVE  PresentationInv(World)'
<1>1. PICK w : w = IF confirmed THEN World ELSE Turned
  OBVIOUS
<1>2. PresentationInv(w) /\ HasFields(w) /\ w.facade = facade
  BY <1>1, TurnedTold DEF PresentationInv, IsWorld, Turned, World
<1>3. stop \in w.facade.stops /\ stop \in Stop /\ StopFits(w, stop)
  <2>1. stop \in w.facade.stops
    BY <1>2 DEF StopEnds
  <2>. QED
    BY <1>2, <2>1 DEF PresentationInv, FacadeTyped, StopsFit
<1>4. PICK g : g = [w.facade EXCEPT !.stops = @ \ {stop}]
  OBVIOUS
<1>5. FacadeLess(w.facade, g) /\ g.active = w.facade.active /\ g.intent = w.facade.intent
  BY <1>2, <1>4, SMTT(20) DEF PresentationInv, IsWorld, IsFacade, FacadeLess, FacadeTyped
<1>6. PICK u : u = [w EXCEPT !.facade = g]
  OBVIOUS
<1>7. PresentationInv(u) /\ u.facade = g /\ u.reads = w.reads /\ HasFields(u)
  BY <1>2, <1>5, <1>6, FacadeKeeps DEF Keeps, PresentationInv, IsWorld
<1>8. PICK done : done = [w EXCEPT !.facade.stops = @ \ {stop},
                                   !.streams = IF confirmed THEN Drained(@) ELSE @]
  OBVIOUS
<1>9. HasFields(done) /\ done.reads = u.reads /\ done.facade = u.facade
  BY <1>2, <1>4, <1>7, <1>8 DEF HasFields
<1>10. PresentationInv(done)
  BY <1>7, <1>9, InvUsable, FieldsTold, ToldKeeps
<1>11. StopFits(done, stop)
  BY <1>3, <1>5, <1>7, <1>9 DEF StopFits
<1>12. PICK told : told = StopPublished(done, stop, confirmed, more)
  OBVIOUS
<1>13. PresentationInv(told)
  BY <1>3, <1>10, <1>11, <1>12, StopPublishedKeeps
<1>14. PICK noted : noted = CommandStopped(told, stop)
  OBVIOUS
<1>15. PresentationInv(noted)
  BY <1>13, <1>14, CommandStoppedKeeps
<1>16. PICK v : Becomes(v) /\ v = Recovered(noted, stop, confirmed)
  BY <1>1, <1>8, <1>12, <1>14 DEF StopEnds
<1>17. PresentationInv(v)
  BY <1>15, <1>16, RecoveredKeeps
<1>. QED
  BY <1>16, <1>17, BecomesKeeps

LEMMA SessionKeeps ==
    ASSUME PresentationInv(World), SessionNext
    PROVE  PresentationInv(World)'
  BY StreamOpensKeeps, MessageKeeps, CoverageKeeps, NothingArrivesKeeps, StreamEndsKeeps,
     StartAcceptedKeeps, StartFailsKeeps, StopEndsKeeps DEF SessionNext

LEMMA TimerKeeps ==
    ASSUME PresentationInv(World), TimerNext
    PROVE  PresentationInv(World)'
<1>1. PICK r \in Reads : SampleTimer(r) \/ \E measured \in BOOLEAN : FlushTimer(r, measured)
  BY DEF TimerNext
<1>2. CASE SampleTimer(r)
  <2>1. PICK t : t = Turned
    OBVIOUS
  <2>2. PICK u : u = [t EXCEPT !.reads[r].sample = FALSE]
    OBVIOUS
  <2>3. PresentationInv(u)
    BY <2>1, <2>2, TurnedTold, TimersTold, ToldKeeps
  <2>4. PICK v : Becomes(v) /\ v \in {u, MetricsPublished(u, r)}
    BY <1>2, <2>1, <2>2 DEF SampleTimer
  <2>5. PresentationInv(v)
    BY <2>3, <2>4, InvUsable, MetricsPublishedTold, ToldKeeps
  <2>. QED
    BY <2>4, <2>5, BecomesKeeps
<1>3. ASSUME NEW measured \in BOOLEAN, FlushTimer(r, measured) PROVE PresentationInv(World)'
  <2>1. PICK t : t = IF measured THEN Turned ELSE World
    OBVIOUS
  <2>2. PresentationInv(t) /\ IsWorld(t)
    BY <2>1, TurnedTold, InvUsable
  <2>3. PICK u : u = [t EXCEPT !.reads[r].flush = FALSE]
    OBVIOUS
  <2>4. PresentationInv(u)
    BY <2>2, <2>3, TimersTold, ToldKeeps
  <2>5. PICK v : Becomes(v) /\ v \in {u, Flushed(u, r, measured)}
    BY <1>3, <2>1, <2>3 DEF FlushTimer
  <2>6. PresentationInv(v)
    BY <2>4, <2>5, FlushedKeeps
  <2>. QED
    BY <2>5, <2>6, BecomesKeeps
<1>. QED
  BY <1>1, <1>2, <1>3

---------------------------------------------------------------------------
(* The theorem.                                                            *)

LEMMA InitKeeps == Init => PresentationInv(World)
<1>1. SUFFICES ASSUME Init PROVE PresentationInv(World)
  OBVIOUS
<1>2. PICK idle, w :
         /\ HasFields(idle) /\ idle.reads = [r \in Reads |-> NoRead] /\ idle.facade = IdleFacade
         /\ w \in {idle, Subscribed(idle)}
         /\ reads = w.reads /\ facade = w.facade /\ streams = w.streams
         /\ clients = w.clients /\ route = w.route
         /\ toRenderer = w.toRenderer /\ toHost = w.toHost
         /\ listening = w.listening /\ shown = w.shown
         /\ stopCommand = w.stopCommand /\ bounds = w.bounds
  <2>1. PICK transport \in {"desktop", "web"}, some \in Bounds :
           LET idle == [reads |-> [r \in Reads |-> NoRead], facade |-> IdleFacade,
                        streams |-> [r \in Reads |-> "none"],
                        clients |-> [c \in Clients |-> NoClient],
                        route |-> [NoRoute EXCEPT !.transport = transport],
                        toRenderer |-> <<>>, toHost |-> <<>>,
                        listening |-> transport = "desktop",
                        shown |-> [c \in Clients |-> NothingShown], stopCommand |-> NoCommand,
                        bounds |-> some]
           IN \E w \in {IF transport = "desktop" THEN Subscribed(idle) ELSE idle} :
                 /\ reads = w.reads /\ facade = w.facade /\ streams = w.streams
                 /\ clients = w.clients /\ route = w.route
                 /\ toRenderer = w.toRenderer /\ toHost = w.toHost
                 /\ listening = w.listening /\ shown = w.shown
                 /\ stopCommand = w.stopCommand /\ bounds = w.bounds
    BY <1>1 DEF Init
  <2>2. PICK idle : idle = [reads |-> [r \in Reads |-> NoRead], facade |-> IdleFacade,
                            streams |-> [r \in Reads |-> "none"],
                            clients |-> [c \in Clients |-> NoClient],
                            route |-> [NoRoute EXCEPT !.transport = transport],
                            toRenderer |-> <<>>, toHost |-> <<>>,
                            listening |-> transport = "desktop",
                            shown |-> [c \in Clients |-> NothingShown], stopCommand |-> NoCommand,
                            bounds |-> some]
    OBVIOUS
  <2>3. HasFields(idle) /\ idle.reads = [r \in Reads |-> NoRead] /\ idle.facade = IdleFacade
    BY <2>2 DEF HasFields
  <2>4. PICK w : /\ w \in {idle, Subscribed(idle)}
                 /\ reads = w.reads /\ facade = w.facade /\ streams = w.streams
                 /\ clients = w.clients /\ route = w.route
                 /\ toRenderer = w.toRenderer /\ toHost = w.toHost
                 /\ listening = w.listening /\ shown = w.shown
                 /\ stopCommand = w.stopCommand /\ bounds = w.bounds
    BY <2>1, <2>2
  <2>. QED
    BY <2>3, <2>4
<1>3. HasFields(idle) /\ idle.reads = [r \in Reads |-> NoRead] /\ idle.facade = IdleFacade
  BY <1>2
<1>4. \A r \in Reads : idle.reads[r] = NoRead
  BY <1>3
<1>5. IsRead(NoRead) /\ NoRead.phase = "none" /\ NoRead.intent = 0
  BY DEF IsRead, NoRead
<1>6. IsFacade(IdleFacade)
  BY DEF IsFacade, IdleFacade
<1>7. IsWorld(idle)
  BY <1>3, <1>4, <1>5, <1>6 DEF IsWorld
<1>8. NoStop \in Stop /\ NoStop.intent = 0 /\ NoStop.read = 0
  BY ReadsAreNumbers DEF NoStop, Stop
<1>9. /\ idle.facade.active = 0 /\ idle.facade.continuation = 0 /\ idle.facade.intent = 0
      /\ idle.facade.stopping = NoStop /\ idle.facade.stops = {}
  BY <1>3 DEF IdleFacade
<1>10. FacadeTyped(idle.facade)
  BY <1>8, <1>9, ReadsAreNumbers DEF FacadeTyped
<1>11. ReadsTyped(idle)
  BY <1>4, <1>5 DEF ReadsTyped, Phases
<1>12. StopsFit(idle) /\ ActiveFits(idle) /\ ContinuationFits(idle)
  BY <1>8, <1>9 DEF StopsFit, StopFits, ActiveFits, ContinuationFits
<1>13. IntentsDiffer(idle)
  BY <1>4, <1>5, <1>9 DEF IntentsDiffer
<1>14. PresentationInv(idle)
  BY <1>7, <1>10, <1>11, <1>12, <1>13 DEF PresentationInv
<1>15. PresentationInv(w)
  BY <1>2, <1>14, InvUsable, SubscribedTold, ToldKeeps
<1>16. w = World
  BY <1>2, <1>15 DEF World, PresentationInv, IsWorld, HasFields
<1>. QED
  BY <1>15, <1>16

LEMMA NextKeeps == PresentationInv(World) /\ [Next]_vars => PresentationInv(World)'
<1>1. SUFFICES ASSUME PresentationInv(World), [Next]_vars PROVE PresentationInv(World)'
  OBVIOUS
<1>2. CASE UNCHANGED vars
  <2>1. World' = World
    BY <1>2 DEF World, vars
  <2>2. PICK w : w = World
    OBVIOUS
  <2>3. PresentationInv(w) /\ w = World'
    BY <1>1, <2>1, <2>2
  <2>. QED
    BY <2>3
<1>3. CASE Next
  BY <1>1, <1>3, RendererKeeps, ClientKeeps, CommandKeeps, SessionKeeps, TimerKeeps DEF Next
<1>. QED
  BY <1>1, <1>2, <1>3

\* The presentation of the reads is sound, in every state.
THEOREM PresentationInvariant == Spec => []PresentationInv(World)
  BY InitKeeps, NextKeeps, PTL DEF Spec

\* A read can be continued only if it lost nothing, and only as long as no
\* other read has taken the presentation: whatever is published, stopped,
\* failed and recovered meanwhile.
THEOREM ContinuationStaysLossless == Spec => []ContinuationIsLossless
<1>1. PresentationInv(World) => ContinuationIsLossless
  <2>1. World.facade = facade /\ World.reads = reads
    BY DEF World
  <2>. QED
    BY <2>1 DEF PresentationInv, ContinuationFits, ActiveFits, ContinuationIsLossless
<1>. QED
  BY <1>1, PresentationInvariant, PTL

---------------------------------------------------------------------------
(* Sums. What sums up to a number is a function of the partial sums, and   *)
(* there is one only.                                                      *)

\* The sums of the first n numbers
AreSums(sums, numbers, n) ==
    sums = [i \in 0 .. n |-> IF i = 0 THEN 0 ELSE sums[i - 1] + numbers[i]]

LEMMA SumsExist ==
    ASSUME NEW numbers \in Seq(Nat), NEW m \in Nat, m <= Len(numbers)
    PROVE  \E sums \in [0 .. m -> Nat] : AreSums(sums, numbers, m)
<1> DEFINE S == {n \in Nat : n <= Len(numbers) => \E sums \in [0 .. n -> Nat] : AreSums(sums, numbers, n)}
<1>1. 0 \in S
  <2>1. AreSums([i \in 0 .. 0 |-> 0], numbers, 0)
    BY DEF AreSums
  <2>. QED
    BY <2>1
<1>2. ASSUME NEW n \in Nat, n \in S PROVE n + 1 \in S
  <2>1. SUFFICES ASSUME n + 1 <= Len(numbers)
                 PROVE  \E sums \in [0 .. n + 1 -> Nat] : AreSums(sums, numbers, n + 1)
    OBVIOUS
  <2>2. PICK sums \in [0 .. n -> Nat] : AreSums(sums, numbers, n)
    BY <1>2, <2>1
  <2> DEFINE more == [i \in 0 .. n + 1 |-> IF i = n + 1 THEN sums[n] + numbers[n + 1] ELSE sums[i]]
  <2>3. more \in [0 .. n + 1 -> Nat]
    BY <2>1
  <2>4. \A i \in 0 .. n + 1 :
           more[i] = IF i = 0 THEN 0 ELSE more[i - 1] + numbers[i]
    BY <2>2 DEF AreSums
  <2>5. AreSums(more, numbers, n + 1)
    BY <2>4 DEF AreSums
  <2>. QED
    BY <2>3, <2>5
<1>3. m \in S
  <2>. HIDE DEF S
  <2>. QED
    BY <1>1, <1>2, SetInduction
<1>. QED
  BY <1>3

\* There is no other function with these sums.
LEMMA SumsAreUnique ==
    ASSUME NEW numbers, NEW m \in Nat, NEW f, NEW g, AreSums(f, numbers, m),
           g[0] = 0, \A i \in 1 .. m : g[i] = g[i - 1] + numbers[i]
    PROVE  f[m] = g[m]
<1> DEFINE S == {i \in Nat : i <= m => f[i] = g[i]}
<1>1. 0 \in S
  BY DEF AreSums
<1>2. ASSUME NEW i \in Nat, i \in S PROVE i + 1 \in S
  <2>1. SUFFICES ASSUME i + 1 <= m PROVE f[i + 1] = g[i + 1]
    OBVIOUS
  <2>2. f[i + 1] = f[i] + numbers[i + 1]
    BY <2>1 DEF AreSums
  <2>3. g[i + 1] = g[i] + numbers[i + 1]
    <3>1. i + 1 \in 1 .. m /\ (i + 1) - 1 = i
      BY <2>1
    <3>. QED
      BY <3>1
  <2>. QED
    BY <1>2, <2>1, <2>2, <2>3
<1>3. m \in S
  <2>. HIDE DEF S
  <2>. QED
    BY <1>1, <1>2, SetInduction
<1>. QED
  BY <1>3

\* A sum is the last of any partial sums.
LEMMA SumIs ==
    ASSUME NEW numbers \in Seq(Nat), NEW g,
           g[0] = 0, \A i \in 1 .. Len(numbers) : g[i] = g[i - 1] + numbers[i]
    PROVE  SumOf(numbers) = g[Len(numbers)]
<1>1. PICK some \in [0 .. Len(numbers) -> Nat] : AreSums(some, numbers, Len(numbers))
  BY SumsExist
<1> DEFINE Of == CHOOSE sums : AreSums(sums, numbers, Len(numbers))
<1>2. AreSums(Of, numbers, Len(numbers))
  BY <1>1
<1>3. SumOf(numbers) = Of[Len(numbers)]
  BY DEF SumOf, AreSums
<1>4. Of[Len(numbers)] = g[Len(numbers)]
  <2>1. Len(numbers) \in Nat
    OBVIOUS
  <2>. HIDE DEF Of
  <2>. QED
    BY <1>2, <2>1, SumsAreUnique
<1>. QED
  BY <1>3, <1>4

\* Partial sums of n numbers
Sums(f, numbers, n) ==
    /\ f \in [0 .. n -> Nat] /\ f[0] = 0
    /\ \A i \in 1 .. n : f[i] = f[i - 1] + numbers[i]

LEMMA SumsOf ==
    ASSUME NEW numbers \in Seq(Nat)
    PROVE  \E f : Sums(f, numbers, Len(numbers)) /\ SumOf(numbers) = f[Len(numbers)]
<1>1. PICK f \in [0 .. Len(numbers) -> Nat] : AreSums(f, numbers, Len(numbers))
  BY SumsExist
<1>2. f[0] = 0 /\ \A i \in 1 .. Len(numbers) : f[i] = f[i - 1] + numbers[i]
  BY <1>1, SMTT(20) DEF AreSums
<1>3. SumOf(numbers) = f[Len(numbers)]
  BY <1>2, SumIs
<1>. QED
  BY <1>2, <1>3 DEF Sums

LEMMA SumTyped ==
    ASSUME NEW numbers \in Seq(Nat)
    PROVE  SumOf(numbers) \in Nat /\ (numbers = <<>> => SumOf(numbers) = 0)
<1>1. PICK f : Sums(f, numbers, Len(numbers)) /\ SumOf(numbers) = f[Len(numbers)]
  BY SumsOf
<1>. QED
  BY <1>1 DEF Sums

\* A sum is that of the first n numbers and that of the others.
Joins(numbers, old, n, rest, m) ==
    /\ n \in Nat /\ m \in Nat
    /\ \A i \in 1 .. n : numbers[i] = old[i]
    /\ \A i \in 1 .. m : numbers[n + i] = rest[i] /\ rest[i] \in Nat

\* The partial sums of n numbers reach a total.
Reaches(h, numbers, n, total) ==
    h[0] = 0 /\ h[n] = total /\ \A i \in 1 .. n : h[i] = h[i - 1] + numbers[i]

LEMMA SumsJoin ==
    ASSUME NEW n \in Nat, NEW m \in Nat, NEW numbers, NEW old, NEW rest, NEW f, NEW g,
           Joins(numbers, old, n, rest, m), Sums(f, old, n), Sums(g, rest, m)
    PROVE  \E h : Reaches(h, numbers, n + m, f[n] + g[m])
<1>0. PICK h : h = [i \in 0 .. n + m |-> IF i <= n THEN f[i] ELSE f[n] + g[i - n]]
  OBVIOUS
<1>1. h[0] = 0 /\ h[n + m] = f[n] + g[m]
  <2>1. h[0] = 0
    BY <1>0 DEF Sums
  <2>2. CASE m = 0
    BY <1>0, <2>1, <2>2 DEF Sums
  <2>3. CASE m # 0
    <3>1. ~(n + m <= n) /\ (n + m) - n = m /\ n + m \in 0 .. n + m
      BY <2>3
    <3>. QED
      BY <1>0, <2>1, <3>1
  <2>. QED
    BY <2>2, <2>3
<1>2. ASSUME NEW i \in 1 .. n + m PROVE h[i] = h[i - 1] + numbers[i]
  <2>1. CASE i <= n
    BY <1>0, <2>1 DEF Sums, Joins
  <2>2. CASE i = n + 1
    <3>1. 1 \in 1 .. m /\ numbers[i] = rest[1]
      BY <2>2 DEF Joins
    <3>2. g[1] = g[0] + rest[1] /\ g[0] = 0 /\ rest[1] \in Nat
      <4>1. 1 - 1 = 0
        OBVIOUS
      <4>. QED
        BY <3>1, <4>1 DEF Sums, Joins
    <3>. QED
      BY <1>0, <2>2, <3>1, <3>2 DEF Sums, Joins
  <2>3. CASE i > n + 1
    <3>1. PICK k \in 2 .. m : i = n + k
      <4>1. i - n \in 2 .. m
        BY <2>3
      <4>. QED
        BY <4>1
    <3>2. numbers[i] = rest[k] /\ k \in 1 .. m /\ rest[k] \in Nat
      BY <3>1 DEF Joins
    <3>3. g[k] = g[k - 1] + rest[k] /\ g[k - 1] \in Nat /\ f[n] \in Nat
      BY <3>2 DEF Sums
    <3>4. h[i] = f[n] + g[k] /\ h[i - 1] = f[n] + g[k - 1]
      BY <1>0, <3>1
    <3>. QED
      BY <3>2, <3>3, <3>4
  <2>. QED
    BY <2>1, <2>2, <2>3
<1>. QED
  BY <1>1, <1>2 DEF Reaches

LEMMA SumSplit ==
    ASSUME NEW numbers \in Seq(Nat), NEW old \in Seq(Nat), NEW rest \in Seq(Nat),
           Len(numbers) = Len(old) + Len(rest),
           \A i \in 1 .. Len(old) : numbers[i] = old[i],
           \A i \in 1 .. Len(rest) : numbers[Len(old) + i] = rest[i]
    PROVE  SumOf(numbers) = SumOf(old) + SumOf(rest)
<1>1. PICK n \in Nat, m \in Nat : n = Len(old) /\ m = Len(rest)
  OBVIOUS
<1>2. PICK f : Sums(f, old, n) /\ SumOf(old) = f[n]
  BY <1>1, SumsOf
<1>3. PICK g : Sums(g, rest, m) /\ SumOf(rest) = g[m]
  BY <1>1, SumsOf
<1>5. Joins(numbers, old, n, rest, m)
  BY <1>1, SMTT(20) DEF Joins
<1>6. PICK h : Reaches(h, numbers, n + m, f[n] + g[m])
  BY <1>1, <1>2, <1>3, <1>5, SumsJoin
<1>7. SumOf(numbers) = h[Len(numbers)]
  BY <1>1, <1>6, SumIs DEF Reaches
<1>. QED
  BY <1>1, <1>2, <1>3, <1>6, <1>7 DEF Reaches

\* Without its kth number, a sum is that much less.
Lacks(left, numbers, n, k) ==
    /\ n \in Nat /\ k \in 1 .. n
    /\ \A i \in 1 .. n : numbers[i] \in Nat
    /\ \A i \in 1 .. n - 1 : left[i] = IF i < k THEN numbers[i] ELSE numbers[i + 1]

LEMMA SumsLess ==
    ASSUME NEW n, NEW m, m = n - 1, NEW numbers, NEW left, NEW f, NEW k,
           Lacks(left, numbers, n, k), Sums(f, numbers, n)
    PROVE  \E g : /\ g[0] = 0 /\ g[m] = f[n] - numbers[k]
                  /\ \A i \in 1 .. m : g[i] = g[i - 1] + left[i]
<1> /\ n \in Nat /\ m \in Nat /\ m + 1 = n /\ k \in 1 .. n
    /\ \A i \in 1 .. n : numbers[i] \in Nat
    /\ \A i \in 1 .. m : left[i] = IF i < k THEN numbers[i] ELSE numbers[i + 1]
  BY DEF Lacks
<1>0. PICK g : g = [i \in 0 .. m |-> IF i < k THEN f[i] ELSE f[i + 1] - numbers[k]]
  OBVIOUS
<1>1. g[0] = 0
  BY <1>0 DEF Sums
<1>2. g[m] = f[n] - numbers[k]
  <2>0. f[n] = f[n - 1] + numbers[n] /\ n - 1 = m /\ f[m] \in Nat /\ numbers[n] \in Nat
    BY DEF Sums
  <2>1. CASE k = n
    BY <1>0, <2>0, <2>1
  <2>2. CASE k # n
    BY <1>0, <2>0, <2>2
  <2>. QED
    BY <2>1, <2>2
<1>3. ASSUME NEW i \in 1 .. m PROVE g[i] = g[i - 1] + left[i]
  <2>0. /\ i \in 0 .. m /\ i - 1 \in 0 .. m /\ i + 1 \in 1 .. n /\ (i + 1) - 1 = i
        /\ i \in 1 .. n
    OBVIOUS
  <2>1a. \A x \in 1 .. n : f[x] = f[x - 1] + numbers[x] /\ f[x] \in Nat /\ numbers[x] \in Nat
    BY DEF Sums
  <2>1b. f[i - 1] \in Nat
    BY <2>0 DEF Sums
  <2>1. /\ f[i + 1] = f[i] + numbers[i + 1] /\ f[i] = f[i - 1] + numbers[i]
        /\ f[i] \in Nat /\ f[i + 1] \in Nat /\ f[i - 1] \in Nat
        /\ numbers[i] \in Nat /\ numbers[i + 1] \in Nat /\ numbers[k] \in Nat
    BY <2>0, <2>1a, <2>1b
  <2>2. CASE i < k
    <3>1. g[i] = f[i] /\ g[i - 1] = f[i - 1]
      BY <1>0, <2>0, <2>2
    <3>. QED
      BY <2>1, <2>2, <3>1
  <2>3. CASE i = k
    <3>1. g[i] = f[i + 1] - numbers[k] /\ g[i - 1] = f[i - 1]
      BY <1>0, <2>0, <2>3
    <3>. QED
      BY <2>1, <2>3, <3>1
  <2>4. CASE i > k
    <3>1. g[i] = f[i + 1] - numbers[k] /\ g[i - 1] = f[i] - numbers[k]
      BY <1>0, <2>0, <2>4
    <3>. QED
      BY <2>1, <2>4, <3>1
  <2>. QED
    BY <2>2, <2>3, <2>4
<1>. QED
  BY <1>1, <1>2, <1>3

LEMMA SumWithout ==
    ASSUME NEW numbers \in Seq(Nat), NEW k \in 1 .. Len(numbers), NEW left \in Seq(Nat),
           Len(left) = Len(numbers) - 1,
           \A i \in 1 .. Len(left) : left[i] = IF i < k THEN numbers[i] ELSE numbers[i + 1]
    PROVE  SumOf(left) = SumOf(numbers) - numbers[k]
<1>1. PICK n \in Nat, m \in Nat : n = Len(numbers) /\ m = Len(left)
  OBVIOUS
<1>2. PICK f : Sums(f, numbers, n) /\ SumOf(numbers) = f[n]
  BY <1>1, SumsOf
<1>4. m = n - 1 /\ Lacks(left, numbers, n, k)
  BY <1>1 DEF Lacks
<1>5. PICK g : /\ g[0] = 0 /\ g[m] = f[n] - numbers[k]
               /\ \A i \in 1 .. m : g[i] = g[i - 1] + left[i]
  BY <1>2, <1>4, SumsLess, SMTT(30)
<1>6. SumOf(left) = g[Len(left)]
  BY <1>1, <1>5, SumIs
<1>. QED
  BY <1>1, <1>2, <1>5, <1>6

\* With another kth number, a sum changes by the difference.
Differs(others, numbers, n, k) ==
    /\ n \in Nat /\ k \in 1 .. n
    /\ \A i \in 1 .. n : numbers[i] \in Nat /\ others[i] \in Nat
    /\ \A i \in 1 .. n : i # k => others[i] = numbers[i]

LEMMA SumsChange ==
    ASSUME NEW n, NEW numbers, NEW others, NEW f, NEW k,
           Differs(others, numbers, n, k), Sums(f, numbers, n)
    PROVE  \E g : /\ g[0] = 0 /\ g[n] = f[n] - numbers[k] + others[k]
                  /\ \A i \in 1 .. n : g[i] = g[i - 1] + others[i]
<1> /\ n \in Nat /\ k \in 1 .. n
    /\ \A i \in 1 .. n : numbers[i] \in Nat /\ others[i] \in Nat
    /\ \A i \in 1 .. n : i # k => others[i] = numbers[i]
  BY DEF Differs
<1>0. PICK g : g = [i \in 0 .. n |-> IF i < k THEN f[i] ELSE f[i] - numbers[k] + others[k]]
  OBVIOUS
<1>1. g[0] = 0 /\ g[n] = f[n] - numbers[k] + others[k]
  BY <1>0 DEF Sums
<1>2. ASSUME NEW i \in 1 .. n PROVE g[i] = g[i - 1] + others[i]
  <2>0. i \in 0 .. n /\ i - 1 \in 0 .. n
    OBVIOUS
  <2>1. /\ f[i] = f[i - 1] + numbers[i] /\ f[i] \in Nat /\ f[i - 1] \in Nat
        /\ numbers[i] \in Nat /\ numbers[k] \in Nat /\ others[k] \in Nat
    BY <2>0 DEF Sums
  <2>2. CASE i < k
    <3>1. g[i] = f[i] /\ g[i - 1] = f[i - 1] /\ others[i] = numbers[i]
      BY <1>0, <2>0, <2>2
    <3>. QED
      BY <2>1, <3>1
  <2>3. CASE i = k
    <3>1. g[i] = f[i] - numbers[k] + others[k] /\ g[i - 1] = f[i - 1]
      BY <1>0, <2>0, <2>3
    <3>. QED
      BY <2>1, <2>3, <3>1
  <2>4. CASE i > k
    <3>1. /\ g[i] = f[i] - numbers[k] + others[k] /\ g[i - 1] = f[i - 1] - numbers[k] + others[k]
          /\ others[i] = numbers[i]
      BY <1>0, <2>0, <2>4
    <3>. QED
      BY <2>1, <3>1
  <2>. QED
    BY <2>2, <2>3, <2>4
<1>. QED
  BY <1>1, <1>2

LEMMA SumWith ==
    ASSUME NEW numbers \in Seq(Nat), NEW k \in 1 .. Len(numbers), NEW others \in Seq(Nat),
           Len(others) = Len(numbers), \A i \in 1 .. Len(others) : i # k => others[i] = numbers[i]
    PROVE  SumOf(others) = SumOf(numbers) - numbers[k] + others[k]
<1>1. PICK n \in Nat : n = Len(numbers)
  OBVIOUS
<1>2. PICK f : Sums(f, numbers, n) /\ SumOf(numbers) = f[n]
  BY <1>1, SumsOf
<1>4. Differs(others, numbers, n, k)
  BY <1>1, SMTT(20) DEF Differs
<1>5. PICK g : /\ g[0] = 0 /\ g[n] = f[n] - numbers[k] + others[k]
               /\ \A i \in 1 .. n : g[i] = g[i - 1] + others[i]
  BY <1>2, <1>4, SumsChange
<1>6. SumOf(others) = g[Len(others)]
  BY <1>1, <1>5, SumIs
<1>. QED
  BY <1>1, <1>2, <1>5, <1>6

---------------------------------------------------------------------------
(* What a queue holds, and what it costs.                                  *)

Kinds == {"none", "note", "state", "metrics", "batch"}
States == {"none", "loading", "empty", "running", "complete", "stopped", "failed"}
Event == [kind : Kinds, read : 0 .. MaxReads, state : States, received : Nat, dropped : Nat,
          records : Seq(Nat), seq : Nat]
Entry == [event : Event, bytes : Nat, generation : Nat]
Failures == {"none", "event-limit", "byte-limit", "record-limit", "record-byte-limit"}
Queue == [pending : Seq(Entry), inflight : Seq(Entry), drops : Seq(Nat),
          bytes : Int, records : Int, recordBytes : Int, failure : Failures]

\* What an entry adds to the three costs of its queue.
ByteCost == [entry \in Entry |-> entry.bytes]
CountCost == [entry \in Entry |-> Len(entry.event.records)]
SizeCost == [entry \in Entry |-> SizeOf(entry.event.records)]
Cost(f, entries) == SumOf([i \in 1 .. Len(entries) |-> f[entries[i]]])

EntryFits(entry, drops) == entry.bytes = EventBytes(entry.event) /\ entry.generation \in 1 .. Len(drops)
Paid(q) ==
    /\ q.bytes = Cost(ByteCost, q.inflight) + Cost(ByteCost, q.pending)
    /\ q.records = Cost(CountCost, q.inflight) + Cost(CountCost, q.pending)
    /\ q.recordBytes = Cost(SizeCost, q.inflight) + Cost(SizeCost, q.pending)
QueueFits(q) ==
    /\ q \in Queue /\ Len(q.inflight) <= 1 /\ Len(q.drops) >= 1
    /\ \A i \in 1 .. Len(q.pending) : EntryFits(q.pending[i], q.drops)
    /\ \A i \in 1 .. Len(q.inflight) : EntryFits(q.inflight[i], q.drops)
    /\ Paid(q)

LEMMA SizeTyped ==
    ASSUME NEW records \in Seq(Nat)
    PROVE  SizeOf(records) \in Nat /\ [i \in 1 .. Len(records) |-> Size(records[i])] \in Seq(Nat)
<1>1. [i \in 1 .. Len(records) |-> Size(records[i])] \in Seq(Nat)
  <2>1. \A i \in 1 .. Len(records) : Size(records[i]) \in Nat
    BY QueueAssumption DEF Size
  <2>. QED
    BY <2>1
<1>. QED
  BY <1>1, SumTyped DEF SizeOf

\* The size of records is that of the first n and that of the others.
LEMMA SizeSplit ==
    ASSUME NEW records \in Seq(Nat), NEW n \in 0 .. Len(records)
    PROVE  SizeOf(records) = SizeOf(SubSeq(records, 1, n)) + SizeOf(SubSeq(records, n + 1, Len(records)))
<1>1. PICK old, rest : old = SubSeq(records, 1, n) /\ rest = SubSeq(records, n + 1, Len(records))
  OBVIOUS
<1>2. /\ old \in Seq(Nat) /\ rest \in Seq(Nat) /\ Len(old) = n /\ Len(rest) = Len(records) - n
      /\ \A i \in 1 .. n : old[i] = records[i]
      /\ \A i \in 1 .. Len(rest) : rest[i] = records[n + i]
  BY <1>1, SMTT(40)
<1>3. PICK a \in Seq(Nat), b \in Seq(Nat), c \in Seq(Nat) :
         /\ a = [i \in 1 .. Len(records) |-> Size(records[i])]
         /\ b = [i \in 1 .. Len(old) |-> Size(old[i])]
         /\ c = [i \in 1 .. Len(rest) |-> Size(rest[i])]
  BY <1>2, SizeTyped
<1>4. /\ Len(a) = Len(records) /\ Len(b) = n /\ Len(c) = Len(records) - n
      /\ \A i \in 1 .. Len(b) : a[i] = b[i]
      /\ \A i \in 1 .. Len(c) : a[Len(b) + i] = c[i]
  BY <1>2, <1>3
<1>5. SumOf(a) = SumOf(b) + SumOf(c)
  <2>1. Len(a) = Len(b) + Len(c)
    BY <1>4
  <2>. QED
    BY <1>4, <2>1, SumSplit
<1>. QED
  BY <1>1, <1>3, <1>5 DEF SizeOf

LEMMA EventBytesTyped ==
    ASSUME NEW event \in Event
    PROVE  EventBytes(event) \in Nat /\ SizeOf(event.records) \in Nat /\ Len(event.records) \in Nat
<1>1. event.records \in Seq(Nat)
  BY DEF Event
<1>. QED
  BY <1>1, SizeTyped DEF EventBytes

LEMMA CostsTyped ==
    /\ ByteCost \in [Entry -> Nat] /\ CountCost \in [Entry -> Nat] /\ SizeCost \in [Entry -> Nat]
    /\ \A entry \in Entry :
          /\ ByteCost[entry] = entry.bytes
          /\ CountCost[entry] = Len(entry.event.records)
          /\ SizeCost[entry] = SizeOf(entry.event.records)
<1>1. ASSUME NEW entry \in Entry
      PROVE  entry.bytes \in Nat /\ Len(entry.event.records) \in Nat /\ SizeOf(entry.event.records) \in Nat
  <2>1. entry.event \in Event /\ entry.bytes \in Nat
    BY DEF Entry
  <2>. QED
    BY <2>1, EventBytesTyped
<1>. QED
  BY <1>1 DEF ByteCost, CountCost, SizeCost

LEMMA CostTyped ==
    ASSUME NEW f \in [Entry -> Nat], NEW entries \in Seq(Entry)
    PROVE  /\ [i \in 1 .. Len(entries) |-> f[entries[i]]] \in Seq(Nat)
           /\ Cost(f, entries) \in Nat /\ (entries = <<>> => Cost(f, entries) = 0)
<1>1. [i \in 1 .. Len(entries) |-> f[entries[i]]] \in Seq(Nat)
  <2>1. \A i \in 1 .. Len(entries) : f[entries[i]] \in Nat
    OBVIOUS
  <2>. QED
    BY <2>1
<1>2. PICK numbers \in Seq(Nat) : numbers = [i \in 1 .. Len(entries) |-> f[entries[i]]]
  BY <1>1
<1>3. entries = <<>> => numbers = <<>>
  BY <1>2
<1>. QED
  BY <1>1, <1>2, <1>3, SumTyped DEF Cost

\* Without its kth entry
LEMMA CostWithout ==
    ASSUME NEW f \in [Entry -> Nat], NEW entries \in Seq(Entry), NEW k \in 1 .. Len(entries),
           NEW left \in Seq(Entry), Len(left) = Len(entries) - 1,
           \A i \in 1 .. Len(left) : left[i] = IF i < k THEN entries[i] ELSE entries[i + 1]
    PROVE  Cost(f, left) = Cost(f, entries) - f[entries[k]]
<1>1. PICK a \in Seq(Nat), b \in Seq(Nat) :
         /\ a = [i \in 1 .. Len(entries) |-> f[entries[i]]]
         /\ b = [i \in 1 .. Len(left) |-> f[left[i]]]
  BY CostTyped
<1>2. /\ Len(a) = Len(entries) /\ Len(b) = Len(left) /\ a[k] = f[entries[k]]
      /\ \A i \in 1 .. Len(b) : b[i] = IF i < k THEN a[i] ELSE a[i + 1]
  <2>1. Len(a) = Len(entries) /\ Len(b) = Len(left) /\ a[k] = f[entries[k]]
    BY <1>1
  <2>2. ASSUME NEW i \in 1 .. Len(b) PROVE b[i] = IF i < k THEN a[i] ELSE a[i + 1]
    <3>1. i \in 1 .. Len(left) /\ i \in 1 .. Len(entries) /\ i + 1 \in 1 .. Len(entries)
      BY <2>1
    <3>2. b[i] = f[left[i]] /\ a[i] = f[entries[i]] /\ a[i + 1] = f[entries[i + 1]]
      BY <1>1, <3>1
    <3>. QED
      BY <3>1, <3>2
  <2>. QED
    BY <2>1, <2>2
<1>3. SumOf(b) = SumOf(a) - a[k]
  <2>1. k \in 1 .. Len(a) /\ Len(b) = Len(a) - 1
    BY <1>2
  <2>. QED
    BY <1>2, <2>1, SumWithout
<1>. QED
  BY <1>1, <1>2, <1>3 DEF Cost

LEMMA WithoutEntry ==
    ASSUME NEW S, NEW entries \in Seq(S), NEW k \in 1 .. Len(entries)
    PROVE  /\ RemoveAt(entries, k) \in Seq(S) /\ Len(RemoveAt(entries, k)) = Len(entries) - 1
           /\ \A i \in 1 .. Len(entries) - 1 :
                 RemoveAt(entries, k)[i] = IF i < k THEN entries[i] ELSE entries[i + 1]
<1>1. PICK a, b : a = SubSeq(entries, 1, k - 1) /\ b = SubSeq(entries, k + 1, Len(entries))
  OBVIOUS
<1>2. /\ a \in Seq(S) /\ Len(a) = k - 1 /\ \A i \in 1 .. k - 1 : a[i] = entries[i]
  BY <1>1
<1>3. b \in Seq(S) /\ Len(b) = Len(entries) - k /\ \A i \in 1 .. Len(entries) - k : b[i] = entries[k + i]
  BY <1>1
<1>4. RemoveAt(entries, k) = a \o b
  BY <1>1 DEF RemoveAt
<1>5. /\ a \o b \in Seq(S) /\ Len(a \o b) = Len(a) + Len(b)
      /\ \A i \in 1 .. Len(a) + Len(b) : (a \o b)[i] = IF i <= Len(a) THEN a[i] ELSE b[i - Len(a)]
  BY <1>2, <1>3, ConcatProperties
<1>6. ASSUME NEW i \in 1 .. Len(entries) - 1 PROVE (a \o b)[i] = IF i < k THEN entries[i] ELSE entries[i + 1]
  <2>1. i \in 1 .. Len(a) + Len(b)
    BY <1>2, <1>3
  <2>2. CASE i < k
    BY <1>2, <1>5, <2>1, <2>2
  <2>3. CASE ~(i < k)
    <3>1. PICK j \in 1 .. Len(entries) - k : i = j + (k - 1)
      <4>1. i - (k - 1) \in 1 .. Len(entries) - k
        BY <2>3
      <4>. QED
        BY <4>1
    <3>2. (a \o b)[i] = b[j]
      BY <1>2, <1>5, <2>1, <2>3, <3>1
    <3>3. b[j] = entries[k + j] /\ k + j = i + 1
      BY <1>3, <3>1
    <3>. QED
      BY <2>3, <3>2, <3>3
  <2>. QED
    BY <2>2, <2>3
<1>7. Len(a) + Len(b) = Len(entries) - 1
  BY <1>2, <1>3
<1>. QED
  BY <1>4, <1>5, <1>6, <1>7

LEMMA CostRemoved ==
    ASSUME NEW f \in [Entry -> Nat], NEW entries \in Seq(Entry), NEW k \in 1 .. Len(entries)
    PROVE  Cost(f, RemoveAt(entries, k)) = Cost(f, entries) - f[entries[k]]
<1>1. PICK left : left = RemoveAt(entries, k)
  OBVIOUS
<1>2. /\ left \in Seq(Entry) /\ Len(left) = Len(entries) - 1
      /\ \A i \in 1 .. Len(entries) - 1 : left[i] = IF i < k THEN entries[i] ELSE entries[i + 1]
  BY <1>1, WithoutEntry
<1>3. Cost(f, left) = Cost(f, entries) - f[entries[k]]
  BY <1>2, CostWithout, ZenonT(100)
<1>. QED
  BY <1>1, <1>3

LEMMA CostTail ==
    ASSUME NEW f \in [Entry -> Nat], NEW entries \in Seq(Entry), entries # <<>>
    PROVE  Cost(f, Tail(entries)) = Cost(f, entries) - f[entries[1]]
<1>1. /\ Tail(entries) \in Seq(Entry) /\ 1 \in 1 .. Len(entries) /\ Len(Tail(entries)) = Len(entries) - 1
      /\ \A i \in 1 .. Len(Tail(entries)) : Tail(entries)[i] = entries[i + 1] /\ ~(i < 1)
  OBVIOUS
<1>. QED
  BY <1>1, CostWithout

LEMMA CostAppended ==
    ASSUME NEW f \in [Entry -> Nat], NEW entries \in Seq(Entry), NEW entry \in Entry
    PROVE  Cost(f, Append(entries, entry)) = Cost(f, entries) + f[entry]
<1>1. PICK more : more = Append(entries, entry)
  OBVIOUS
<1>2. PICK k \in Nat : k = Len(entries) + 1
  OBVIOUS
<1>3. /\ more \in Seq(Entry) /\ k \in 1 .. Len(more) /\ Len(entries) = Len(more) - 1 /\ more[k] = entry
      /\ \A i \in 1 .. Len(entries) : entries[i] = more[i] /\ i < k
  BY <1>1, <1>2
<1>4. Cost(f, entries) = Cost(f, more) - f[more[k]]
  BY <1>3, CostWithout
<1>5. Cost(f, entries) \in Nat /\ Cost(f, more) \in Nat /\ f[entry] \in Nat
  BY <1>3, CostTyped
<1>. QED
  BY <1>1, <1>3, <1>4, <1>5

\* With another kth entry
LEMMA CostChanged ==
    ASSUME NEW f \in [Entry -> Nat], NEW entries \in Seq(Entry), NEW k \in 1 .. Len(entries), NEW entry \in Entry
    PROVE  /\ [entries EXCEPT ![k] = entry] \in Seq(Entry)
           /\ Cost(f, [entries EXCEPT ![k] = entry]) = Cost(f, entries) - f[entries[k]] + f[entry]
<1>1. PICK others : others = [entries EXCEPT ![k] = entry]
  OBVIOUS
<1>1a. others \in Seq(Entry) /\ Len(others) = Len(entries)
       /\ \A j \in 1 .. Len(entries) : others[j] = IF j = k THEN entry ELSE entries[j]
  BY <1>1, ExceptSeq
<1>2. PICK a \in Seq(Nat), b \in Seq(Nat) :
         /\ a = [i \in 1 .. Len(entries) |-> f[entries[i]]]
         /\ b = [i \in 1 .. Len(others) |-> f[others[i]]]
  BY <1>1a, CostTyped
<1>3. Len(others) = Len(entries) /\ others[k] = entry /\ \A i \in 1 .. Len(entries) : i # k => others[i] = entries[i]
  BY <1>1a
<1>4. /\ Len(a) = Len(entries) /\ Len(b) = Len(entries) /\ a[k] = f[entries[k]] /\ b[k] = f[entry]
      /\ \A i \in 1 .. Len(b) : i # k => b[i] = a[i]
  BY <1>2, <1>3
<1>5. SumOf(b) = SumOf(a) - a[k] + b[k]
  <2>1. k \in 1 .. Len(a) /\ Len(b) = Len(a)
    BY <1>4
  <2>. QED
    BY <1>4, <2>1, SumWith
<1>. QED
  BY <1>1, <1>1a, <1>2, <1>4, <1>5 DEF Cost

---------------------------------------------------------------------------
(* What the operations of a queue do to its costs.                         *)

LEMMA QueueTyped ==
    ASSUME NEW q, QueueFits(q)
    PROVE  /\ q = [pending |-> q.pending, inflight |-> q.inflight, drops |-> q.drops, bytes |-> q.bytes,
                   records |-> q.records, recordBytes |-> q.recordBytes, failure |-> q.failure]
           /\ q.pending \in Seq(Entry) /\ q.inflight \in Seq(Entry) /\ q.drops \in Seq(Nat)
           /\ q.bytes \in Int /\ q.records \in Int /\ q.recordBytes \in Int /\ q.failure \in Failures
           /\ \A i \in 1 .. Len(q.pending) : q.pending[i] \in Entry
           /\ \A i \in 1 .. Len(q.inflight) : q.inflight[i] \in Entry
  BY DEF QueueFits, Queue

LEMMA EntryTyped ==
    ASSUME NEW entry \in Entry
    PROVE  /\ entry = [event |-> entry.event, bytes |-> entry.bytes, generation |-> entry.generation]
           /\ entry.event \in Event /\ entry.bytes \in Nat /\ entry.generation \in Nat
           /\ entry.event.records \in Seq(Nat) /\ Len(entry.event.records) \in Nat
           /\ SizeOf(entry.event.records) \in Nat
<1>1. entry.event \in Event
  BY DEF Entry
<1>. QED
  BY <1>1, EventBytesTyped DEF Entry, Event

\* The three costs of entries
LEMMA CostsNat ==
    ASSUME NEW entries \in Seq(Entry)
    PROVE  /\ Cost(ByteCost, entries) \in Nat /\ Cost(CountCost, entries) \in Nat
           /\ Cost(SizeCost, entries) \in Nat
           /\ entries = <<>> => /\ Cost(ByteCost, entries) = 0 /\ Cost(CountCost, entries) = 0
                                /\ Cost(SizeCost, entries) = 0
<1>1. ByteCost \in [Entry -> Nat] /\ CountCost \in [Entry -> Nat] /\ SizeCost \in [Entry -> Nat]
  BY CostsTyped
<1>2. Cost(ByteCost, entries) \in Nat /\ (entries = <<>> => Cost(ByteCost, entries) = 0)
  BY <1>1, CostTyped
<1>3. Cost(CountCost, entries) \in Nat /\ (entries = <<>> => Cost(CountCost, entries) = 0)
  BY <1>1, CostTyped
<1>4. Cost(SizeCost, entries) \in Nat /\ (entries = <<>> => Cost(SizeCost, entries) = 0)
  BY <1>1, CostTyped
<1>. QED
  BY <1>2, <1>3, <1>4

LEMMA CostsRemoved ==
    ASSUME NEW entries \in Seq(Entry), NEW k \in 1 .. Len(entries), NEW entry \in Entry, entry = entries[k]
    PROVE  /\ Cost(ByteCost, RemoveAt(entries, k)) = Cost(ByteCost, entries) - entry.bytes
           /\ Cost(CountCost, RemoveAt(entries, k)) = Cost(CountCost, entries) - Len(entry.event.records)
           /\ Cost(SizeCost, RemoveAt(entries, k)) = Cost(SizeCost, entries) - SizeOf(entry.event.records)
<1>1. ByteCost \in [Entry -> Nat] /\ CountCost \in [Entry -> Nat] /\ SizeCost \in [Entry -> Nat]
  BY CostsTyped
<1>2. Cost(ByteCost, RemoveAt(entries, k)) = Cost(ByteCost, entries) - ByteCost[entry]
  BY <1>1, CostRemoved
<1>3. Cost(CountCost, RemoveAt(entries, k)) = Cost(CountCost, entries) - CountCost[entry]
  BY <1>1, CostRemoved
<1>4. Cost(SizeCost, RemoveAt(entries, k)) = Cost(SizeCost, entries) - SizeCost[entry]
  BY <1>1, CostRemoved
<1>. QED
  BY <1>2, <1>3, <1>4, CostsTyped

LEMMA CostsChanged ==
    ASSUME NEW entries \in Seq(Entry), NEW k \in 1 .. Len(entries), NEW old \in Entry, old = entries[k],
           NEW entry \in Entry
    PROVE  LET others == [entries EXCEPT ![k] = entry]
           IN  /\ Cost(ByteCost, others) = Cost(ByteCost, entries) - old.bytes + entry.bytes
               /\ Cost(CountCost, others) = Cost(CountCost, entries) - Len(old.event.records)
                                                + Len(entry.event.records)
               /\ Cost(SizeCost, others) = Cost(SizeCost, entries) - SizeOf(old.event.records)
                                               + SizeOf(entry.event.records)
<1>1. ByteCost \in [Entry -> Nat] /\ CountCost \in [Entry -> Nat] /\ SizeCost \in [Entry -> Nat]
  BY CostsTyped
<1>2. Cost(ByteCost, [entries EXCEPT ![k] = entry]) = Cost(ByteCost, entries) - ByteCost[old] + ByteCost[entry]
  BY <1>1, CostChanged
<1>3. Cost(CountCost, [entries EXCEPT ![k] = entry]) = Cost(CountCost, entries) - CountCost[old] + CountCost[entry]
  BY <1>1, CostChanged
<1>4. Cost(SizeCost, [entries EXCEPT ![k] = entry]) = Cost(SizeCost, entries) - SizeCost[old] + SizeCost[entry]
  BY <1>1, CostChanged
<1>. QED
  BY <1>2, <1>3, <1>4, CostsTyped

LEMMA CostsAppended ==
    ASSUME NEW entries \in Seq(Entry), NEW entry \in Entry
    PROVE  /\ Cost(ByteCost, Append(entries, entry)) = Cost(ByteCost, entries) + entry.bytes
           /\ Cost(CountCost, Append(entries, entry)) = Cost(CountCost, entries) + Len(entry.event.records)
           /\ Cost(SizeCost, Append(entries, entry)) = Cost(SizeCost, entries) + SizeOf(entry.event.records)
<1>1. ByteCost \in [Entry -> Nat] /\ CountCost \in [Entry -> Nat] /\ SizeCost \in [Entry -> Nat]
  BY CostsTyped
<1>2. Cost(ByteCost, Append(entries, entry)) = Cost(ByteCost, entries) + ByteCost[entry]
  BY <1>1, CostAppended
<1>3. Cost(CountCost, Append(entries, entry)) = Cost(CountCost, entries) + CountCost[entry]
  BY <1>1, CostAppended
<1>4. Cost(SizeCost, Append(entries, entry)) = Cost(SizeCost, entries) + SizeCost[entry]
  BY <1>1, CostAppended
<1>. QED
  BY <1>2, <1>3, <1>4, CostsTyped

\* A queue of these parts fits.
LEMMA QueueOf ==
    ASSUME NEW q, QueueFits(q), NEW pending \in Seq(Entry), NEW drops \in Seq(Nat), Len(drops) = Len(q.drops),
           NEW bytes \in Int, NEW records \in Int, NEW recordBytes \in Int, NEW failure \in Failures,
           \A i \in 1 .. Len(pending) : EntryFits(pending[i], drops),
           bytes = Cost(ByteCost, q.inflight) + Cost(ByteCost, pending),
           records = Cost(CountCost, q.inflight) + Cost(CountCost, pending),
           recordBytes = Cost(SizeCost, q.inflight) + Cost(SizeCost, pending)
    PROVE  QueueFits([pending |-> pending, inflight |-> q.inflight, drops |-> drops, bytes |-> bytes,
                      records |-> records, recordBytes |-> recordBytes, failure |-> failure])
<1>1. PICK p : p = [pending |-> pending, inflight |-> q.inflight, drops |-> drops, bytes |-> bytes,
                    records |-> records, recordBytes |-> recordBytes, failure |-> failure]
  OBVIOUS
<1>2. p \in Queue
  BY <1>1, QueueTyped DEF Queue
<1>3. \A i \in 1 .. Len(p.inflight) : EntryFits(p.inflight[i], p.drops)
  BY <1>1 DEF QueueFits, EntryFits
<1>4. Paid(p)
  BY <1>1 DEF Paid
<1>. QED
  BY <1>1, <1>2, <1>3, <1>4 DEF QueueFits

LEMMA RemovedFits ==
    ASSUME NEW q, QueueFits(q), NEW k \in 1 .. Len(q.pending), NEW dropped \in BOOLEAN
    PROVE  LET p == Removed(q, k, dropped)
           IN  /\ QueueFits(p) /\ p.inflight = q.inflight /\ p.pending = RemoveAt(q.pending, k)
               /\ Len(p.drops) = Len(q.drops) /\ p.failure = q.failure
               /\ p.pending \in Seq(Entry) /\ Len(p.pending) = Len(q.pending) - 1
<1>1. PICK entry \in Entry : entry = q.pending[k] /\ EntryFits(entry, q.drops)
  BY QueueTyped DEF QueueFits
<1>2. PICK drops : drops = IF dropped THEN [q.drops EXCEPT ![entry.generation] = @ + Len(entry.event.records)]
                           ELSE q.drops
  OBVIOUS
<1>3. drops \in Seq(Nat) /\ Len(drops) = Len(q.drops)
  <2>1. PICK g \in 1 .. Len(q.drops), n \in Nat : g = entry.generation /\ n = Len(entry.event.records)
    BY <1>1, EntryTyped DEF EntryFits
  <2>2. q.drops \in Seq(Nat)
    BY QueueTyped
  <2>3. PICK old \in Seq(Nat) : old = q.drops
    BY <2>2
  <2>4. PICK x \in Nat : x = old[g] + n
    BY <2>1, <2>3, SMTT(20)
  <2>5. [old EXCEPT ![g] = x] \in Seq(Nat) /\ Len([old EXCEPT ![g] = x]) = Len(old)
    BY <2>1, <2>3, <2>4, ExceptSeq
  <2>. QED
    BY <1>2, <2>1, <2>3, <2>4, <2>5
<1>4. PICK left : left = RemoveAt(q.pending, k)
  OBVIOUS
<1>5. /\ left \in Seq(Entry) /\ Len(left) = Len(q.pending) - 1
      /\ \A i \in 1 .. Len(left) : left[i] = IF i < k THEN q.pending[i] ELSE q.pending[i + 1]
  BY <1>4, QueueTyped, WithoutEntry, SMTT(20)
<1>6. \A i \in 1 .. Len(left) : EntryFits(left[i], drops)
  <2>1. \A i \in 1 .. Len(q.pending) : EntryFits(q.pending[i], drops)
    BY <1>3 DEF QueueFits, EntryFits
  <2>2. Len(q.pending) \in Nat
    BY QueueTyped
  <2>3. ASSUME NEW i \in 1 .. Len(left) PROVE EntryFits(left[i], drops)
    <3>1. i \in 1 .. Len(q.pending) /\ i + 1 \in 1 .. Len(q.pending)
      BY <1>5, <2>2
    <3>. QED
      BY <1>5, <2>1, <3>1
  <2>. QED
    BY <2>3
<1>7. PICK p : p = [pending |-> left, inflight |-> q.inflight, drops |-> drops, bytes |-> q.bytes - entry.bytes,
                    records |-> q.records - Len(entry.event.records),
                    recordBytes |-> q.recordBytes - SizeOf(entry.event.records), failure |-> q.failure]
  OBVIOUS
<1>8. Removed(q, k, dropped) = p
  <2>1. PICK rest : rest = [Released(q, entry) EXCEPT !.pending = RemoveAt(@, k)]
    OBVIOUS
  <2>2. rest = [pending |-> left, inflight |-> q.inflight, drops |-> q.drops, bytes |-> q.bytes - entry.bytes,
                records |-> q.records - Len(entry.event.records),
                recordBytes |-> q.recordBytes - SizeOf(entry.event.records), failure |-> q.failure]
    <3>1. q \in Queue
      BY DEF QueueFits
    <3>. QED
      BY <1>4, <2>1, <3>1 DEF Released, Queue
  <2>3. Removed(q, k, dropped) =
           IF dropped THEN [rest EXCEPT !.drops[entry.generation] = @ + Len(entry.event.records)] ELSE rest
    BY <1>1, <2>1 DEF Removed
  <2>. QED
    BY <1>2, <1>7, <2>2, <2>3
<1>9. QueueFits(p)
  <2>1. /\ Cost(ByteCost, left) = Cost(ByteCost, q.pending) - entry.bytes
        /\ Cost(CountCost, left) = Cost(CountCost, q.pending) - Len(entry.event.records)
        /\ Cost(SizeCost, left) = Cost(SizeCost, q.pending) - SizeOf(entry.event.records)
    <3>1. q.pending \in Seq(Entry)
      BY QueueTyped
    <3>. QED
      BY <1>1, <1>4, <3>1, CostsRemoved
  <2>2. /\ Cost(ByteCost, q.pending) \in Nat /\ Cost(CountCost, q.pending) \in Nat
        /\ Cost(SizeCost, q.pending) \in Nat
        /\ q.bytes \in Int /\ q.records \in Int /\ q.recordBytes \in Int /\ q.failure \in Failures
    BY QueueTyped, CostsNat
  <2>3. PICK count \in Nat, size \in Nat : count = Len(entry.event.records) /\ size = SizeOf(entry.event.records)
    BY EntryTyped
  <2>3a. PICK bytes \in Int, records \in Int, recordBytes \in Int :
           bytes = q.bytes - entry.bytes /\ records = q.records - count /\ recordBytes = q.recordBytes - size
    <3>1. entry.bytes \in Nat
      BY EntryTyped
    <3>2. q.bytes - entry.bytes \in Int /\ q.records - count \in Int /\ q.recordBytes - size \in Int
      BY <2>2, <3>1, SMTT(40)
    <3>. QED
      BY <3>2
  <2>4. /\ bytes = Cost(ByteCost, q.inflight) + Cost(ByteCost, left)
        /\ records = Cost(CountCost, q.inflight) + Cost(CountCost, left)
        /\ recordBytes = Cost(SizeCost, q.inflight) + Cost(SizeCost, left)
    <3>1. /\ entry.bytes \in Nat
          /\ Cost(ByteCost, q.inflight) \in Nat /\ Cost(CountCost, q.inflight) \in Nat
          /\ Cost(SizeCost, q.inflight) \in Nat
      BY EntryTyped, QueueTyped, CostsNat
    <3>2. PICK x \in Nat, y \in Nat, z \in Nat, n \in Nat, a \in Nat, b \in Nat, c \in Nat :
             /\ n = entry.bytes /\ a = Cost(ByteCost, q.inflight) /\ b = Cost(CountCost, q.inflight)
             /\ c = Cost(SizeCost, q.inflight) /\ x = Cost(ByteCost, q.pending)
             /\ y = Cost(CountCost, q.pending) /\ z = Cost(SizeCost, q.pending)
      BY <2>2, <3>1
    <3>3. /\ Cost(ByteCost, left) = x - n /\ Cost(CountCost, left) = y - count /\ Cost(SizeCost, left) = z - size
          /\ bytes = (a + x) - n /\ records = (b + y) - count /\ recordBytes = (c + z) - size
      BY <2>1, <2>3, <2>3a, <3>2 DEF QueueFits, Paid
    <3>4. bytes = a + (x - n) /\ records = b + (y - count) /\ recordBytes = c + (z - size)
      BY <3>3
    <3>. QED
      BY <3>2, <3>3, <3>4
  <2>5. QueueFits([pending |-> left, inflight |-> q.inflight, drops |-> drops, bytes |-> bytes,
                   records |-> records, recordBytes |-> recordBytes, failure |-> q.failure])
    BY <1>3, <1>5, <1>6, <2>2, <2>4, QueueOf
  <2>. QED
    BY <1>7, <2>3, <2>3a, <2>5
<1>. QED
  BY <1>3, <1>4, <1>5, <1>7, <1>8, <1>9

\* What an entry costs without its n oldest records.
LEMMA ShorterBytes ==
    ASSUME NEW event \in Event, NEW n \in 1 .. Len(event.records) - 1, NEW shorter \in Event,
           shorter.records = SubSeq(event.records, n + 1, Len(event.records))
    PROVE  LET size == SizeOf(SubSeq(event.records, 1, n))
           IN  /\ size \in Nat /\ n \in Nat
               /\ Len(shorter.records) = Len(event.records) - n
               /\ SizeOf(shorter.records) = SizeOf(event.records) - size
               /\ EventBytes(shorter) = EventBytes(event) - size - n
<1>1. event.records \in Seq(Nat) /\ shorter.records \in Seq(Nat)
  BY DEF Event
<1>2. PICK old : old = SubSeq(event.records, 1, n)
  OBVIOUS
<1>3. old \in Seq(Nat)
  BY <1>1, <1>2, SMTT(20)
<1>4. Len(shorter.records) = Len(event.records) - n
  BY <1>1
<1>5. SizeOf(event.records) = SizeOf(old) + SizeOf(shorter.records)
  BY <1>1, <1>2, SizeSplit
<1>6. SizeOf(event.records) \in Nat /\ SizeOf(old) \in Nat /\ SizeOf(shorter.records) \in Nat
  BY <1>1, <1>3, SizeTyped
<1>7. Len(event.records) \in Nat /\ n \in Nat /\ n >= 1 /\ n <= Len(event.records) - 1
  BY <1>1
<1>8. SizeOf(shorter.records) = SizeOf(event.records) - SizeOf(old)
  BY <1>5, <1>6
<1>9. EventBytes(shorter) = EventBytes(event) - SizeOf(old) - n
  <2>1. PICK a \in Nat, b \in Nat, c \in Nat, m \in Nat :
           /\ a = SizeOf(event.records) /\ b = SizeOf(old) /\ c = SizeOf(shorter.records)
           /\ m = Len(event.records)
    BY <1>6, <1>7
  <2>2. n <= m - 1 /\ n >= 1 /\ n \in Nat /\ a = b + c /\ Len(shorter.records) = m - n
    BY <1>4, <1>5, <1>7, <2>1
  <2>3. EventBytes(event) = 1 + a + (IF m > 1 THEN m - 1 ELSE 0)
    BY <2>1 DEF EventBytes
  <2>4. EventBytes(shorter) = 1 + c + (IF m - n > 1 THEN (m - n) - 1 ELSE 0)
    BY <2>1, <2>2 DEF EventBytes
  <2>5. 1 + c + (IF m - n > 1 THEN (m - n) - 1 ELSE 0) = (1 + a + (IF m > 1 THEN m - 1 ELSE 0)) - b - n
    BY <2>2
  <2>. QED
    BY <2>1, <2>3, <2>4, <2>5
<1>. QED
  BY <1>2, <1>4, <1>6, <1>7, <1>8, <1>9

---------------------------------------------------------------------------
(* Trimming.                                                               *)

\* What every step of making room leaves: the lease, and the costs of the rest.
Roomier(q, p) ==
    /\ QueueFits(p) /\ p.inflight = q.inflight /\ p.failure = q.failure
    /\ Len(p.pending) <= Len(q.pending) /\ Len(p.drops) = Len(q.drops)

LEMMA RoomierOn ==
    ASSUME NEW p, NEW q, NEW s, QueueFits(p), Roomier(p, q), Roomier(q, s)
    PROVE  Roomier(p, s)
<1>1. QueueFits(q) /\ QueueFits(s)
  BY DEF Roomier
<1>2. Len(p.pending) \in Nat /\ Len(q.pending) \in Nat /\ Len(s.pending) \in Nat
  BY <1>1, QueueTyped, SMTT(20)
<1>. QED
  BY <1>2 DEF Roomier

LEMMA SameRoomier == ASSUME NEW q, QueueFits(q) PROVE Roomier(q, q)
<1>1. Len(q.pending) \in Nat
  BY QueueTyped
<1>. QED
  BY <1>1 DEF Roomier

LEMMA RemovedRoomier ==
    ASSUME NEW q, QueueFits(q), NEW i \in 1 .. Len(q.pending), NEW dropped \in BOOLEAN
    PROVE  Roomier(q, Removed(q, i, dropped))
<1>1. Len(q.pending) \in Nat
  BY QueueTyped
<1>. QED
  BY <1>1, RemovedFits DEF Roomier

\* An entry without its n oldest records, which have a size
IsShorter(shorter, entry, n, size) ==
    /\ shorter = [entry EXCEPT !.event.records = SubSeq(@, n + 1, Len(@)), !.bytes = @ - size - n]
    /\ size \in Nat /\ shorter.bytes = entry.bytes - size - n
    /\ Len(shorter.event.records) = Len(entry.event.records) - n
    /\ SizeOf(shorter.event.records) = SizeOf(entry.event.records) - size

LEMMA ShorterEntry ==
    ASSUME NEW entry \in Entry, NEW n \in 1 .. Len(entry.event.records) - 1, NEW drops, EntryFits(entry, drops),
           NEW size, size = SizeOf(SubSeq(entry.event.records, 1, n))
    PROVE  \E shorter \in Entry : IsShorter(shorter, entry, n, size) /\ EntryFits(shorter, drops)
<1>1. PICK event \in Event : event = entry.event
  BY EntryTyped
<1>2. PICK other : other = [event EXCEPT !.records = SubSeq(@, n + 1, Len(@))]
  OBVIOUS
<1>3. event.records \in Seq(Nat) /\ SubSeq(event.records, n + 1, Len(event.records)) \in Seq(Nat)
  BY SMTT(20) DEF Event
<1>4. other \in Event /\ other.records = SubSeq(event.records, n + 1, Len(event.records))
  BY <1>2, <1>3 DEF Event
<1>6. /\ size \in Nat /\ n \in Nat
      /\ Len(other.records) = Len(event.records) - n
      /\ SizeOf(other.records) = SizeOf(event.records) - size
      /\ EventBytes(other) = EventBytes(event) - size - n
  BY <1>1, <1>4, ShorterBytes, ZenonT(30)
<1>7. PICK shorter : shorter = [entry EXCEPT !.event.records = SubSeq(@, n + 1, Len(@)), !.bytes = @ - size - n]
  OBVIOUS
<1>8. shorter = [event |-> other, bytes |-> EventBytes(other), generation |-> entry.generation]
  <2>1. entry = [event |-> event, bytes |-> EventBytes(event), generation |-> entry.generation]
    BY <1>1, EntryTyped DEF EntryFits
  <2>2. PICK bytes, records : bytes = entry.bytes - size - n /\ records = SubSeq(event.records, n + 1, Len(event.records))
    OBVIOUS
  <2>3. bytes = EventBytes(other)
    BY <1>1, <1>6, <2>2 DEF EntryFits
  <2>4. shorter = [entry EXCEPT !.event.records = records, !.bytes = bytes]
    BY <1>1, <1>7, <2>2
  <2>5. other = [event EXCEPT !.records = records]
    BY <1>2, <2>2
  <2>. QED
    BY <1>1, <2>1, <2>3, <2>4, <2>5
<1>9. EventBytes(other) \in Nat
  BY <1>4, EventBytesTyped
<1>10. shorter \in Entry
  BY <1>4, <1>8, <1>9, EntryTyped DEF Entry
<1>11. entry.bytes = EventBytes(event)
  BY <1>1 DEF EntryFits
<1>12. EntryFits(shorter, drops)
  BY <1>8 DEF EntryFits
<1>13. shorter.bytes = entry.bytes - size - n
  BY <1>6, <1>8, <1>11
<1>14. IsShorter(shorter, entry, n, size)
  <2>1. shorter.event = other
    BY <1>8
  <2>2. /\ Len(shorter.event.records) = Len(entry.event.records) - n
        /\ SizeOf(shorter.event.records) = SizeOf(entry.event.records) - size
    BY <1>1, <1>6, <2>1
  <2>. QED
    BY <1>6, <1>7, <1>13, <2>2 DEF IsShorter
<1>. QED
  BY <1>10, <1>12, <1>14

\* A number of drops is counted in a generation.
LEMMA DropsCounted ==
    ASSUME NEW drops \in Seq(Nat), NEW g \in 1 .. Len(drops), NEW n \in Nat
    PROVE  [drops EXCEPT ![g] = @ + n] \in Seq(Nat) /\ Len([drops EXCEPT ![g] = @ + n]) = Len(drops)
<1>1. PICK x \in Nat : x = drops[g] + n
  OBVIOUS
<1>2. [drops EXCEPT ![g] = x] \in Seq(Nat) /\ Len([drops EXCEPT ![g] = x]) = Len(drops)
  BY ExceptSeq
<1>. QED
  BY <1>1, <1>2

LEMMA WithoutRoomier ==
    ASSUME NEW q, QueueFits(q), NEW i \in 1 .. Len(q.pending), NEW n \in 1 .. Len(q.pending[i].event.records) - 1
    PROVE  Roomier(q, Without(q, i, n))
<1>1. PICK old \in Entry : old = q.pending[i] /\ EntryFits(old, q.drops)
  BY QueueTyped DEF QueueFits
<1>1a. PICK size : size = SizeOf(SubSeq(old.event.records, 1, n))
  OBVIOUS
<1>2. PICK shorter \in Entry : IsShorter(shorter, old, n, size) /\ EntryFits(shorter, q.drops)
  <2>1. n \in 1 .. Len(old.event.records) - 1
    BY <1>1
  <2>. QED
    BY <1>1, <1>1a, <2>1, ShorterEntry
<1>2a. size \in Nat
  BY <1>2 DEF IsShorter
<1>3. PICK others : others = [q.pending EXCEPT ![i] = shorter]
  OBVIOUS
<1>3a. q.pending \in Seq(Entry) /\ Len(q.pending) \in Nat
  BY QueueTyped
<1>4. /\ others \in Seq(Entry) /\ Len(others) = Len(q.pending)
      /\ \A j \in 1 .. Len(q.pending) : others[j] = IF j = i THEN shorter ELSE q.pending[j]
  BY <1>3, <1>3a, ExceptSeq
<1>5. n \in Nat /\ old.generation \in 1 .. Len(q.drops)
  BY <1>1 DEF EntryFits
<1>6. PICK drops : drops = [q.drops EXCEPT ![old.generation] = @ + n]
  OBVIOUS
<1>7. drops \in Seq(Nat) /\ Len(drops) = Len(q.drops)
  BY <1>5, <1>6, DropsCounted, QueueTyped
<1>8. /\ Cost(ByteCost, others) = Cost(ByteCost, q.pending) - old.bytes + shorter.bytes
      /\ Cost(CountCost, others) = Cost(CountCost, q.pending) - Len(old.event.records) + Len(shorter.event.records)
      /\ Cost(SizeCost, others) = Cost(SizeCost, q.pending) - SizeOf(old.event.records)
                                      + SizeOf(shorter.event.records)
  BY <1>1, <1>3, <1>3a, CostsChanged
<1>9. PICK bytes \in Int, records \in Int, recordBytes \in Int :
         bytes = q.bytes - size - n /\ records = q.records - n /\ recordBytes = q.recordBytes - size
  <2>1. q.bytes \in Int /\ q.records \in Int /\ q.recordBytes \in Int
    BY QueueTyped
  <2>2. q.bytes - size - n \in Int /\ q.records - n \in Int /\ q.recordBytes - size \in Int
    BY <1>2a, <1>5, <2>1, SMTT(20)
  <2>. QED
    BY <2>2
<1>10. /\ bytes = Cost(ByteCost, q.inflight) + Cost(ByteCost, others)
       /\ records = Cost(CountCost, q.inflight) + Cost(CountCost, others)
       /\ recordBytes = Cost(SizeCost, q.inflight) + Cost(SizeCost, others)
  <2>1. /\ Cost(ByteCost, q.inflight) \in Nat /\ Cost(CountCost, q.inflight) \in Nat
        /\ Cost(SizeCost, q.inflight) \in Nat
        /\ Cost(ByteCost, q.pending) \in Nat /\ Cost(CountCost, q.pending) \in Nat
        /\ Cost(SizeCost, q.pending) \in Nat
    BY QueueTyped, CostsNat
  <2>2. /\ old.bytes \in Nat /\ Len(old.event.records) \in Nat /\ SizeOf(old.event.records) \in Nat
    BY EntryTyped
  <2>3. PICK x \in Nat, y \in Nat, z \in Nat, a \in Nat, b \in Nat, c \in Nat, l \in Nat, m \in Nat, k \in Nat :
           /\ a = Cost(ByteCost, q.inflight) /\ b = Cost(CountCost, q.inflight)
           /\ c = Cost(SizeCost, q.inflight) /\ x = Cost(ByteCost, q.pending)
           /\ y = Cost(CountCost, q.pending) /\ z = Cost(SizeCost, q.pending)
           /\ l = old.bytes /\ m = Len(old.event.records) /\ k = SizeOf(old.event.records)
    BY <2>1, <2>2
  <2>4. /\ shorter.bytes = l - size - n /\ Len(shorter.event.records) = m - n
        /\ SizeOf(shorter.event.records) = k - size
    BY <1>2, <2>3 DEF IsShorter
  <2>5. /\ Cost(ByteCost, others) = x - l + (l - size - n) /\ Cost(CountCost, others) = y - m + (m - n)
        /\ Cost(SizeCost, others) = z - k + (k - size)
    BY <1>8, <2>3, <2>4
  <2>6. q.bytes = a + x /\ q.records = b + y /\ q.recordBytes = c + z
    BY <2>3 DEF QueueFits, Paid
  <2>7. bytes = (a + x) - size - n /\ records = (b + y) - n /\ recordBytes = (c + z) - size
    BY <1>9, <2>6
  <2>8. bytes = a + (x - l + (l - size - n)) /\ records = b + (y - m + (m - n)) /\ recordBytes = c + (z - k + (k - size))
    BY <1>2a, <1>5, <2>7
  <2>. QED
    BY <2>3, <2>5, <2>8
<1>11. \A j \in 1 .. Len(others) : EntryFits(others[j], drops)
  BY <1>2, <1>4, <1>7 DEF QueueFits, EntryFits
<1>12. PICK p : p = [pending |-> others, inflight |-> q.inflight, drops |-> drops, bytes |-> bytes,
                     records |-> records, recordBytes |-> recordBytes, failure |-> q.failure]
  OBVIOUS
<1>13. QueueFits(p)
  BY <1>4, <1>7, <1>10, <1>11, <1>12, QueueTyped, QueueOf, SMTT(20)
<1>14. Without(q, i, n) = p
  <2>1. Without(q, i, n) = TrimmedBy(q, i, n, size)
    BY <1>1, <1>1a DEF Without
  <2>2. [q.pending EXCEPT ![i].event.records = SubSeq(@, n + 1, Len(@)), ![i].bytes = @ - size - n] = others
    BY <1>1, <1>2, <1>3, <1>3a DEF IsShorter
  <2>3. q \in Queue
    BY DEF QueueFits
  <2>. QED
    BY <1>1, <1>6, <1>9, <1>12, <2>1, <2>2, <2>3, ZenonT(20) DEF TrimmedBy, Queue
<1>15. p.inflight = q.inflight /\ p.failure = q.failure /\ Len(p.pending) <= Len(q.pending)
       /\ Len(p.drops) = Len(q.drops)
  BY <1>3a, <1>4, <1>7, <1>12
<1>. QED
  BY <1>13, <1>14, <1>15 DEF Roomier

---------------------------------------------------------------------------
(* A queue makes room turn after turn.                                     *)

LEMMA LeastMember ==
    ASSUME NEW T \in SUBSET Nat, T # {}
    PROVE  Min(T) \in T
<1>1. PICK x \in T : \A y \in T : ~(y < x)
  BY LeastOf
<1>2. \A y \in T : x <= y
  BY <1>1
<1>. QED
  BY <1>2 DEF Min

LEMMA LimitTyped == ASSUME NEW q PROVE LimitFailure(q) \in Failures
  BY DEF LimitFailure, Failures

LEMMA OldestAmong ==
    ASSUME NEW T, NEW n \in Nat, T \subseteq 1 .. n
    PROVE  Oldest(T) = 0 \/ Oldest(T) \in 1 .. n
<1>1. T \in SUBSET Nat
  OBVIOUS
<1>. QED
  BY <1>1, LeastMember DEF Oldest

LEMMA PrefixRoomier ==
    ASSUME NEW q, QueueFits(q), NEW i \in 1 .. Len(q.pending)
    PROVE  Roomier(q, TrimmedPrefix(q, i))
<1>1. CASE Enough(q, i) = {}
  BY <1>1, RemovedRoomier DEF TrimmedPrefix
<1>2. CASE Enough(q, i) # {}
  <2>1. q.pending[i].event.records \in Seq(Nat)
    BY QueueTyped, EntryTyped
  <2>2. Enough(q, i) \in SUBSET Nat
    BY <2>1 DEF Enough
  <2>3. PICK n : n = Min(Enough(q, i))
    OBVIOUS
  <2>4. n \in 1 .. Len(q.pending[i].event.records) - 1
    BY <1>2, <2>2, <2>3, LeastMember DEF Enough
  <2>5. Roomier(q, Without(q, i, n))
    BY <2>4, WithoutRoomier
  <2>. QED
    BY <1>2, <2>3, <2>5 DEF TrimmedPrefix
<1>. QED
  BY <1>1, <1>2

LEMMA TurnRoomier ==
    ASSUME NEW q, QueueFits(q), NEW incoming
    PROVE  Roomier(q, TrimTurn(q, incoming)) /\ Roomier(q, BatchTurn(q))
<1>1. q.pending \in Seq(Entry) /\ Len(q.pending) \in Nat /\ DOMAIN q.pending = 1 .. Len(q.pending)
  BY QueueTyped
<1>2. PICK i : i = Candidate(q, LimitFailure(q), incoming)
  OBVIOUS
<1>3. i = 0 \/ i \in 1 .. Len(q.pending)
  <2>1. PICK T : T = {k \in DOMAIN q.pending :
               /\ IsBatch(q.pending[k].event)
               /\ IF LimitFailure(q) = "event-limit" THEN q.pending[k].event.seq # incoming
                  ELSE Len(q.pending[k].event.records) > 0}
    OBVIOUS
  <2>2. T \subseteq 1 .. Len(q.pending) /\ i = Oldest(T)
    BY <1>1, <1>2, <2>1 DEF Candidate
  <2>. QED
    BY <1>1, <2>2, OldestAmong
<1>4. TrimTurn(q, incoming) \in {q, Removed(q, i, TRUE), TrimmedPrefix(q, i)}
      /\ (i = 0 => TrimTurn(q, incoming) = q)
  BY <1>2 DEF TrimTurn, TrimmedAt
<1>5. Roomier(q, TrimTurn(q, incoming))
  BY <1>3, <1>4, SameRoomier, RemovedRoomier, PrefixRoomier
<1>6. PICK j : j = Oldest({k \in DOMAIN q.pending : IsBatch(q.pending[k].event)})
  OBVIOUS
<1>7. j = 0 \/ j \in 1 .. Len(q.pending)
  <2>1. PICK T : T = {k \in DOMAIN q.pending : IsBatch(q.pending[k].event)}
    OBVIOUS
  <2>. QED
    BY <1>1, <1>6, <2>1, OldestAmong
<1>8. Roomier(q, BatchTurn(q))
  BY <1>6, <1>7, SameRoomier, RemovedRoomier DEF BatchTurn, RemovedBatch
<1>. QED
  BY <1>5, <1>8

\* The values of turns, each from the one before
IsOrbit(f, F, q, n) == f[0] = q /\ \A i \in 1 .. n : f[i] = F[f[i - 1]]

LEMMA OrbitExists ==
    ASSUME NEW S, NEW F \in [S -> S], NEW q \in S, NEW m \in Nat
    PROVE  \E f \in [0 .. m -> S] : IsOrbit(f, F, q, m)
<1> DEFINE N == {n \in Nat : \E f \in [0 .. n -> S] : IsOrbit(f, F, q, n)}
<1>1. 0 \in N
  <2>1. [i \in 0 .. 0 |-> q] \in [0 .. 0 -> S] /\ IsOrbit([i \in 0 .. 0 |-> q], F, q, 0)
    BY DEF IsOrbit
  <2>. QED
    BY <2>1
<1>2. ASSUME NEW n \in Nat, n \in N PROVE n + 1 \in N
  <2>1. PICK f \in [0 .. n -> S] : IsOrbit(f, F, q, n)
    BY <1>2
  <2> DEFINE g == [i \in 0 .. n + 1 |-> IF i = n + 1 THEN F[f[n]] ELSE f[i]]
  <2>2. g \in [0 .. n + 1 -> S]
    OBVIOUS
  <2>3. g[0] = q /\ \A i \in 1 .. n + 1 : g[i] = F[g[i - 1]]
    BY <2>1 DEF IsOrbit
  <2>4. IsOrbit(g, F, q, n + 1)
    BY <2>3 DEF IsOrbit
  <2>. QED
    BY <2>2, <2>4
<1>3. m \in N
  <2>. HIDE DEF N
  <2>. QED
    BY <1>1, <1>2, SetInduction
<1>. QED
  BY <1>3

LEMMA OrbitStays ==
    ASSUME NEW S, NEW q \in S, NEW m \in Nat, NEW F \in [S -> S], NEW f, f[0] = q,
           \A i \in 1 .. m : f[i - 1] \in S => f[i] = F[f[i - 1]]
    PROVE  f[m] \in S
<1> DEFINE N == {n \in Nat : n <= m => f[n] \in S}
<1>1. 0 \in N
  OBVIOUS
<1>2. ASSUME NEW n \in Nat, n \in N PROVE n + 1 \in N
  <2>1. SUFFICES ASSUME n + 1 <= m PROVE f[n + 1] \in S
    OBVIOUS
  <2>2. n + 1 \in 1 .. m /\ (n + 1) - 1 = n /\ f[n] \in S
    BY <1>2, <2>1
  <2>. QED
    BY <2>2
<1>3. m \in N
  <2>. HIDE DEF N
  <2>. QED
    BY <1>1, <1>2, SetInduction
<1>. QED
  BY <1>3

\* The queues after the first n turns of trim's loop, and of the eviction
\* of a generation
AreTrims(f, q, incoming, n) ==
    f = [turn \in 0 .. n |-> IF turn = 0 THEN q ELSE TrimTurn(f[turn - 1], incoming)]
AreEvictions(f, q, n) ==
    f = [turn \in 0 .. n |-> IF turn = 0 THEN q ELSE BatchTurn(f[turn - 1])]

\* The queues that have as much room as q, or more
Rooms(q) == {p \in Queue : Roomier(q, p)}

LEMMA RoomsClosed ==
    ASSUME NEW q, QueueFits(q), NEW incoming
    PROVE  /\ q \in Rooms(q)
           /\ [p \in Rooms(q) |-> TrimTurn(p, incoming)] \in [Rooms(q) -> Rooms(q)]
           /\ [p \in Rooms(q) |-> BatchTurn(p)] \in [Rooms(q) -> Rooms(q)]
<1>1. q \in Rooms(q)
  BY SameRoomier DEF Rooms, QueueFits
<1>2. ASSUME NEW p \in Rooms(q) PROVE TrimTurn(p, incoming) \in Rooms(q) /\ BatchTurn(p) \in Rooms(q)
  <2>1. Roomier(q, p) /\ QueueFits(p)
    BY DEF Rooms, Roomier
  <2>2. Roomier(q, TrimTurn(p, incoming)) /\ Roomier(q, BatchTurn(p))
    BY <2>1, TurnRoomier, RoomierOn
  <2>. QED
    BY <2>2 DEF Rooms, Roomier, QueueFits
<1>. QED
  BY <1>1, <1>2

LEMMA TrimmedRoomier ==
    ASSUME NEW q, QueueFits(q), NEW incoming
    PROVE  Roomier(q, Trimmed(q, incoming))
<1>1. PICK n \in Nat : n = Len(q.pending)
  BY QueueTyped, SMTT(20)
<1>2. PICK S : S = Rooms(q)
  OBVIOUS
<1>3. PICK F : F = [p \in S |-> TrimTurn(p, incoming)]
  OBVIOUS
<1>4. q \in S /\ F \in [S -> S]
  BY <1>2, <1>3, RoomsClosed
<1> DEFINE After == CHOOSE f : AreTrims(f, q, incoming, n)
<1>5. AreTrims(After, q, incoming, n)
  <2>1. PICK f \in [0 .. n -> S] : IsOrbit(f, F, q, n)
    BY <1>4, OrbitExists
  <2>2. \A turn \in 0 .. n : f[turn] = IF turn = 0 THEN q ELSE TrimTurn(f[turn - 1], incoming)
    BY <1>3, <2>1 DEF IsOrbit
  <2>3. AreTrims(f, q, incoming, n)
    BY <2>1, <2>2 DEF AreTrims
  <2>. QED
    BY <2>3
<1>6. Trimmed(q, incoming) = After[n]
  BY <1>1 DEF Trimmed, AreTrims
<1>7. After[n] \in S
  <2>. HIDE DEF After
  <2>1. After[0] = q /\ \A i \in 1 .. n : After[i] = TrimTurn(After[i - 1], incoming)
    BY <1>5 DEF AreTrims
  <2>2. \A i \in 1 .. n : After[i - 1] \in S => After[i] = F[After[i - 1]]
    BY <1>3, <2>1
  <2>. QED
    BY <1>4, <2>1, <2>2, OrbitStays
<1>. QED
  BY <1>2, <1>6, <1>7 DEF Rooms

\* A generation starts: the batches of the one before are gone.
LEMMA GenerationFits ==
    ASSUME NEW q, QueueFits(q)
    PROVE  LET p == NextGeneration(q) IN QueueFits(p) /\ p.inflight = q.inflight /\ p.failure = q.failure
<1>1. PICK n \in Nat : n = Len(q.pending)
  BY QueueTyped, SMTT(20)
<1>2. PICK S : S = Rooms(q)
  OBVIOUS
<1>3. PICK F : F = [p \in S |-> BatchTurn(p)]
  OBVIOUS
<1>4. q \in S /\ F \in [S -> S]
  BY <1>2, <1>3, RoomsClosed
<1> DEFINE After == CHOOSE f : AreEvictions(f, q, n)
<1>5. AreEvictions(After, q, n)
  <2>1. PICK f \in [0 .. n -> S] : IsOrbit(f, F, q, n)
    BY <1>4, OrbitExists
  <2>2. \A turn \in 0 .. n : f[turn] = IF turn = 0 THEN q ELSE BatchTurn(f[turn - 1])
    BY <1>3, <2>1 DEF IsOrbit
  <2>3. AreEvictions(f, q, n)
    BY <2>1, <2>2 DEF AreEvictions
  <2>. QED
    BY <2>3
<1>6. NextGeneration(q) = [After[n] EXCEPT !.drops = Append(@, 0)]
  BY <1>1 DEF NextGeneration, AreEvictions
<1>7. After[n] \in S
  <2>. HIDE DEF After
  <2>1. After[0] = q /\ \A i \in 1 .. n : After[i] = BatchTurn(After[i - 1])
    BY <1>5 DEF AreEvictions
  <2>2. \A i \in 1 .. n : After[i - 1] \in S => After[i] = F[After[i - 1]]
    BY <1>3, <2>1
  <2>. QED
    BY <1>4, <2>1, <2>2, OrbitStays
<1>8. PICK left : left = After[n]
  OBVIOUS
<1>9. QueueFits(left) /\ left.inflight = q.inflight /\ left.failure = q.failure
  BY <1>2, <1>7, <1>8 DEF Rooms, Roomier
<1>10. PICK p : p = [left EXCEPT !.drops = Append(@, 0)]
  OBVIOUS
<1>11. left.drops \in Seq(Nat) /\ left \in Queue
  BY <1>9 DEF QueueFits, Queue
<1>12. p \in Queue /\ Len(p.drops) = Len(left.drops) + 1
  <2>1. PICK drops : drops = Append(left.drops, 0)
    OBVIOUS
  <2>2. drops \in Seq(Nat) /\ Len(drops) = Len(left.drops) + 1
    BY <1>11, <2>1
  <2>3. p = [left EXCEPT !.drops = drops] /\ p.drops = drops
    BY <1>10, <1>11, <2>1 DEF Queue
  <2>. QED
    BY <1>11, <2>2, <2>3 DEF Queue
<1>13. p.pending = left.pending /\ p.inflight = left.inflight /\ p.failure = left.failure /\ p.bytes = left.bytes
       /\ p.records = left.records /\ p.recordBytes = left.recordBytes
  BY <1>10, <1>11 DEF Queue
<1>14. \A entry : EntryFits(entry, left.drops) => EntryFits(entry, p.drops)
  BY <1>11, <1>12 DEF EntryFits
<1>15. QueueFits(p)
  BY <1>9, <1>11, <1>12, <1>13, <1>14 DEF QueueFits, Paid
<1>. QED
  BY <1>6, <1>8, <1>9, <1>10, <1>13, <1>15

---------------------------------------------------------------------------
(* An event comes in, becomes the lease, and is completed.                 *)

LEMMA SameQueue ==
    ASSUME NEW p \in Queue, NEW q \in Queue, p.pending = q.pending, p.inflight = q.inflight, p.drops = q.drops,
           p.bytes = q.bytes, p.records = q.records, p.recordBytes = q.recordBytes, p.failure = q.failure
    PROVE  p = q
<1>1. p = [pending |-> p.pending, inflight |-> p.inflight, drops |-> p.drops, bytes |-> p.bytes,
           records |-> p.records, recordBytes |-> p.recordBytes, failure |-> p.failure]
  BY DEF Queue
<1>2. q = [pending |-> q.pending, inflight |-> q.inflight, drops |-> q.drops, bytes |-> q.bytes,
           records |-> q.records, recordBytes |-> q.recordBytes, failure |-> q.failure]
  BY DEF Queue
<1>. QED
  BY <1>1, <1>2, Zenon

LEMMA AddedFits ==
    ASSUME NEW q, QueueFits(q), NEW event \in Event
    PROVE  LET p == Added(q, event, EventBytes(event))
           IN  /\ QueueFits(p) /\ p.inflight = q.inflight
               /\ \E entry \in Entry : entry.event = event /\ p.pending = Append(q.pending, entry)
<1>1. q.pending \in Seq(Entry) /\ q.drops \in Seq(Nat) /\ Len(q.drops) \in Nat /\ Len(q.drops) >= 1
  BY QueueTyped DEF QueueFits
<1>2. PICK size \in Nat, count \in Nat, bytes \in Nat :
         size = SizeOf(event.records) /\ count = Len(event.records) /\ bytes = EventBytes(event)
  BY EventBytesTyped
<1>3. PICK entry : entry = [event |-> event, bytes |-> bytes, generation |-> Len(q.drops)]
  OBVIOUS
<1>4. entry \in Entry /\ EntryFits(entry, q.drops) /\ entry.event = event
  <2>1. Len(q.drops) \in 1 .. Len(q.drops)
    BY <1>1
  <2>. QED
    BY <1>1, <1>2, <1>3, <2>1 DEF Entry, EntryFits
<1>5. PICK more : more = Append(q.pending, entry)
  OBVIOUS
<1>6. more \in Seq(Entry) /\ \A i \in 1 .. Len(more) : EntryFits(more[i], q.drops)
  BY <1>1, <1>4, <1>5 DEF QueueFits
<1>7. /\ Cost(ByteCost, more) = Cost(ByteCost, q.pending) + bytes
      /\ Cost(CountCost, more) = Cost(CountCost, q.pending) + count
      /\ Cost(SizeCost, more) = Cost(SizeCost, q.pending) + size
  BY <1>1, <1>2, <1>3, <1>4, <1>5, CostsAppended
<1>8. PICK a \in Int, b \in Int, c \in Int : a = q.bytes + bytes /\ b = q.records + count /\ c = q.recordBytes + size
  <2>1. q.bytes \in Int /\ q.records \in Int /\ q.recordBytes \in Int
    BY QueueTyped
  <2>2. q.bytes + bytes \in Int /\ q.records + count \in Int /\ q.recordBytes + size \in Int
    BY <2>1
  <2>. QED
    BY <2>2
<1>9. /\ a = Cost(ByteCost, q.inflight) + Cost(ByteCost, more)
      /\ b = Cost(CountCost, q.inflight) + Cost(CountCost, more)
      /\ c = Cost(SizeCost, q.inflight) + Cost(SizeCost, more)
  <2>1. PICK i \in Nat, j \in Nat, k \in Nat, x \in Nat, y \in Nat, z \in Nat :
           /\ i = Cost(ByteCost, q.inflight) /\ j = Cost(CountCost, q.inflight)
           /\ k = Cost(SizeCost, q.inflight) /\ x = Cost(ByteCost, q.pending)
           /\ y = Cost(CountCost, q.pending) /\ z = Cost(SizeCost, q.pending)
    BY QueueTyped, CostsNat
  <2>2. a = (i + x) + bytes /\ b = (j + y) + count /\ c = (k + z) + size
    BY <1>8, <2>1 DEF QueueFits, Paid
  <2>3. a = i + (x + bytes) /\ b = j + (y + count) /\ c = k + (z + size)
    BY <2>2
  <2>. QED
    BY <1>7, <2>1, <2>3
<1>10. PICK p : p = [pending |-> more, inflight |-> q.inflight, drops |-> q.drops, bytes |-> a, records |-> b,
                     recordBytes |-> c, failure |-> q.failure]
  OBVIOUS
<1>11. QueueFits(p)
  BY <1>1, <1>6, <1>9, <1>10, QueueTyped, QueueOf
<1>12. Added(q, event, EventBytes(event)) = p
  <2>1. q \in Queue
    BY DEF QueueFits
  <2>2. Added(q, event, bytes) = p
    <3>1. Added(q, event, bytes) = [q EXCEPT !.pending = more, !.bytes = a, !.records = b, !.recordBytes = c]
      BY <1>2, <1>3, <1>5, <1>8, <2>1 DEF Added, Queue
    <3>2. [q EXCEPT !.pending = more, !.bytes = a, !.records = b, !.recordBytes = c] = p
      <4>1. PICK r : r = [q EXCEPT !.pending = more, !.bytes = a, !.records = b, !.recordBytes = c]
        OBVIOUS
      <4>2. /\ r \in Queue /\ r.pending = more /\ r.inflight = q.inflight /\ r.drops = q.drops /\ r.bytes = a
            /\ r.records = b /\ r.recordBytes = c /\ r.failure = q.failure
        BY <1>6, <2>1, <4>1 DEF Queue
      <4>3. p \in Queue
        BY <1>11 DEF QueueFits
      <4>. QED
        BY <1>10, <4>1, <4>2, <4>3, SameQueue
    <3>. QED
      BY <3>1, <3>2
  <2>. QED
    BY <1>2, <2>2
<1>. QED
  BY <1>4, <1>5, <1>10, <1>11, <1>12

\* What comes first waits first.
Rising(entries) ==
    \A i, j \in 1 .. Len(entries) : i < j => entries[i].event.seq < entries[j].event.seq

\* Every number is of an entry, or new.
Among(entries, more, seq) ==
    \A i \in 1 .. Len(more) :
        more[i].event.seq = seq \/ \E j \in 1 .. Len(entries) : more[i].event.seq = entries[j].event.seq

LEMMA ReplacedFits ==
    ASSUME NEW q, QueueFits(q), NEW event
    PROVE  LET p == Replaced(q, event)
           IN  /\ Roomier(q, p)
               /\ Rising(q.pending) => Rising(p.pending)
               /\ \A i \in 1 .. Len(p.pending) :
                     \E j \in 1 .. Len(q.pending) : p.pending[i] = q.pending[j]
<1>1. q.pending \in Seq(Entry) /\ Len(q.pending) \in Nat /\ DOMAIN q.pending = 1 .. Len(q.pending)
  BY QueueTyped
<1>2. PICK T : T = {k \in DOMAIN q.pending : MayReplace(q.pending[k].event)
                                                /\ q.pending[k].event.read = event.read}
  OBVIOUS
<1>3. PICK i : i = Oldest(T)
  OBVIOUS
<1>4. i = 0 \/ i \in 1 .. Len(q.pending)
  BY <1>1, <1>2, <1>3, OldestAmong
<1>5. CASE ~MayReplace(event) \/ i = 0
  <2>1. Replaced(q, event) = q
    BY <1>2, <1>3, <1>5 DEF Replaced
  <2>. QED
    BY <2>1, SameRoomier
<1>6. CASE ~(~MayReplace(event) \/ i = 0)
  <2>1. Replaced(q, event) = Removed(q, i, FALSE)
    BY <1>2, <1>3, <1>6 DEF Replaced
  <2>2. i \in 1 .. Len(q.pending)
    BY <1>4, <1>6
  <2>3. PICK left : left = RemoveAt(q.pending, i)
    OBVIOUS
  <2>4. /\ left \in Seq(Entry) /\ Len(left) = Len(q.pending) - 1
        /\ \A j \in 1 .. Len(q.pending) - 1 : left[j] = IF j < i THEN q.pending[j] ELSE q.pending[j + 1]
    BY <1>1, <2>2, <2>3, WithoutEntry
  <2>5. Roomier(q, Removed(q, i, FALSE)) /\ Removed(q, i, FALSE).pending = left
    BY <2>2, <2>3, RemovedFits, RemovedRoomier
  <2>6. \A k \in 1 .. Len(left) : \E j \in 1 .. Len(q.pending) : left[k] = q.pending[j]
    <3>1. ASSUME NEW k \in 1 .. Len(left) PROVE \E j \in 1 .. Len(q.pending) : left[k] = q.pending[j]
      <4>1. k \in 1 .. Len(q.pending) /\ k + 1 \in 1 .. Len(q.pending)
        BY <1>1, <2>4
      <4>. QED
        BY <2>4, <4>1
    <3>. QED
      BY <3>1
  <2>7. Rising(q.pending) => Rising(left)
    <3>1. ASSUME Rising(q.pending), NEW j \in 1 .. Len(left), NEW k \in 1 .. Len(left), j < k
          PROVE  left[j].event.seq < left[k].event.seq
      <4>1. PICK x \in 1 .. Len(q.pending), y \in 1 .. Len(q.pending) :
               x < y /\ left[j] = q.pending[x] /\ left[k] = q.pending[y]
        <5>1. /\ j \in 1 .. Len(q.pending) - 1 /\ k \in 1 .. Len(q.pending) - 1
          BY <1>1, <2>4
        <5>2. left[j] = q.pending[IF j < i THEN j ELSE j + 1] /\ left[k] = q.pending[IF k < i THEN k ELSE k + 1]
          BY <2>4, <5>1
        <5>3. PICK x, y : x = (IF j < i THEN j ELSE j + 1) /\ y = (IF k < i THEN k ELSE k + 1)
          OBVIOUS
        <5>4. x \in 1 .. Len(q.pending) /\ y \in 1 .. Len(q.pending) /\ x < y
          BY <1>1, <2>2, <3>1, <5>1, <5>3
        <5>. QED
          BY <5>2, <5>3, <5>4
      <4>. QED
        BY <3>1, <4>1 DEF Rising
    <3>. QED
      BY <3>1 DEF Rising
  <2>. QED
    BY <2>1, <2>5, <2>6, <2>7, ZenonT(20)
<1>. QED
  BY <1>5, <1>6

LEMMA LimitedFits ==
    ASSUME NEW q, QueueFits(q)
    PROVE  LET p == Limited(q)
           IN  /\ QueueFits(p) /\ p.inflight = q.inflight /\ p.pending = q.pending
               /\ p.failure = LimitFailure(p)
<1>1. PICK failure \in Failures : failure = LimitFailure(q)
  BY LimitTyped
<1>2. PICK p : p = [q EXCEPT !.failure = failure]
  OBVIOUS
<1>3. q \in Queue
  BY DEF QueueFits
<1>4. p \in Queue /\ p.pending = q.pending /\ p.inflight = q.inflight /\ p.drops = q.drops /\ p.bytes = q.bytes
      /\ p.records = q.records /\ p.recordBytes = q.recordBytes /\ p.failure = failure
  BY <1>2, <1>3 DEF Queue
<1>5. QueueFits(p)
  BY <1>4 DEF QueueFits, Paid
<1>6. LimitFailure(p) = failure
  BY <1>1, <1>4 DEF LimitFailure
<1>7. Limited(q) = p
  BY <1>1, <1>2 DEF Limited
<1>. QED
  BY <1>4, <1>5, <1>6, <1>7

LEMMA EnqueuedFits ==
    ASSUME NEW q, QueueFits(q), NEW evicts \in BOOLEAN, NEW event \in Event
    PROVE  LET p == Enqueued(q, evicts, event)
           IN  QueueFits(p) /\ p.inflight = q.inflight /\ p.failure = LimitFailure(p)
<1>1. PICK made : made = RoomMade(q, evicts, event)
  OBVIOUS
<1>2. QueueFits(made) /\ made.inflight = q.inflight
  <2>1. made \in {NextGeneration(q), Replaced(q, event), q}
    BY <1>1 DEF RoomMade
  <2>. QED
    BY <2>1, GenerationFits, ReplacedFits DEF Roomier
<1>3. PICK added : added = Added(made, event, EventBytes(event))
  OBVIOUS
<1>4. QueueFits(added) /\ added.inflight = q.inflight
  BY <1>2, <1>3, AddedFits
<1>5. PICK fitted : fitted = Fitted(added, evicts, event)
  OBVIOUS
<1>6. QueueFits(fitted) /\ fitted.inflight = q.inflight
  BY <1>4, <1>5, TrimmedRoomier DEF Fitted, Roomier
<1>7. Enqueued(q, evicts, event) = Limited(fitted)
  BY <1>1, <1>3, <1>5 DEF Enqueued
<1>. QED
  BY <1>6, <1>7, LimitedFits

\* The queue of the desktop keeps the order of the numbers.
LEMMA EnqueuedRises ==
    ASSUME NEW q, QueueFits(q), NEW event \in Event, Rising(q.pending),
           \A i \in 1 .. Len(q.pending) : q.pending[i].event.seq < event.seq
    PROVE  LET p == Enqueued(q, FALSE, event)
           IN  Rising(p.pending) /\ Among(q.pending, p.pending, event.seq)
<1>1. PICK made : made = Replaced(q, event)
  OBVIOUS
<1>2. /\ QueueFits(made) /\ Rising(made.pending)
      /\ \A i \in 1 .. Len(made.pending) : \E j \in 1 .. Len(q.pending) : made.pending[i] = q.pending[j]
  BY <1>1, ReplacedFits DEF Roomier
<1>3. PICK added : added = Added(made, event, EventBytes(event))
  OBVIOUS
<1>4. QueueFits(added) /\ \E entry \in Entry : entry.event = event /\ added.pending = Append(made.pending, entry)
  BY <1>2, <1>3, AddedFits
<1>5. PICK entry \in Entry : entry.event = event /\ added.pending = Append(made.pending, entry)
  BY <1>4
<1>6. Enqueued(q, FALSE, event) = Limited(added)
  BY <1>1, <1>3 DEF Enqueued, RoomMade, Fitted
<1>7. Enqueued(q, FALSE, event).pending = Append(made.pending, entry)
  BY <1>4, <1>5, <1>6, LimitedFits
<1>8. PICK old \in Seq(Entry) : old = made.pending
  BY <1>2, QueueTyped
<1>9. PICK more : more = Append(old, entry)
  OBVIOUS
<1>10. /\ Len(old) \in Nat /\ Len(more) = Len(old) + 1 /\ more[Len(old) + 1] = entry
       /\ \A i \in 1 .. Len(old) : more[i] = old[i]
  BY <1>8, <1>9
<1>11. \A i \in 1 .. Len(old) : old[i].event.seq < event.seq
  BY <1>2, <1>8
<1>12. Rising(more)
  <2>1. ASSUME NEW i \in 1 .. Len(more), NEW j \in 1 .. Len(more), i < j
        PROVE  more[i].event.seq < more[j].event.seq
    <3>1. i \in 1 .. Len(old) /\ (j \in 1 .. Len(old) \/ j = Len(old) + 1)
      BY <1>10, <2>1
    <3>2. more[i] = old[i]
      BY <1>10, <3>1
    <3>3. CASE j \in 1 .. Len(old)
      BY <1>2, <1>8, <1>10, <2>1, <3>1, <3>2, <3>3 DEF Rising
    <3>4. CASE j = Len(old) + 1
      BY <1>5, <1>10, <1>11, <3>1, <3>2, <3>4
    <3>. QED
      BY <3>1, <3>3, <3>4
  <2>. QED
    BY <2>1 DEF Rising
<1>13. Among(q.pending, more, event.seq)
  <2>1. ASSUME NEW i \in 1 .. Len(more)
        PROVE  more[i].event.seq = event.seq \/ \E j \in 1 .. Len(q.pending) : more[i].event.seq = q.pending[j].event.seq
    <3>1. i \in 1 .. Len(old) \/ i = Len(old) + 1
      BY <1>10
    <3>. QED
      BY <1>2, <1>5, <1>8, <1>10, <3>1
  <2>. QED
    BY <2>1 DEF Among
<1>. QED
  BY <1>7, <1>8, <1>9, <1>12, <1>13
LEMMA BegunFits ==
    ASSUME NEW q, QueueFits(q), MayBegin(q)
    PROVE  LET p == Begun(q)
           IN  /\ QueueFits(p) /\ LimitFailure(p) = LimitFailure(q) /\ p.failure = q.failure
               /\ p.inflight = <<q.pending[1]>> /\ p.pending = Tail(q.pending)
<1>1. q.pending \in Seq(Entry) /\ q.pending # <<>> /\ q.inflight = <<>> /\ 1 \in 1 .. Len(q.pending)
  BY QueueTyped DEF MayBegin
<1>2. PICK first \in Entry : first = q.pending[1] /\ EntryFits(first, q.drops)
  BY <1>1 DEF QueueFits
<1>3. PICK rest : rest = Tail(q.pending)
  OBVIOUS
<1>3a. rest \in Seq(Entry)
  BY <1>1, <1>3
<1>4. PICK lease : lease = <<first>>
  OBVIOUS
<1>5. /\ lease \in Seq(Entry) /\ Len(lease) = 1 /\ lease[1] = first /\ lease = Append(<<>>, first)
      /\ <<>> \in Seq(Entry)
  BY <1>4
<1>6. Len(rest) = Len(q.pending) - 1 /\ \A i \in 1 .. Len(rest) : rest[i] = q.pending[i + 1]
  BY <1>1, <1>3
<1>7. PICK p : p = [q EXCEPT !.inflight = lease, !.pending = rest]
  OBVIOUS
<1>8. q \in Queue
  BY DEF QueueFits
<1>9. /\ p \in Queue /\ p.inflight = lease /\ p.pending = rest /\ p.drops = q.drops /\ p.bytes = q.bytes
      /\ p.records = q.records /\ p.recordBytes = q.recordBytes /\ p.failure = q.failure
  BY <1>3a, <1>5, <1>7, <1>8 DEF Queue
<1>10. p = Begun(q)
  BY <1>1, <1>2, <1>3, <1>4, <1>7 DEF Begun
<1>11. Paid(p)
  <2>1. ByteCost \in [Entry -> Nat] /\ CountCost \in [Entry -> Nat] /\ SizeCost \in [Entry -> Nat]
    BY CostsTyped
  <2>2. /\ Cost(ByteCost, rest) = Cost(ByteCost, q.pending) - ByteCost[first]
        /\ Cost(CountCost, rest) = Cost(CountCost, q.pending) - CountCost[first]
        /\ Cost(SizeCost, rest) = Cost(SizeCost, q.pending) - SizeCost[first]
    BY <1>1, <1>2, <1>3, <2>1, CostTail
  <2>3. /\ Cost(ByteCost, lease) = Cost(ByteCost, <<>>) + ByteCost[first]
        /\ Cost(CountCost, lease) = Cost(CountCost, <<>>) + CountCost[first]
        /\ Cost(SizeCost, lease) = Cost(SizeCost, <<>>) + SizeCost[first]
    BY <1>5, <2>1, CostAppended, ZenonT(60)
  <2>4. Cost(ByteCost, <<>>) = 0 /\ Cost(CountCost, <<>>) = 0 /\ Cost(SizeCost, <<>>) = 0
    BY <1>5, CostsNat
  <2>5. PICK x \in Nat, y \in Nat, z \in Nat, l \in Nat, m \in Nat, n \in Nat :
           /\ x = Cost(ByteCost, q.pending) /\ y = Cost(CountCost, q.pending) /\ z = Cost(SizeCost, q.pending)
           /\ l = ByteCost[first] /\ m = CountCost[first] /\ n = SizeCost[first]
    BY <1>1, <2>1, CostsNat
  <2>6. q.bytes = 0 + x /\ q.records = 0 + y /\ q.recordBytes = 0 + z
    BY <1>1, <2>4, <2>5 DEF QueueFits, Paid
  <2>7. q.bytes = (0 + l) + (x - l) /\ q.records = (0 + m) + (y - m) /\ q.recordBytes = (0 + n) + (z - n)
    BY <2>6
  <2>. QED
    BY <1>9, <2>2, <2>3, <2>4, <2>5, <2>7 DEF Paid
<1>12. \A i \in 1 .. Len(rest) : EntryFits(rest[i], q.drops)
  <2>1. \A i \in 1 .. Len(rest) : i + 1 \in 1 .. Len(q.pending)
    BY <1>1, <1>6
  <2>. QED
    BY <1>6, <2>1 DEF QueueFits
<1>13. QueueFits(p)
  <2>1. \A i \in 1 .. Len(lease) : EntryFits(lease[i], q.drops)
    BY <1>2, <1>5
  <2>2. Len(q.drops) >= 1 /\ Len(p.inflight) <= 1
    BY <1>5, <1>9 DEF QueueFits
  <2>. QED
    BY <1>9, <1>11, <1>12, <2>1, <2>2 DEF QueueFits
<1>14. LimitFailure(p) = LimitFailure(q)
  <2>1. Len(p.pending) + Len(p.inflight) = Len(q.pending) + Len(q.inflight)
    BY <1>1, <1>5, <1>6, <1>9
  <2>. QED
    BY <1>9, <2>1 DEF LimitFailure
<1>. QED
  BY <1>2, <1>3, <1>4, <1>9, <1>10, <1>13, <1>14

LEMMA CompletedFits ==
    ASSUME NEW q, QueueFits(q), LimitFailure(q) = "none"
    PROVE  LET p == Completed(q)
           IN  /\ QueueFits(p) /\ LimitFailure(p) = "none" /\ p.failure = q.failure
               /\ p.inflight = <<>> /\ p.pending = q.pending
<1>1. CASE q.inflight = <<>>
  BY <1>1 DEF Completed
<1>2. CASE q.inflight # <<>>
  <2>1. q.inflight \in Seq(Entry) /\ Len(q.inflight) = 1 /\ q.pending \in Seq(Entry)
    <3>1. q.inflight \in Seq(Entry) /\ Len(q.inflight) <= 1 /\ q.pending \in Seq(Entry)
      BY QueueTyped DEF QueueFits
    <3>2. PICK k \in Nat : k = Len(q.inflight)
      BY <3>1
    <3>3. k # 0 /\ k <= 1
      BY <1>2, <3>1, <3>2
    <3>4. k = 1
      BY <3>3
    <3>. QED
      BY <3>1, <3>2, <3>4
  <2>2. PICK first \in Entry : first = q.inflight[1]
    BY <2>1
  <2>3. PICK count \in Nat, size \in Nat, cost \in Nat :
           count = Len(first.event.records) /\ size = SizeOf(first.event.records) /\ cost = first.bytes
    BY EntryTyped
  <2>4. q.inflight = Append(<<>>, first) /\ <<>> \in Seq(Entry)
    BY <2>1, <2>2
  <2>5. /\ Cost(ByteCost, q.inflight) = Cost(ByteCost, <<>>) + cost
        /\ Cost(CountCost, q.inflight) = Cost(CountCost, <<>>) + count
        /\ Cost(SizeCost, q.inflight) = Cost(SizeCost, <<>>) + size
    BY <2>3, <2>4, CostsAppended
  <2>6. Cost(ByteCost, <<>>) = 0 /\ Cost(CountCost, <<>>) = 0 /\ Cost(SizeCost, <<>>) = 0
    BY <2>4, CostsNat
  <2>7. PICK x \in Nat, y \in Nat, z \in Nat :
           x = Cost(ByteCost, q.pending) /\ y = Cost(CountCost, q.pending) /\ z = Cost(SizeCost, q.pending)
    BY <2>1, CostsNat
  <2>8. q.bytes = (0 + cost) + x /\ q.records = (0 + count) + y /\ q.recordBytes = (0 + size) + z
    BY <2>5, <2>6, <2>7 DEF QueueFits, Paid
  <2>9. PICK p : p = [q EXCEPT !.bytes = x, !.records = y, !.recordBytes = z, !.inflight = <<>>]
    OBVIOUS
  <2>10. q.bytes - cost = x /\ q.records - count = y /\ q.recordBytes - size = z
    BY <2>8
  <2>11. q \in Queue
    BY DEF QueueFits
  <2>12. Completed(q) = p
    BY <1>2, <2>2, <2>3, <2>9, <2>10, <2>11 DEF Completed, Released, Queue
  <2>13. /\ p \in Queue /\ p.inflight = <<>> /\ p.pending = q.pending /\ p.drops = q.drops /\ p.bytes = x
         /\ p.records = y /\ p.recordBytes = z /\ p.failure = q.failure
    <3>1. x \in Int /\ y \in Int /\ z \in Int
      OBVIOUS
    <3>. QED
      BY <2>4, <2>9, <2>11, <3>1 DEF Queue
  <2>14. Paid(p)
    <3>1. x = 0 + x /\ y = 0 + y /\ z = 0 + z
      OBVIOUS
    <3>. QED
      BY <2>6, <2>7, <2>13, <3>1 DEF Paid
  <2>15. QueueFits(p)
    <3>1. Len(q.drops) >= 1 /\ Len(p.inflight) = 0
      BY <2>13 DEF QueueFits
    <3>2. \A i \in 1 .. Len(p.inflight) : EntryFits(p.inflight[i], p.drops)
      BY <3>1
    <3>. QED
      BY <2>13, <2>14, <3>1, <3>2 DEF QueueFits
  <2>16. LimitFailure(p) = "none"
    <3>1. Len(q.pending) + Len(q.inflight) <= MaxEvents /\ q.bytes <= MaxBytes /\ q.records <= MaxRecords
          /\ q.recordBytes <= MaxRecordBytes
      <4>0. Len(q.pending) \in Int /\ Len(q.inflight) \in Int
        BY <2>1
      <4>1. Len(q.pending) + Len(q.inflight) \in Int /\ q.bytes \in Int /\ q.records \in Int /\ q.recordBytes \in Int
        BY <4>0, QueueTyped
      <4>2. PICK n \in Int, a \in Int, b \in Int, c \in Int :
               /\ n = Len(q.pending) + Len(q.inflight) /\ a = q.bytes /\ b = q.records /\ c = q.recordBytes
        BY <4>1
      <4>3. "none" = IF n > MaxEvents THEN "event-limit"
                     ELSE IF a > MaxBytes THEN "byte-limit"
                     ELSE IF b > MaxRecords THEN "record-limit"
                     ELSE IF c > MaxRecordBytes THEN "record-byte-limit"
                     ELSE "none"
        BY <4>2 DEF LimitFailure
      <4>4. MaxEvents \in Int /\ MaxBytes \in Int /\ MaxRecords \in Int /\ MaxRecordBytes \in Int
        BY QueueAssumption
      <4>5. n <= MaxEvents /\ a <= MaxBytes /\ b <= MaxRecords /\ c <= MaxRecordBytes
        BY <4>3, <4>4
      <4>. QED
        BY <4>2, <4>5
    <3>2. {MaxEvents, MaxBytes, MaxRecords, MaxRecordBytes} \subseteq Int
      BY QueueAssumption
    <3>3. Len(p.pending) + Len(p.inflight) <= MaxEvents
      BY <2>1, <2>13, <3>1, <3>2
    <3>4. x <= MaxBytes /\ y <= MaxRecords /\ z <= MaxRecordBytes
      BY <2>8, <3>1, <3>2
    <3>. QED
      BY <2>1, <2>13, <3>2, <3>3, <3>4 DEF LimitFailure
  <2>. QED
    BY <2>12, <2>13, <2>15, <2>16
<1>. QED
  BY <1>1, <1>2

LEMMA EmptyFits ==
    /\ QueueFits(EmptyQueue) /\ LimitFailure(EmptyQueue) = "none"
    /\ EmptyQueue.pending = <<>> /\ EmptyQueue.inflight = <<>>
<1>1. EmptyQueue \in Queue /\ EmptyQueue.drops = <<0>> /\ Len(<<0>>) = 1
  BY DEF EmptyQueue, Queue, Failures
<1>2. <<>> \in Seq(Entry) /\ Len(<<>>) = 0
  OBVIOUS
<1>3. Paid(EmptyQueue)
  <2>1. Cost(ByteCost, <<>>) = 0 /\ Cost(CountCost, <<>>) = 0 /\ Cost(SizeCost, <<>>) = 0
    BY <1>2, CostsNat
  <2>2. /\ EmptyQueue.inflight = <<>> /\ EmptyQueue.pending = <<>> /\ EmptyQueue.bytes = 0
        /\ EmptyQueue.records = 0 /\ EmptyQueue.recordBytes = 0 /\ 0 + 0 = 0
    BY DEF EmptyQueue
  <2>. QED
    BY <2>1, <2>2 DEF Paid
<1>4. QueueFits(EmptyQueue)
  BY <1>1, <1>2, <1>3 DEF QueueFits, EmptyQueue
<1>5. LimitFailure(EmptyQueue) = "none"
  BY <1>2, QueueAssumption DEF LimitFailure, EmptyQueue
<1>. QED
  BY <1>4, <1>5 DEF EmptyQueue

\* A queue without events costs nothing.
LEMMA NothingPaid ==
    ASSUME NEW q, QueueFits(q), q.pending = <<>>, q.inflight = <<>>
    PROVE  q.bytes = 0 /\ q.records = 0 /\ q.recordBytes = 0
<1>1. <<>> \in Seq(Entry)
  OBVIOUS
<1>2. 0 + 0 = 0
  OBVIOUS
<1>. QED
  BY <1>1, <1>2, CostsNat DEF QueueFits, Paid

---------------------------------------------------------------------------
(* The invariant of the delivery. An action computes it through worlds in  *)
(* which one read may wait for its flush, one stop counts as running, and  *)
(* what was acknowledged does not change: k has what a run of the program  *)
(* does not touch.                                                         *)

Writes == {"none", "comment", "event"}
Recoveries == {"none", "pending", "failed", "confirmed"}
Client == [open : BOOLEAN, queue : Queue, paused : BOOLEAN, write : Writes, blocked : BOOLEAN, full : BOOLEAN]
Route == [transport : {"desktop", "web"}, subscribed : BOOLEAN, lastSequence : Nat, recovery : Recoveries,
          stop : Stop]

\* What waits, waits for a write, an acknowledgement or the socket.
Sends(client) ==
    client.queue.pending # <<>> => client.queue.inflight # <<>> \/ client.write # "none" \/ client.blocked
ClientFits(client) ==
    /\ client \in Client /\ (client.open \/ client = NoClient)
    /\ QueueFits(client.queue) /\ LimitFailure(client.queue) = "none" /\ Sends(client)

Fresh == {"none", "admitted", "resuming", "preferring"}
ReadHolds(read) ==
    /\ read.queue \in Seq(Nat) /\ read.received \in Nat /\ read.dropped \in Nat /\ read.state \in States
    /\ read.phase \in Fresh => read.queue = <<>>
ReadsFit(w) == \A r \in Reads : ReadHolds(w.reads[r])

\* What the presentation has queued is going to be flushed, but of one read.
Flows(w, loose) ==
    LET a == w.facade.active IN
    a # 0 /\ a # loose /\ w.reads[a].queue # <<>> => w.facade.paused \/ w.reads[a].flush

Answered(w, answering) ==
    w.route.recovery = "pending" => w.route.stop \in w.facade.stops \cup answering

\* The numbers of what waits on the desktop, of what is under way to its
\* window, and of the acknowledgements.
Increasing(events) == \A i, j \in 1 .. Len(events) : i < j => events[i].seq < events[j].seq
Ordered(events, acknowledged, pending, last) ==
    /\ events \in Seq(Event) /\ acknowledged \in Seq(Nat)
    /\ Increasing(events) /\ Rising(pending)
    /\ \A i \in 1 .. Len(events) : events[i].seq \in 1 .. last
    /\ \A i \in 1 .. Len(acknowledged) : acknowledged[i] \in 0 .. last
    /\ \A i \in 1 .. Len(pending) : pending[i].event.seq \in 1 .. last
    /\ \A i \in 1 .. Len(acknowledged), j \in 1 .. Len(events) : acknowledged[i] < events[j].seq
    /\ \A i \in 1 .. Len(acknowledged), j \in 1 .. Len(pending) : acknowledged[i] < pending[j].event.seq
    /\ \A i \in 1 .. Len(events), j \in 1 .. Len(pending) : events[i].seq < pending[j].event.seq

WebFits(w) ==
    /\ w.toRenderer = <<>> /\ w.toHost = <<>> /\ ~w.facade.paused
    /\ \A c \in Clients : ~w.clients[c].paused
DesktopFits(w) ==
    LET client == w.clients[Desktop] IN
    /\ \A c \in Clients : c # Desktop => w.clients[c] = NoClient
    /\ client.write = "none" /\ ~client.blocked
    /\ w.facade.paused = client.paused /\ w.route.subscribed = client.open
    /\ client.paused => client.queue.inflight # <<>>
    /\ w.route.recovery \in {"pending", "failed"} => ~client.open
    /\ w.route.lastSequence <= w.facade.sequence
    /\ Ordered(w.toRenderer, w.toHost, client.queue.pending, w.route.lastSequence)

Delivering(w, k) ==
    /\ w.route \in Route /\ w.route.transport = k.transport
    /\ w.clients \in [Clients -> Client] /\ \A c \in Clients : ClientFits(w.clients[c])
    /\ w.facade.sequence \in Nat /\ w.facade.paused \in BOOLEAN
    /\ w.toHost = k.toHost
    /\ k.transport = "web" => WebFits(w)
    /\ k.transport = "desktop" => DesktopFits(w)

Good(w, k, loose) ==
    /\ Usable(w) /\ Delivering(w, k) /\ ReadsFit(w)
    /\ Flows(w, loose) /\ Answered(w, k.answering)

\* The delivery is as it was.
SameDelivery(w, v) ==
    /\ v.route = w.route /\ v.clients = w.clients /\ v.toRenderer = w.toRenderer /\ v.toHost = w.toHost
    /\ v.facade.paused = w.facade.paused /\ v.facade.sequence = w.facade.sequence

LEMMA DeliveringSame ==
    ASSUME NEW w, NEW v, NEW k, Delivering(w, k), SameDelivery(w, v)
    PROVE  Delivering(v, k)
  BY DEF Delivering, SameDelivery, WebFits, DesktopFits

LEMMA GoodSame ==
    ASSUME NEW w, NEW v, NEW k, NEW loose, NEW other, Good(w, k, loose), Usable(v), SameDelivery(w, v),
           ReadsFit(v), Flows(v, other), w.facade.stops \subseteq v.facade.stops
    PROVE  Good(v, k, other)
<1>1. Delivering(v, k)
  BY DeliveringSame DEF Good
<1>2. Answered(v, k.answering)
  BY DEF Good, Answered, SameDelivery
<1>. QED
  BY <1>1, <1>2 DEF Good

\* Of a read that is not the active one, nothing is expected.
LEMMA GoodLoose ==
    ASSUME NEW w, NEW k, NEW loose, Good(w, k, 0)
    PROVE  Good(w, k, loose)
  BY DEF Good, Flows

LEMMA FieldsGood ==
    ASSUME NEW w, NEW k, NEW loose, Good(w, k, loose), NEW x
    PROVE  /\ Good([w EXCEPT !.streams = x], k, loose) /\ Good([w EXCEPT !.listening = x], k, loose)
           /\ Good([w EXCEPT !.shown = x], k, loose) /\ Good([w EXCEPT !.stopCommand = x], k, loose)
           /\ Good([w EXCEPT !.bounds = x], k, loose)
<1>0. IsWorld(w) /\ HasFields(w)
  BY DEF Good, Usable, IsWorld
<1>1. ASSUME NEW v, Quiet(w, v), v.route = w.route, v.clients = w.clients, v.toRenderer = w.toRenderer,
             v.toHost = w.toHost
      PROVE  Good(v, k, loose)
  <2>1. Usable(v) /\ SameDelivery(w, v) /\ ReadsFit(v) /\ Flows(v, loose)
    BY <1>1 DEF Good, Usable, Quiet, SameDelivery, ReadsFit, Flows
  <2>. QED
    BY <1>1, <2>1, GoodSame DEF Quiet
<1>2. PICK a, b, c, d, e :
         /\ a = [w EXCEPT !.streams = x] /\ b = [w EXCEPT !.listening = x] /\ c = [w EXCEPT !.shown = x]
         /\ d = [w EXCEPT !.stopCommand = x] /\ e = [w EXCEPT !.bounds = x]
  OBVIOUS
<1>3. Quiet(w, a) /\ Quiet(w, b) /\ Quiet(w, c) /\ Quiet(w, d) /\ Quiet(w, e)
  BY <1>0, <1>2, FieldsQuiet
<1>4. a.route = w.route /\ a.clients = w.clients /\ a.toRenderer = w.toRenderer /\ a.toHost = w.toHost
  BY <1>0, <1>2 DEF HasFields
<1>5. b.route = w.route /\ b.clients = w.clients /\ b.toRenderer = w.toRenderer /\ b.toHost = w.toHost
  BY <1>0, <1>2 DEF HasFields
<1>6. c.route = w.route /\ c.clients = w.clients /\ c.toRenderer = w.toRenderer /\ c.toHost = w.toHost
  BY <1>0, <1>2 DEF HasFields
<1>7. d.route = w.route /\ d.clients = w.clients /\ d.toRenderer = w.toRenderer /\ d.toHost = w.toHost
  BY <1>0, <1>2 DEF HasFields
<1>8. e.route = w.route /\ e.clients = w.clients /\ e.toRenderer = w.toRenderer /\ e.toHost = w.toHost
  BY <1>0, <1>2 DEF HasFields
<1>. QED
  BY <1>1, <1>2, <1>3, <1>4, <1>5, <1>6, <1>7, <1>8

\* One read is another, and the delivery is as it was.
LEMMA ReadApart ==
    ASSUME NEW w, IsWorld(w), NEW r \in Reads, NEW read, IsRead(read)
    PROVE  LET v == [w EXCEPT !.reads[r] = read]
           IN  /\ IsWorld(v) /\ v.facade = w.facade /\ v.reads[r] = read
               /\ \A q \in Reads : q # r => v.reads[q] = w.reads[q]
               /\ SameDelivery(w, v)
<1>1. PICK v : v = [w EXCEPT !.reads[r] = read]
  OBVIOUS
<1>2. /\ IsWorld(v) /\ v.facade = w.facade /\ v.reads[r] = read
      /\ \A q \in Reads : q # r => v.reads[q] = w.reads[q]
  BY <1>1, ReadChanges
<1>3. SameDelivery(w, v)
  BY <1>1, <1>2 DEF SameDelivery, IsWorld, HasFields
<1>. QED
  BY <1>1, <1>2, <1>3

LEMMA ReadGood ==
    ASSUME NEW w, NEW k, NEW loose, NEW other, NEW r \in Reads, NEW read,
           Good(w, k, loose), IsRead(read), ReadHolds(read),
           other = loose \/ (loose \in {0, r} /\ other \in {0, r}),
           other # r /\ w.facade.active = r /\ read.queue # <<>> => w.facade.paused \/ read.flush
    PROVE  Good([w EXCEPT !.reads[r] = read], k, other)
<1>1. PICK v : v = [w EXCEPT !.reads[r] = read]
  OBVIOUS
<1>2. /\ IsWorld(v) /\ v.facade = w.facade /\ v.reads[r] = read
      /\ \A q \in Reads : q # r => v.reads[q] = w.reads[q]
      /\ SameDelivery(w, v)
  BY <1>1, ReadApart DEF Good, Usable
<1>3. Usable(v) /\ ReadsFit(v)
  BY <1>2 DEF Good, Usable, ReadsFit
<1>4. w.facade.active # 0 => w.facade.active \in Reads
  BY ReadsAreNumbers DEF Good, Usable, FacadeTyped, Reads
<1>5. \A q \in Reads : q # r /\ w.facade.active = q /\ q # other /\ w.reads[q].queue # <<>>
         => w.facade.paused \/ w.reads[q].flush
  BY ReadsAreNumbers DEF Good, Flows
<1>7. Flows(v, other)
  BY <1>2, <1>4, <1>5 DEF Flows
<1>8. Good(v, k, other)
  BY <1>2, <1>3, <1>7, GoodSame
<1>. QED
  BY <1>1, <1>8

\* A read that keeps what it has to flush, and one that has not the presentation.
LEMMA ReadKept ==
    ASSUME NEW w, NEW k, NEW loose, NEW r \in Reads, NEW read, Good(w, k, loose), IsRead(read), ReadHolds(read),
           (read.queue = w.reads[r].queue /\ read.flush = w.reads[r].flush) \/ w.facade.active # r
    PROVE  Good([w EXCEPT !.reads[r] = read], k, loose)
<1>1. PICK v : v = [w EXCEPT !.reads[r] = read]
  OBVIOUS
<1>2. /\ IsWorld(v) /\ v.facade = w.facade /\ v.reads[r] = read
      /\ \A q \in Reads : q # r => v.reads[q] = w.reads[q]
      /\ SameDelivery(w, v)
  BY <1>1, ReadApart DEF Good, Usable
<1>3. Usable(v) /\ ReadsFit(v)
  BY <1>2 DEF Good, Usable, ReadsFit
<1>4. w.facade.active # 0 => w.facade.active \in Reads
  BY ReadsAreNumbers DEF Good, Usable, FacadeTyped, Reads
<1>5. Flows(v, loose)
  BY <1>2, <1>4 DEF Good, Flows
<1>6. Good(v, k, loose)
  BY <1>2, <1>3, <1>5, GoodSame
<1>. QED
  BY <1>1, <1>6

\* The facade is another, and keeps what the delivery needs of it.
LEMMA FacadeApart ==
    ASSUME NEW w, IsWorld(w), NEW f, IsFacade(f), f.paused = w.facade.paused, f.sequence = w.facade.sequence
    PROVE  LET v == [w EXCEPT !.facade = f]
           IN  IsWorld(v) /\ v.facade = f /\ v.reads = w.reads /\ SameDelivery(w, v)
<1>1. PICK v : v = [w EXCEPT !.facade = f]
  OBVIOUS
<1>2. IsWorld(v) /\ v.facade = f /\ v.reads = w.reads
  BY <1>1, FacadeChanges
<1>3. SameDelivery(w, v)
  BY <1>1, <1>2 DEF SameDelivery, IsWorld, HasFields
<1>. QED
  BY <1>1, <1>2, <1>3

LEMMA FacadeGood ==
    ASSUME NEW w, NEW k, NEW loose, Good(w, k, loose), NEW f, IsFacade(f), FacadeTyped(f),
           f.paused = w.facade.paused, f.sequence = w.facade.sequence, w.facade.stops \subseteq f.stops,
           f.active \in {0, w.facade.active}
    PROVE  Good([w EXCEPT !.facade = f], k, loose)
<1>1. PICK v : v = [w EXCEPT !.facade = f]
  OBVIOUS
<1>2. IsWorld(v) /\ v.facade = f /\ v.reads = w.reads /\ SameDelivery(w, v)
  BY <1>1, FacadeApart DEF Good, Usable
<1>3. Usable(v) /\ ReadsFit(v) /\ Flows(v, loose)
  BY <1>2 DEF Good, Usable, ReadsFit, Flows
<1>. QED
  BY <1>1, <1>2, <1>3, GoodSame

\* The timers of a read, and its state
LEMMA TimersGood ==
    ASSUME NEW w, NEW k, NEW loose, NEW r \in Reads, Good(w, k, loose)
    PROVE  /\ loose \in {0, r} => Good([w EXCEPT !.reads[r].flush = TRUE], k, 0)
           /\ loose \in {0, r} => Good([w EXCEPT !.reads[r].flush = FALSE], k, r)
           /\ loose \in {0, r} => Good([w EXCEPT !.reads[r] = Silenced(@)], k, r)
           /\ w.facade.active # r => Good([w EXCEPT !.reads[r] = Silenced(@)], k, loose)
           /\ \A x : Good([w EXCEPT !.reads[r].sample = x], k, loose)
           /\ \A x : Good([w EXCEPT !.reads[r].loading = x], k, loose)
           /\ \A x : Good([w EXCEPT !.reads[r].terminal = x], k, loose)
           /\ \A x \in States : Good([w EXCEPT !.reads[r].state = x], k, loose)
<1>0. IsRead(w.reads[r]) /\ ReadHolds(w.reads[r])
  BY DEF Good, Usable, IsWorld, ReadsFit
<1>1. ASSUME loose \in {0, r} PROVE Good([w EXCEPT !.reads[r].flush = TRUE], k, 0)
  <2>1. PICK read : read = [w.reads[r] EXCEPT !.flush = TRUE]
    OBVIOUS
  <2>2. IsRead(read) /\ ReadHolds(read) /\ read.flush
    BY <1>0, <2>1 DEF IsRead, ReadHolds
  <2>3. [w EXCEPT !.reads[r].flush = TRUE] = [w EXCEPT !.reads[r] = read]
    BY <2>1
  <2>. QED
    BY <1>1, <2>2, <2>3, ReadGood
<1>2. ASSUME loose \in {0, r} PROVE Good([w EXCEPT !.reads[r].flush = FALSE], k, r)
  <2>1. PICK read : read = [w.reads[r] EXCEPT !.flush = FALSE]
    OBVIOUS
  <2>2. IsRead(read) /\ ReadHolds(read)
    BY <1>0, <2>1 DEF IsRead, ReadHolds
  <2>3. [w EXCEPT !.reads[r].flush = FALSE] = [w EXCEPT !.reads[r] = read]
    BY <2>1
  <2>. QED
    BY <1>2, <2>2, <2>3, ReadGood
<1>3. PICK silent : silent = Silenced(w.reads[r])
  OBVIOUS
<1>4. IsRead(silent) /\ ReadHolds(silent)
  BY <1>0, <1>3 DEF IsRead, ReadHolds, Silenced
<1>5. [w EXCEPT !.reads[r] = Silenced(@)] = [w EXCEPT !.reads[r] = silent]
  BY <1>3
<1>6. ASSUME loose \in {0, r} PROVE Good([w EXCEPT !.reads[r] = Silenced(@)], k, r)
  BY <1>4, <1>5, <1>6, ReadGood
<1>7. ASSUME w.facade.active # r PROVE Good([w EXCEPT !.reads[r] = Silenced(@)], k, loose)
  BY <1>4, <1>5, <1>7, ReadKept
<1>8. ASSUME NEW x PROVE Good([w EXCEPT !.reads[r].sample = x], k, loose)
  <2>1. PICK read : read = [w.reads[r] EXCEPT !.sample = x]
    OBVIOUS
  <2>2. IsRead(read) /\ ReadHolds(read) /\ read.queue = w.reads[r].queue /\ read.flush = w.reads[r].flush
    BY <1>0, <2>1 DEF IsRead, ReadHolds
  <2>3. [w EXCEPT !.reads[r].sample = x] = [w EXCEPT !.reads[r] = read]
    BY <2>1
  <2>. QED
    BY <2>2, <2>3, ReadKept
<1>9. ASSUME NEW x PROVE Good([w EXCEPT !.reads[r].loading = x], k, loose)
  <2>1. PICK read : read = [w.reads[r] EXCEPT !.loading = x]
    OBVIOUS
  <2>2. IsRead(read) /\ ReadHolds(read) /\ read.queue = w.reads[r].queue /\ read.flush = w.reads[r].flush
    BY <1>0, <2>1 DEF IsRead, ReadHolds
  <2>3. [w EXCEPT !.reads[r].loading = x] = [w EXCEPT !.reads[r] = read]
    BY <2>1
  <2>. QED
    BY <2>2, <2>3, ReadKept
<1>9a. ASSUME NEW x PROVE Good([w EXCEPT !.reads[r].terminal = x], k, loose)
  <2>1. PICK read : read = [w.reads[r] EXCEPT !.terminal = x]
    OBVIOUS
  <2>2. IsRead(read) /\ ReadHolds(read) /\ read.queue = w.reads[r].queue /\ read.flush = w.reads[r].flush
    BY <1>0, <2>1 DEF IsRead, ReadHolds
  <2>3. [w EXCEPT !.reads[r].terminal = x] = [w EXCEPT !.reads[r] = read]
    BY <2>1
  <2>. QED
    BY <2>2, <2>3, ReadKept
<1>10. ASSUME NEW x \in States PROVE Good([w EXCEPT !.reads[r].state = x], k, loose)
  <2>1. PICK read : read = [w.reads[r] EXCEPT !.state = x]
    OBVIOUS
  <2>2. IsRead(read) /\ ReadHolds(read) /\ read.queue = w.reads[r].queue /\ read.flush = w.reads[r].flush
    BY <1>0, <2>1 DEF IsRead, ReadHolds
  <2>3. [w EXCEPT !.reads[r].state = x] = [w EXCEPT !.reads[r] = read]
    BY <2>1
  <2>. QED
    BY <2>2, <2>3, ReadKept
<1>. QED
  BY <1>1, <1>2, <1>6, <1>7, <1>8, <1>9, <1>9a, <1>10

---------------------------------------------------------------------------
(* Pausing the presentation and stopping the reads, in the middle of       *)
(* whatever publishes.                                                     *)

\* All but the reads and the facade is as it was.
Beside(w, v) ==
    /\ v.route = w.route /\ v.clients = w.clients /\ v.toRenderer = w.toRenderer /\ v.toHost = w.toHost
    /\ v.facade.sequence = w.facade.sequence

LEMMA FlushApart ==
    ASSUME NEW w, IsWorld(w), ReadsFit(w), NEW r \in Reads, NEW x
    PROVE  LET v == [w EXCEPT !.reads[r].flush = x]
           IN  IsWorld(v) /\ ReadsFit(v) /\ v.facade = w.facade /\ v.reads[r].flush = x /\ Beside(w, v)
<1>1. PICK read : read = [w.reads[r] EXCEPT !.flush = x]
  OBVIOUS
<1>2. IsRead(w.reads[r]) /\ ReadHolds(w.reads[r])
  BY DEF IsWorld, ReadsFit
<1>3. IsRead(read) /\ ReadHolds(read) /\ read.flush = x
  BY <1>1, <1>2 DEF IsRead, ReadHolds
<1>4. PICK v : v = [w EXCEPT !.reads[r] = read]
  OBVIOUS
<1>5. [w EXCEPT !.reads[r].flush = x] = v
  BY <1>1, <1>4
<1>6. /\ IsWorld(v) /\ v.facade = w.facade /\ v.reads[r] = read
      /\ \A q \in Reads : q # r => v.reads[q] = w.reads[q]
      /\ SameDelivery(w, v)
  BY <1>3, <1>4, ReadApart
<1>7. ReadsFit(v)
  BY <1>3, <1>6 DEF ReadsFit
<1>. QED
  BY <1>3, <1>5, <1>6, <1>7 DEF SameDelivery, Beside

LEMMA PausedEffect ==
    ASSUME NEW w, Usable(w), ReadsFit(w), NEW paused \in BOOLEAN
    PROVE  LET v == PresentationPaused(w, paused)
           IN  /\ Usable(v) /\ ReadsFit(v) /\ Flows(v, 0) /\ Beside(w, v)
               /\ v.facade = [w.facade EXCEPT !.paused = paused]
<1>1. PICK v : v = PresentationPaused(w, paused)
  OBVIOUS
<1>2. PICK told : told = [w EXCEPT !.facade.paused = paused]
  OBVIOUS
<1>3. PICK f : f = [w.facade EXCEPT !.paused = paused]
  OBVIOUS
<1>4. IsFacade(f) /\ f.paused = paused /\ f.active = w.facade.active
  BY <1>3 DEF Usable, IsWorld, IsFacade
<1>5. IsWorld(told) /\ told.facade = f /\ told.reads = w.reads
  <2>1. told = [w EXCEPT !.facade = f]
    BY <1>2, <1>3
  <2>. QED
    BY <1>4, <2>1, FacadeChanges DEF Usable
<1>6. Beside(w, told) /\ ReadsFit(told)
  <2>1. HasFields(w) /\ f.sequence = w.facade.sequence
    BY <1>3 DEF Usable, IsWorld, IsFacade
  <2>. QED
    BY <1>2, <1>5, <2>1 DEF Beside, HasFields, ReadsFit
<1>7. PICK r : r = w.facade.active
  OBVIOUS
<1>8. r = 0 \/ r \in Reads
  BY <1>7 DEF Usable, FacadeTyped, Reads
<1>9. Usable(v)
  BY <1>1, PausedTold, ToldUsable
<1>10. CASE v = told /\ (r = 0 \/ w.reads[r].queue = <<>>)
  <2>1. Flows(v, 0)
    BY <1>4, <1>5, <1>7, <1>10 DEF Flows
  <2>. QED
    BY <1>1, <1>3, <1>5, <1>6, <1>9, <1>10, <2>1
<1>11. ASSUME NEW x, v = [told EXCEPT !.reads[r].flush = x], paused \/ x, r \in Reads
       PROVE  /\ Usable(v) /\ ReadsFit(v) /\ Flows(v, 0) /\ Beside(w, v) /\ v.facade = f
  <2>1. ReadsFit(v) /\ v.facade = f /\ v.reads[r].flush = x /\ Beside(told, v)
    BY <1>5, <1>6, <1>11, FlushApart
  <2>2. Flows(v, 0)
    BY <1>4, <1>7, <1>11, <2>1 DEF Flows
  <2>3. Beside(w, v)
    BY <1>6, <2>1 DEF Beside
  <2>. QED
    BY <1>9, <2>1, <2>2, <2>3
<1>12. CASE r \in Reads /\ paused
  <2>1. v = [told EXCEPT !.reads[r].flush = FALSE]
    BY <1>1, <1>2, <1>7, <1>12, ReadsAreNumbers DEF PresentationPaused
  <2>. QED
    BY <1>1, <1>3, <1>11, <1>12, <2>1
<1>13. CASE r \in Reads /\ ~paused /\ w.reads[r].queue # <<>>
  <2>1. v = Scheduled(told, r)
    BY <1>1, <1>2, <1>7, <1>13, ReadsAreNumbers DEF PresentationPaused
  <2>2. v = [told EXCEPT !.reads[r].flush = TRUE]
    BY <1>4, <1>5, <1>13, <2>1 DEF Scheduled
  <2>. QED
    BY <1>1, <1>3, <1>11, <1>13, <2>2
<1>14. CASE r = 0 \/ (~paused /\ w.reads[r].queue = <<>>)
  <2>1. v = told
    BY <1>1, <1>2, <1>7, <1>14 DEF PresentationPaused
  <2>. QED
    BY <1>10, <1>14, <2>1
<1>. QED
  BY <1>8, <1>12, <1>13, <1>14

---------------------------------------------------------------------------
\* A stop of the reads, as far as its first await
LEMMA OwnedGood ==
    ASSUME NEW w, NEW k, NEW loose, Good(w, k, loose)
    PROVE  Good(StopOwned(w), k, loose)
<1>1. PICK v : v = StopOwned(w)
  OBVIOUS
<1>2. CASE w.facade.stopping # NoStop /\ w.facade.stopping.intent = w.facade.intent
  BY <1>2 DEF StopOwned
<1>3. CASE ~(w.facade.stopping # NoStop /\ w.facade.stopping.intent = w.facade.intent)
  <2>1. PICK r, silent : r = w.facade.active /\ silent = ReadSilenced(w, r)
    OBVIOUS
  <2>1a. PICK stop : stop = [intent |-> w.facade.intent + 1, read |-> r, by |-> "stop"]
    OBVIOUS
  <2>2. PICK f : f = [silent.facade EXCEPT !.intent = @ + 1, !.active = 0, !.stopping = stop]
    OBVIOUS
  <2>3. v = [silent EXCEPT !.facade = f]
    BY <1>1, <1>3, <2>1, <2>1a, <2>2 DEF StopOwned
  <2>4. r \in 0 .. MaxReads /\ w.facade.intent \in Nat /\ FacadeTyped(w.facade) /\ IsFacade(w.facade)
    BY <2>1 DEF Good, Usable, FacadeTyped, IsWorld
  <2>5. /\ IsWorld(silent) /\ ReadsFit(silent) /\ silent.facade = w.facade /\ SameDelivery(w, silent)
    <3>1. CASE r = 0
      BY <2>1, <3>1 DEF ReadSilenced, Good, Usable, SameDelivery
    <3>2. CASE r # 0
      <4>1. r \in Reads
        BY <2>4, <3>2, ReadsAreNumbers DEF Reads
      <4>2. PICK read : read = Silenced(w.reads[r])
        OBVIOUS
      <4>3. IsRead(w.reads[r]) /\ ReadHolds(w.reads[r])
        BY <4>1 DEF Good, Usable, IsWorld, ReadsFit
      <4>4. IsRead(read) /\ ReadHolds(read)
        BY <4>2, <4>3 DEF IsRead, ReadHolds, Silenced
      <4>5. silent = [w EXCEPT !.reads[r] = read]
        BY <2>1, <3>2, <4>2 DEF ReadSilenced
      <4>6. /\ IsWorld(silent) /\ silent.facade = w.facade /\ silent.reads[r] = read
            /\ \A q \in Reads : q # r => silent.reads[q] = w.reads[q]
            /\ SameDelivery(w, silent)
        BY <4>1, <4>4, <4>5, ReadApart DEF Good, Usable
      <4>. QED
        BY <4>4, <4>6 DEF Good, ReadsFit
    <3>. QED
      BY <3>1, <3>2
  <2>5a. PICK g : g = w.facade
    OBVIOUS
  <2>5b. IsFacade(g) /\ f = [g EXCEPT !.intent = @ + 1, !.active = 0, !.stopping = stop]
    BY <2>2, <2>4, <2>5, <2>5a
  <2>5c. /\ IsFacade(f) /\ f.active = 0 /\ f.paused = g.paused /\ f.sequence = g.sequence
         /\ f.stops = g.stops /\ f.continuation = g.continuation /\ f.intent = g.intent + 1
         /\ f.stopping = stop
    BY <2>5b DEF IsFacade
  <2>6. /\ IsFacade(f) /\ f.active = 0 /\ f.paused = w.facade.paused /\ f.sequence = w.facade.sequence
        /\ f.stops = w.facade.stops
    BY <2>5a, <2>5c
  <2>7. FacadeTyped(f)
    <3>1. f.continuation = w.facade.continuation /\ f.intent = w.facade.intent + 1
          /\ f.stopping = stop
      BY <2>5a, <2>5c
    <3>2. f.stopping \in Stop
      BY <2>1a, <2>4, <3>1 DEF Stop
    <3>. QED
      BY <2>4, <2>6, <3>1, <3>2, ReadsAreNumbers DEF FacadeTyped
  <2>8. IsWorld(v) /\ v.facade = f /\ v.reads = silent.reads /\ SameDelivery(silent, v)
    BY <2>3, <2>5, <2>6, FacadeApart
  <2>9. Usable(v) /\ ReadsFit(v) /\ Flows(v, loose) /\ SameDelivery(w, v)
    BY <2>5, <2>6, <2>7, <2>8 DEF Usable, ReadsFit, Flows, SameDelivery
  <2>10. Good(v, k, loose)
    BY <2>6, <2>8, <2>9, GoodSame
  <2>. QED
    BY <1>1, <2>10
<1>. QED
  BY <1>2, <1>3

LEMMA StopGood ==
    ASSUME NEW w, NEW k, NEW loose, Good(w, k, loose)
    PROVE  LET v == StreamStopped(w)
           IN  Good(v, k, loose) /\ v.facade.stopping \in v.facade.stops
<1>1. PICK u, v : u = StopOwned(w) /\ v = StopRequested(u)
  OBVIOUS
<1>2. Good(u, k, loose)
  BY <1>1, OwnedGood
<1>3. CASE u.facade.stopping \in u.facade.stops
  BY <1>1, <1>2, <1>3 DEF StopRequested, StreamStopped
<1>4. CASE u.facade.stopping \notin u.facade.stops
  <2>1. PICK f : f = [u.facade EXCEPT !.stops = @ \cup {u.facade.stopping}]
    OBVIOUS
  <2>2. IsFacade(u.facade) /\ FacadeTyped(u.facade) /\ IsWorld(u)
    BY <1>2 DEF Good, Usable, IsWorld
  <2>3. /\ IsFacade(f) /\ f.active = u.facade.active /\ f.paused = u.facade.paused
        /\ f.sequence = u.facade.sequence /\ f.stops = u.facade.stops \cup {u.facade.stopping}
        /\ f.stopping = u.facade.stopping /\ f.continuation = u.facade.continuation /\ f.intent = u.facade.intent
    BY <2>1, <2>2 DEF IsFacade
  <2>4. FacadeTyped(f)
    BY <2>2, <2>3 DEF FacadeTyped
  <2>5. PICK s : s = [u EXCEPT !.facade = f]
    OBVIOUS
  <2>6. Good(s, k, loose) /\ s.facade = f /\ IsWorld(s)
    BY <1>2, <2>2, <2>3, <2>4, <2>5, FacadeGood, FacadeApart
  <2>7. v = [s EXCEPT !.streams = Revoked(s.streams)]
    BY <1>1, <1>4, <2>1, <2>5 DEF StopRequested, StreamsStopped
  <2>8. Good(v, k, loose)
    BY <2>6, <2>7, FieldsGood
  <2>9. v.facade = f
    BY <2>6, <2>7 DEF IsWorld, HasFields
  <2>. QED
    BY <1>1, <2>3, <2>8, <2>9 DEF StreamStopped
<1>. QED
  BY <1>3, <1>4

LEMMA RequestBeside ==
    ASSUME NEW u, HasFields(u), IsFacade(u.facade)
    PROVE  Beside(u, StopRequested(u))
<1>1. CASE u.facade.stopping \in u.facade.stops
  BY <1>1 DEF StopRequested, Beside
<1>2. CASE u.facade.stopping \notin u.facade.stops
  <2>1. PICK s : s = [u EXCEPT !.facade.stops = @ \cup {u.facade.stopping}]
    OBVIOUS
  <2>2. HasFields(s) /\ Beside(u, s)
    BY <2>1 DEF HasFields, IsFacade, Beside
  <2>3. StopRequested(u) = [s EXCEPT !.streams = Revoked(s.streams)]
    BY <1>2, <2>1 DEF StopRequested, StreamsStopped
  <2>. QED
    BY <2>2, <2>3 DEF HasFields, Beside
<1>. QED
  BY <1>1, <1>2

LEMMA StopBeside ==
    ASSUME NEW w, Usable(w)
    PROVE  Beside(w, StreamStopped(w))
<1>1. HasFields(w) /\ IsFacade(w.facade)
  BY DEF Usable, IsWorld
<1>2. PICK u : u = StopOwned(w)
  OBVIOUS
<1>3. PICK silent : silent = ReadSilenced(w, w.facade.active)
  OBVIOUS
<1>4. HasFields(silent) /\ silent.facade = w.facade /\ Beside(w, silent)
  BY <1>1, <1>3 DEF ReadSilenced, HasFields, Beside
<1>5. CASE u = w
  BY <1>1, <1>2, <1>5, RequestBeside DEF StreamStopped
<1>6. CASE u # w
  <2>0. PICK stop : stop = [intent |-> w.facade.intent + 1, read |-> w.facade.active, by |-> "stop"]
    OBVIOUS
  <2>1. u = [silent EXCEPT !.facade.intent = @ + 1, !.facade.active = 0, !.facade.stopping = stop]
    BY <1>2, <1>3, <1>6, <2>0 DEF StopOwned
  <2>1a. PICK g : g = w.facade
    OBVIOUS
  <2>1b. PICK f : f = [g EXCEPT !.intent = @ + 1, !.active = 0, !.stopping = stop]
    OBVIOUS
  <2>1c. IsFacade(f) /\ f.sequence = g.sequence
    BY <1>1, <2>1a, <2>1b DEF IsFacade
  <2>1d. u = [silent EXCEPT !.facade = f]
    BY <1>4, <2>1, <2>1a, <2>1b DEF HasFields
  <2>2. HasFields(u) /\ IsFacade(u.facade) /\ Beside(silent, u)
    BY <1>4, <2>1a, <2>1c, <2>1d DEF HasFields, Beside
  <2>3. Beside(u, StopRequested(u))
    BY <2>2, RequestBeside
  <2>. QED
    BY <1>2, <1>4, <2>2, <2>3 DEF StreamStopped, Beside
<1>. QED
  BY <1>5, <1>6

LEMMA InterruptedGood ==
    ASSUME NEW w, NEW k, NEW loose, Good(w, k, loose)
    PROVE  Good(Interrupted(w), k, loose)
<1>1. PICK f : f = [w.facade EXCEPT !.admission = @ + 1]
  OBVIOUS
<1>2. IsFacade(w.facade) /\ FacadeTyped(w.facade)
  BY DEF Good, Usable, IsWorld
<1>3. /\ IsFacade(f) /\ f.active = w.facade.active /\ f.paused = w.facade.paused
      /\ f.sequence = w.facade.sequence /\ f.stops = w.facade.stops
      /\ f.stopping = w.facade.stopping /\ f.continuation = w.facade.continuation /\ f.intent = w.facade.intent
  BY <1>1, <1>2 DEF IsFacade
<1>4. FacadeTyped(f)
  BY <1>2, <1>3 DEF FacadeTyped
<1>5. Interrupted(w) = [w EXCEPT !.facade = f]
  BY <1>1 DEF Interrupted
<1>. QED
  BY <1>3, <1>4, <1>5, FacadeGood

\* A recovery waits for the stop that it starts.
LEMMA RecoveryGood ==
    ASSUME NEW w, NEW k, NEW loose, Good(w, k, loose), k.transport = "web" \/ ~w.clients[Desktop].open
    PROVE  Good(RecoveryStops(w), k, loose)
<1>1. PICK u, s, v : u = Interrupted(w) /\ s = StreamStopped(u) /\ v = RecoveryWaits(s)
  OBVIOUS
<1>2. Good(u, k, loose) /\ u.clients = w.clients
  <2>1. u.clients = w.clients
    BY <1>1 DEF Interrupted, Good, Usable, IsWorld, HasFields
  <2>. QED
    BY <1>1, <2>1, InterruptedGood
<1>3. Good(s, k, loose) /\ s.facade.stopping \in s.facade.stops
  BY <1>1, <1>2, StopGood
<1>4. s.clients = w.clients
  <2>1. Beside(u, s)
    BY <1>1, <1>2, StopBeside DEF Good
  <2>. QED
    BY <1>2, <2>1 DEF Beside
<1>5. PICK path : path = [s.route EXCEPT !.recovery = "pending", !.stop = s.facade.stopping]
  OBVIOUS
<1>6. v = [s EXCEPT !.route = path]
  BY <1>1, <1>5 DEF RecoveryWaits
<1>7. s.route \in Route /\ IsWorld(s) /\ s.facade.stopping \in Stop
  BY <1>3 DEF Good, Delivering, Usable, FacadeTyped
<1>8. /\ path \in Route /\ path.transport = s.route.transport /\ path.subscribed = s.route.subscribed
      /\ path.lastSequence = s.route.lastSequence /\ path.stop = s.facade.stopping
  BY <1>5, <1>7 DEF Route, Recoveries
<1>9. /\ IsWorld(v) /\ v.facade = s.facade /\ v.reads = s.reads /\ v.clients = s.clients /\ v.route = path
      /\ v.toRenderer = s.toRenderer /\ v.toHost = s.toHost
  <2>1. Quiet(s, v)
    BY <1>6, <1>7, FieldsQuiet
  <2>. QED
    BY <1>6, <1>7, <2>1 DEF Quiet, IsWorld, HasFields
<1>10. Usable(v) /\ ReadsFit(v) /\ Flows(v, loose)
  BY <1>3, <1>9 DEF Good, Usable, ReadsFit, Flows
<1>11. Answered(v, k.answering)
  BY <1>3, <1>8, <1>9 DEF Answered
<1>12. Delivering(v, k)
  <2>1. Delivering(s, k)
    BY <1>3 DEF Good
  <2>2. k.transport = "desktop" => DesktopFits(v)
    BY <1>4, <1>8, <1>9, <2>1 DEF Delivering, DesktopFits
  <2>3. k.transport = "web" => WebFits(v)
    BY <1>9, <2>1 DEF Delivering, WebFits
  <2>. QED
    BY <1>8, <1>9, <2>1, <2>2, <2>3 DEF Delivering
<1>. QED
  BY <1>1, <1>10, <1>11, <1>12 DEF RecoveryStops, Good

---------------------------------------------------------------------------
(* The numbers of the desktop.                                             *)

\* The oldest entry is sent.
LEMMA OrderedBegun ==
    ASSUME NEW events, NEW acknowledged, NEW pending \in Seq(Entry), NEW last \in Nat,
           Ordered(events, acknowledged, pending, last), pending # <<>>
    PROVE  Ordered(Append(events, pending[1].event), acknowledged, Tail(pending), last)
<1>1. PICK event : event = pending[1].event
  OBVIOUS
<1>2. PICK n \in Nat : n = Len(events)
  BY DEF Ordered
<1>3. PICK m \in Nat : m = Len(pending) /\ m >= 1
  OBVIOUS
<1>4. event \in Event /\ event.seq \in 1 .. last
  BY <1>1, <1>3, EntryTyped DEF Ordered
<1>5. PICK more : more = Append(events, event)
  OBVIOUS
<1>6. /\ more \in Seq(Event) /\ Len(more) = n + 1 /\ more[n + 1] = event
      /\ \A i \in 1 .. n : more[i] = events[i]
  BY <1>2, <1>4, <1>5 DEF Ordered
<1>7. PICK rest : rest = Tail(pending)
  OBVIOUS
<1>8. Len(rest) = m - 1 /\ \A i \in 1 .. m - 1 : rest[i] = pending[i + 1]
  BY <1>3, <1>7
<1>9. \A i \in 1 .. n : events[i].seq < event.seq
  BY <1>1, <1>2, <1>3 DEF Ordered
<1>10. \A j \in 2 .. m : event.seq < pending[j].event.seq
  BY <1>1, <1>3 DEF Ordered, Rising
<1>11. Increasing(more)
  <2>1. ASSUME NEW i \in 1 .. n + 1, NEW j \in 1 .. n + 1, i < j
        PROVE  more[i].seq < more[j].seq
    <3>1. i \in 1 .. n
      BY <2>1
    <3>2. CASE j = n + 1
      BY <1>6, <1>9, <3>1, <3>2
    <3>3. CASE j # n + 1
      <4>1. j \in 1 .. n
        BY <3>3
      <4>2. events[i].seq < events[j].seq
        BY <1>2, <2>1, <3>1, <4>1 DEF Ordered, Increasing
      <4>. QED
        BY <1>6, <3>1, <4>1, <4>2
    <3>. QED
      BY <3>2, <3>3
  <2>. QED
    BY <1>6, <2>1 DEF Increasing
<1>12. Rising(rest)
  <2>1. ASSUME NEW i \in 1 .. m - 1, NEW j \in 1 .. m - 1, i < j
        PROVE  rest[i].event.seq < rest[j].event.seq
    <3>1. i + 1 \in 1 .. m /\ j + 1 \in 1 .. m /\ i + 1 < j + 1
      BY <2>1
    <3>2. pending[i + 1].event.seq < pending[j + 1].event.seq
      BY <1>3, <3>1 DEF Ordered, Rising
    <3>. QED
      BY <1>8, <3>2
  <2>. QED
    BY <1>8, <2>1 DEF Rising
<1>13. \A i \in 1 .. n + 1 : i \in 1 .. n \/ i = n + 1
  BY <1>2
<1>14. \A i \in 1 .. m - 1 : i + 1 \in 2 .. m /\ i + 1 \in 1 .. m
  BY <1>3
<1>15. \A i \in 1 .. Len(more) : more[i].seq \in 1 .. last
  <2>1. \A i \in 1 .. n : events[i].seq \in 1 .. last
    BY <1>2 DEF Ordered
  <2>. QED
    BY <1>4, <1>6, <1>13, <2>1
<1>16. \A i \in 1 .. Len(acknowledged), j \in 1 .. Len(more) : acknowledged[i] < more[j].seq
  <2>1. \A i \in 1 .. Len(acknowledged), j \in 1 .. n : acknowledged[i] < events[j].seq
    BY <1>2 DEF Ordered
  <2>2. \A i \in 1 .. Len(acknowledged) : acknowledged[i] < event.seq
    BY <1>1, <1>3 DEF Ordered
  <2>. QED
    BY <1>6, <1>13, <2>1, <2>2
<1>17. /\ \A i \in 1 .. Len(rest) : rest[i].event.seq \in 1 .. last
       /\ \A i \in 1 .. Len(acknowledged), j \in 1 .. Len(rest) : acknowledged[i] < rest[j].event.seq
  BY <1>3, <1>8, <1>14 DEF Ordered
<1>18. \A i \in 1 .. Len(more), j \in 1 .. Len(rest) : more[i].seq < rest[j].event.seq
  <2>1. \A i \in 1 .. n, j \in 1 .. m - 1 : events[i].seq < rest[j].event.seq
    BY <1>2, <1>3, <1>8, <1>14 DEF Ordered
  <2>2. \A j \in 1 .. m - 1 : event.seq < rest[j].event.seq
    BY <1>8, <1>10, <1>14
  <2>. QED
    BY <1>6, <1>8, <1>13, <2>1, <2>2
<1>19. acknowledged \in Seq(Nat) /\ \A i \in 1 .. Len(acknowledged) : acknowledged[i] \in 0 .. last
  BY DEF Ordered
<1>20. Ordered(more, acknowledged, rest, last)
  BY <1>6, <1>11, <1>12, <1>15, <1>16, <1>17, <1>18, <1>19 DEF Ordered
<1>. QED
  BY <1>1, <1>5, <1>7, <1>20

\* Nothing waits any more.
LEMMA OrderedNothing ==
    ASSUME NEW events, NEW acknowledged, NEW pending, NEW last \in Nat,
           Ordered(events, acknowledged, pending, last)
    PROVE  Ordered(events, acknowledged, <<>>, last)
  BY DEF Ordered, Rising

\* A number is taken.
LEMMA OrderedNext ==
    ASSUME NEW events, NEW acknowledged, NEW pending, NEW last \in Nat, NEW next \in Nat, last <= next,
           Ordered(events, acknowledged, pending, last)
    PROVE  Ordered(events, acknowledged, pending, next)
<1>1. \A n \in 1 .. last : n \in 1 .. next
  OBVIOUS
<1>2. \A n \in 0 .. last : n \in 0 .. next
  OBVIOUS
<1>. QED
  BY <1>1, <1>2 DEF Ordered

\* The event with the newest number waits.
LEMMA OrderedAmong ==
    ASSUME NEW events, NEW acknowledged, NEW pending, NEW more, NEW last \in Nat, NEW seq \in Nat, last < seq,
           Ordered(events, acknowledged, pending, last), Rising(more), Among(pending, more, seq)
    PROVE  Ordered(events, acknowledged, more, seq)
<1>1. Ordered(events, acknowledged, pending, seq)
  BY OrderedNext
<1>2. ASSUME NEW i \in 1 .. Len(more)
      PROVE  /\ more[i].event.seq \in 1 .. seq
             /\ \A j \in 1 .. Len(acknowledged) : acknowledged[j] < more[i].event.seq
             /\ \A j \in 1 .. Len(events) : events[j].seq < more[i].event.seq
  <2>1. CASE more[i].event.seq = seq
    <3>1. \A j \in 1 .. Len(acknowledged) : acknowledged[j] \in 0 .. last
      BY DEF Ordered
    <3>2. \A j \in 1 .. Len(events) : events[j].seq \in 1 .. last
      BY DEF Ordered
    <3>. QED
      BY <2>1, <3>1, <3>2
  <2>2. CASE \E j \in 1 .. Len(pending) : more[i].event.seq = pending[j].event.seq
    BY <1>1, <2>2 DEF Ordered
  <2>. QED
    BY <1>2, <2>1, <2>2 DEF Among
<1>. QED
  BY <1>1, <1>2 DEF Ordered

\* The first acknowledgement arrives.
LEMMA OrderedTail ==
    ASSUME NEW events, NEW acknowledged, NEW pending, NEW last \in Nat,
           Ordered(events, acknowledged, pending, last), acknowledged # <<>>
    PROVE  Ordered(events, Tail(acknowledged), pending, last)
<1>1. PICK n \in Nat : n = Len(acknowledged) /\ n >= 1
  BY DEF Ordered
<1>2. PICK rest : rest = Tail(acknowledged)
  OBVIOUS
<1>3. rest \in Seq(Nat) /\ Len(rest) = n - 1 /\ \A i \in 1 .. n - 1 : rest[i] = acknowledged[i + 1]
  BY <1>1, <1>2 DEF Ordered
<1>4. \A i \in 1 .. n - 1 : i + 1 \in 1 .. n
  BY <1>1
<1>5. /\ \A i \in 1 .. n : acknowledged[i] \in 0 .. last
      /\ \A i \in 1 .. n, j \in 1 .. Len(events) : acknowledged[i] < events[j].seq
      /\ \A i \in 1 .. n, j \in 1 .. Len(pending) : acknowledged[i] < pending[j].event.seq
  BY <1>1 DEF Ordered
<1>. QED
  BY <1>2, <1>3, <1>4, <1>5 DEF Ordered

\* The first event arrives, and is acknowledged or not.
LEMMA OrderedShown ==
    ASSUME NEW events, NEW acknowledged, NEW pending, NEW last \in Nat,
           Ordered(events, acknowledged, pending, last), events # <<>>
    PROVE  /\ Ordered(Tail(events), acknowledged, pending, last)
           /\ Ordered(Tail(events), Append(acknowledged, events[1].seq), pending, last)
<1>1. PICK n \in Nat : n = Len(events) /\ n >= 1
  BY DEF Ordered
<1>2. PICK rest, seq : rest = Tail(events) /\ seq = events[1].seq
  OBVIOUS
<1>3. rest \in Seq(Event) /\ Len(rest) = n - 1 /\ \A i \in 1 .. n - 1 : rest[i] = events[i + 1]
  BY <1>1, <1>2 DEF Ordered
<1>4. \A i \in 1 .. n - 1 : i + 1 \in 2 .. n /\ i + 1 \in 1 .. n
  BY <1>1
<1>5. Increasing(rest)
  <2>1. ASSUME NEW i \in 1 .. n - 1, NEW j \in 1 .. n - 1, i < j
        PROVE  rest[i].seq < rest[j].seq
    <3>1. i + 1 \in 1 .. n /\ j + 1 \in 1 .. n /\ i + 1 < j + 1
      BY <2>1
    <3>2. events[i + 1].seq < events[j + 1].seq
      BY <1>1, <3>1 DEF Ordered, Increasing
    <3>. QED
      BY <1>3, <3>2
  <2>. QED
    BY <1>3, <2>1 DEF Increasing
<1>6. /\ \A i \in 1 .. n - 1 : rest[i].seq \in 1 .. last
      /\ \A i \in 1 .. Len(acknowledged), j \in 1 .. n - 1 : acknowledged[i] < rest[j].seq
      /\ \A i \in 1 .. n - 1, j \in 1 .. Len(pending) : rest[i].seq < pending[j].event.seq
  BY <1>1, <1>3, <1>4 DEF Ordered
<1>7. Ordered(rest, acknowledged, pending, last)
  BY <1>3, <1>5, <1>6 DEF Ordered
<1>8. /\ seq \in 1 .. last /\ \A j \in 1 .. n - 1 : seq < rest[j].seq
      /\ \A j \in 1 .. Len(pending) : seq < pending[j].event.seq
  <2>1. 1 \in 1 .. n /\ \A j \in 2 .. n : j \in 1 .. n /\ 1 < j
    BY <1>1
  <2>2. \A j \in 2 .. n : seq < events[j].seq
    BY <1>1, <1>2, <2>1 DEF Ordered, Increasing
  <2>. QED
    BY <1>1, <1>2, <1>3, <1>4, <2>1, <2>2 DEF Ordered
<1>9. PICK m \in Nat : m = Len(acknowledged)
  BY DEF Ordered
<1>10. PICK more : more = Append(acknowledged, seq)
  OBVIOUS
<1>11. /\ more \in Seq(Nat) /\ Len(more) = m + 1 /\ more[m + 1] = seq
       /\ \A i \in 1 .. m : more[i] = acknowledged[i]
  BY <1>8, <1>9, <1>10 DEF Ordered
<1>12. \A i \in 1 .. m + 1 : i \in 1 .. m \/ i = m + 1
  BY <1>9
<1>13. \A i \in 1 .. m : acknowledged[i] \in 0 .. last
  BY <1>9 DEF Ordered
<1>14. \A i \in 1 .. m + 1 : more[i] \in 0 .. last
  BY <1>8, <1>11, <1>12, <1>13
<1>15. \A i \in 1 .. m + 1, j \in 1 .. n - 1 : more[i] < rest[j].seq
  BY <1>6, <1>8, <1>9, <1>11, <1>12
<1>16. \A i \in 1 .. m, j \in 1 .. Len(pending) : acknowledged[i] < pending[j].event.seq
  BY <1>9 DEF Ordered
<1>17. \A i \in 1 .. m + 1, j \in 1 .. Len(pending) : more[i] < pending[j].event.seq
  BY <1>8, <1>11, <1>12, <1>16
<1>18. Ordered(rest, more, pending, last)
  BY <1>3, <1>7, <1>11, <1>14, <1>15, <1>17 DEF Ordered
<1>. QED
  BY <1>2, <1>7, <1>10, <1>18

\* A subscription is asked for.
LEMMA OrderedAsked ==
    ASSUME NEW events, NEW acknowledged, NEW pending, NEW last \in Nat,
           Ordered(events, acknowledged, pending, last)
    PROVE  Ordered(events, Append(acknowledged, Subscription), pending, last)
<1>9. PICK m \in Nat : m = Len(acknowledged)
  BY DEF Ordered
<1>10. PICK more : more = Append(acknowledged, Subscription)
  OBVIOUS
<1>11. /\ more \in Seq(Nat) /\ Len(more) = m + 1 /\ more[m + 1] = 0
       /\ \A i \in 1 .. m : more[i] = acknowledged[i]
  BY <1>9, <1>10 DEF Ordered, Subscription
<1>12. \A i \in 1 .. m + 1 : i \in 1 .. m \/ i = m + 1
  BY <1>9
<1>13. \A i \in 1 .. m : acknowledged[i] \in 0 .. last
  BY <1>9 DEF Ordered
<1>14. \A i \in 1 .. m + 1 : more[i] \in 0 .. last
  BY <1>11, <1>12, <1>13
<1>14a. /\ \A j \in 1 .. Len(events) : events[j].seq \in 1 .. last
        /\ \A j \in 1 .. Len(pending) : pending[j].event.seq \in 1 .. last
        /\ \A i \in 1 .. m, j \in 1 .. Len(events) : acknowledged[i] < events[j].seq
        /\ \A i \in 1 .. m, j \in 1 .. Len(pending) : acknowledged[i] < pending[j].event.seq
  BY <1>9 DEF Ordered
<1>14b. \A n \in 1 .. last : 0 < n
  OBVIOUS
<1>15. \A i \in 1 .. m + 1, j \in 1 .. Len(events) : more[i] < events[j].seq
  BY <1>11, <1>12, <1>14a, <1>14b
<1>17. \A i \in 1 .. m + 1, j \in 1 .. Len(pending) : more[i] < pending[j].event.seq
  BY <1>11, <1>12, <1>14a, <1>14b
<1>18. Ordered(events, more, pending, last)
  BY <1>11, <1>14, <1>15, <1>17 DEF Ordered
<1>. QED
  BY <1>10, <1>18

\* A report is sent while nothing waits.
LEMMA OrderedReported ==
    ASSUME NEW events, NEW acknowledged, NEW last \in Nat, NEW report \in Event, report.seq = last + 1,
           Ordered(events, acknowledged, <<>>, last)
    PROVE  Ordered(Append(events, report), acknowledged, <<>>, last + 1)
<1>1. PICK n \in Nat : n = Len(events)
  BY DEF Ordered
<1>2. PICK more : more = Append(events, report)
  OBVIOUS
<1>3. /\ more \in Seq(Event) /\ Len(more) = n + 1 /\ more[n + 1] = report
      /\ \A i \in 1 .. n : more[i] = events[i]
  BY <1>1, <1>2 DEF Ordered
<1>4. \A i \in 1 .. n + 1 : i \in 1 .. n \/ i = n + 1
  BY <1>1
<1>5. PICK next \in Nat : next = last + 1
  OBVIOUS
<1>6. Ordered(events, acknowledged, <<>>, next)
  BY <1>5, OrderedNext
<1>7. /\ \A i \in 1 .. n : events[i].seq \in 1 .. last
      /\ \A i \in 1 .. Len(acknowledged) : acknowledged[i] \in 0 .. last
      /\ \A i \in 1 .. Len(acknowledged), j \in 1 .. n : acknowledged[i] < events[j].seq
  BY <1>1 DEF Ordered
<1>8. Increasing(more)
  <2>1. ASSUME NEW i \in 1 .. n + 1, NEW j \in 1 .. n + 1, i < j
        PROVE  more[i].seq < more[j].seq
    <3>1. i \in 1 .. n
      BY <2>1
    <3>2. CASE j = n + 1
      BY <1>3, <1>7, <3>1, <3>2
    <3>3. CASE j # n + 1
      <4>1. j \in 1 .. n
        BY <3>3
      <4>2. events[i].seq < events[j].seq
        BY <1>1, <2>1, <3>1, <4>1 DEF Ordered, Increasing
      <4>. QED
        BY <1>3, <3>1, <4>1, <4>2
    <3>. QED
      BY <3>2, <3>3
  <2>. QED
    BY <1>3, <2>1 DEF Increasing
<1>9. \A i \in 1 .. n + 1 : more[i].seq \in 1 .. next
  BY <1>3, <1>4, <1>5, <1>7
<1>10. \A i \in 1 .. Len(acknowledged), j \in 1 .. n + 1 : acknowledged[i] < more[j].seq
  BY <1>3, <1>4, <1>7
<1>11. Ordered(more, acknowledged, <<>>, next)
  BY <1>3, <1>6, <1>8, <1>9, <1>10 DEF Ordered, Rising
<1>. QED
  BY <1>2, <1>5, <1>11

---------------------------------------------------------------------------
(* The delivery of the desktop.                                            *)

LEMMA NoClientFits == ClientFits(NoClient) /\ NoClient.queue.pending = <<>> /\ NoClient.queue.inflight = <<>>
  BY EmptyFits DEF ClientFits, Client, NoClient, Writes, QueueFits, Sends

LEMMA DesktopIsClient == Desktop \in Clients
  BY ClientsAssumption DEF Desktop, Clients

\* What a world of the desktop needs, if only its one delivery changes.
DesktopHolds(w, v, client) ==
    /\ ClientFits(client) /\ v.clients = [w.clients EXCEPT ![Desktop] = client]
    /\ client.write = "none" /\ ~client.blocked /\ (client.paused => client.queue.inflight # <<>>)
    /\ v.facade.paused = client.paused /\ v.toHost = w.toHost
    /\ v.route \in Route /\ v.route.transport = "desktop" /\ v.route.subscribed = client.open
    /\ (v.route.recovery \in {"pending", "failed"} => ~client.open)
    /\ v.facade.sequence \in Nat /\ v.route.lastSequence <= v.facade.sequence
    /\ Ordered(v.toRenderer, w.toHost, client.queue.pending, v.route.lastSequence)

LEMMA DesktopGood ==
    ASSUME NEW w, NEW k, NEW other, Good(w, k, other), k.transport = "desktop",
           NEW v, NEW loose, Usable(v), ReadsFit(v), Flows(v, loose), Answered(v, k.answering),
           NEW client, DesktopHolds(w, v, client)
    PROVE  Good(v, k, loose)
<1>. USE DEF DesktopHolds
<1>1. Delivering(w, k) /\ DesktopFits(w)
  BY DEF Good, Delivering
<1>2. client \in Client /\ client.paused \in BOOLEAN
  BY DEF ClientFits, Client
<1>3. v.clients \in [Clients -> Client] /\ v.clients[Desktop] = client
      /\ \A c \in Clients : c # Desktop => v.clients[c] = w.clients[c]
  BY <1>1, <1>2, DesktopIsClient DEF Delivering
<1>4. \A c \in Clients : ClientFits(v.clients[c])
  BY <1>1, <1>3 DEF Delivering
<1>5. DesktopFits(v)
  BY <1>1, <1>3 DEF DesktopFits
<1>6. Delivering(v, k)
  BY <1>1, <1>2, <1>3, <1>4, <1>5 DEF Delivering
<1>. QED
  BY <1>6 DEF Good

\* The delivery is closed.
LEMMA ClosedGood ==
    ASSUME NEW w, NEW k, NEW loose, Good(w, k, loose), k.transport = "desktop"
    PROVE  LET v == DeliveryClosed(w, Desktop)
           IN  /\ Usable(v) /\ ReadsFit(v) /\ Flows(v, loose)
               /\ v.clients = [w.clients EXCEPT ![Desktop] = NoClient]
               /\ v.route = w.route /\ v.toRenderer = w.toRenderer /\ v.toHost = w.toHost
               /\ v.facade = [w.facade EXCEPT !.paused = FALSE]
<1>1. PICK u, v : u = [w EXCEPT !.clients[Desktop] = NoClient] /\ v = DeliveryClosed(w, Desktop)
  OBVIOUS
<1>2. PICK some : some = [w.clients EXCEPT ![Desktop] = NoClient]
  OBVIOUS
<1>3. u = [w EXCEPT !.clients = some] /\ IsWorld(w) /\ HasFields(w) /\ FacadeTyped(w.facade) /\ IsFacade(w.facade)
  BY <1>1, <1>2 DEF Good, Usable, IsWorld
<1>4. Quiet(w, u)
  BY <1>3, FieldsQuiet
<1>5. u.clients = some /\ u.route = w.route /\ u.toRenderer = w.toRenderer /\ u.toHost = w.toHost
  BY <1>3 DEF HasFields
<1>6. Usable(u) /\ ReadsFit(u) /\ Flows(u, loose)
  BY <1>3, <1>4 DEF Quiet, Good, Usable, ReadsFit, Flows
<1>7. w.facade.paused = w.clients[Desktop].paused /\ w.facade.paused \in BOOLEAN
  BY DEF Good, Delivering, DesktopFits
<1>8. CASE w.clients[Desktop].paused
  <2>1. v = PresentationPaused(u, FALSE)
    BY <1>1, <1>8 DEF DeliveryClosed
  <2>2. Usable(v) /\ ReadsFit(v) /\ Flows(v, 0) /\ Beside(u, v) /\ v.facade = [u.facade EXCEPT !.paused = FALSE]
    BY <1>6, <2>1, PausedEffect
  <2>3. Flows(v, loose)
    BY <2>2 DEF Flows
  <2>. QED
    BY <1>1, <1>2, <1>4, <1>5, <2>2, <2>3 DEF Quiet, Beside
<1>9. CASE ~w.clients[Desktop].paused
  <2>1. v = u
    BY <1>1, <1>9 DEF DeliveryClosed
  <2>2. w.facade = [w.facade EXCEPT !.paused = FALSE]
    BY <1>3, <1>7, <1>9 DEF IsFacade
  <2>. QED
    BY <1>1, <1>2, <1>4, <1>5, <1>6, <2>1, <2>2 DEF Quiet
<1>. QED
  BY <1>8, <1>9

\* The delivery fails, whatever its queue has become.
LEMMA FailedGood ==
    ASSUME NEW w, NEW k, NEW loose, Good(w, k, loose), k.transport = "desktop"
    PROVE  /\ Good(DeliveryFailed(w), k, loose)
           /\ \A q : Good(DeliveryFailed([w EXCEPT !.clients[Desktop].queue = q]), k, loose)
<1>1. PICK u : u = DeliveryClosed(w, Desktop)
  OBVIOUS
<1>2. /\ Usable(u) /\ ReadsFit(u) /\ Flows(u, loose)
      /\ u.clients = [w.clients EXCEPT ![Desktop] = NoClient]
      /\ u.route = w.route /\ u.toRenderer = w.toRenderer /\ u.toHost = w.toHost
      /\ u.facade = [w.facade EXCEPT !.paused = FALSE]
  BY <1>1, ClosedGood
<1>3. IsFacade(w.facade) /\ w.clients \in [Clients -> Client] /\ w.route \in Route /\ w.facade.sequence \in Nat
      /\ w.route.transport = "desktop" /\ DesktopFits(w) /\ HasFields(w)
  BY DEF Good, Usable, IsWorld, Delivering
<1>4. PICK path : path = [u.route EXCEPT !.subscribed = FALSE]
  OBVIOUS
<1>5. /\ path \in Route /\ path.transport = "desktop" /\ ~path.subscribed /\ path.recovery = w.route.recovery
      /\ path.lastSequence = w.route.lastSequence /\ path.stop = w.route.stop /\ path.lastSequence \in Nat
  BY <1>2, <1>3, <1>4 DEF Route
<1>6. PICK v : v = [u EXCEPT !.route = path]
  OBVIOUS
<1>7. /\ Quiet(u, v) /\ v.route = path /\ v.clients = u.clients /\ v.toRenderer = u.toRenderer
      /\ v.toHost = u.toHost
  <2>1. IsWorld(u) /\ HasFields(u)
    BY <1>2 DEF Usable, IsWorld
  <2>. QED
    BY <1>6, <2>1, FieldsQuiet DEF HasFields
<1>8. /\ v.facade.paused = FALSE /\ v.facade.sequence = w.facade.sequence /\ v.facade.stops = w.facade.stops
  BY <1>2, <1>3, <1>7 DEF Quiet, IsFacade
<1>9. Usable(v) /\ ReadsFit(v) /\ Flows(v, loose)
  BY <1>2, <1>7 DEF Quiet, Usable, ReadsFit, Flows
<1>10. Answered(v, k.answering)
  BY <1>5, <1>7, <1>8 DEF Good, Answered
<1>11. Ordered(v.toRenderer, w.toHost, NoClient.queue.pending, path.lastSequence)
  <2>1. Ordered(w.toRenderer, w.toHost, w.clients[Desktop].queue.pending, path.lastSequence)
    BY <1>3, <1>5 DEF DesktopFits
  <2>2. Ordered(w.toRenderer, w.toHost, <<>>, path.lastSequence)
    BY <1>5, <2>1, OrderedNothing
  <2>. QED
    BY <1>2, <1>7, <2>2, NoClientFits
<1>12. /\ NoClient.write = "none" /\ ~NoClient.blocked /\ ~NoClient.paused /\ ~NoClient.open
       /\ NoClient.paused = FALSE /\ NoClient.open = FALSE
  BY DEF NoClient
<1>13. v.clients = [w.clients EXCEPT ![Desktop] = NoClient] /\ v.toHost = w.toHost
  BY <1>2, <1>7
<1>14. path.lastSequence <= v.facade.sequence /\ v.facade.sequence \in Nat
  BY <1>3, <1>5, <1>8 DEF DesktopFits
<1>14a. path.subscribed = FALSE
  BY <1>5 DEF Route
<1>15. Good(v, k, loose)
  <2>1. DesktopHolds(w, v, NoClient)
    BY <1>5, <1>7, <1>8, <1>11, <1>12, <1>13, <1>14, <1>14a, NoClientFits DEF DesktopHolds
  <2>. QED
    BY <1>9, <1>10, <2>1, DesktopGood
<1>16. ~v.clients[Desktop].open
  BY <1>3, <1>12, <1>13, DesktopIsClient
<1>17. Good(RecoveryStops(v), k, loose)
  BY <1>15, <1>16, RecoveryGood
<1>18. DeliveryFailed(w) = RecoveryStops(v)
  BY <1>1, <1>4, <1>6 DEF DeliveryFailed
<1>19. ASSUME NEW q PROVE DeliveryFailed([w EXCEPT !.clients[Desktop].queue = q]) = DeliveryFailed(w)
  <2>1. PICK x : x = [w EXCEPT !.clients[Desktop].queue = q]
    OBVIOUS
  <2>2. x.clients[Desktop].paused = w.clients[Desktop].paused
    BY <1>3, <2>1, DesktopIsClient DEF HasFields, Client
  <2>3. [x EXCEPT !.clients[Desktop] = NoClient] = [w EXCEPT !.clients[Desktop] = NoClient]
    <3>1. PICK some : some = [w.clients[Desktop] EXCEPT !.queue = q]
      OBVIOUS
    <3>2. x = [w EXCEPT !.clients = [w.clients EXCEPT ![Desktop] = some]]
      BY <2>1, <3>1
    <3>3. x.clients = [w.clients EXCEPT ![Desktop] = some]
      BY <1>3, <3>2 DEF HasFields
    <3>4. [x.clients EXCEPT ![Desktop] = NoClient] = [w.clients EXCEPT ![Desktop] = NoClient]
      BY <1>3, <3>3
    <3>. QED
      BY <1>3, <3>2, <3>4 DEF HasFields
  <2>4. DeliveryClosed(x, Desktop) = DeliveryClosed(w, Desktop)
    BY <2>2, <2>3 DEF DeliveryClosed
  <2>. QED
    BY <2>1, <2>4 DEF DeliveryFailed
<1>. QED
  BY <1>17, <1>18, <1>19

\* What the delivery of the desktop holds
LEMMA DesktopHas ==
    ASSUME NEW w, NEW k, NEW loose, Good(w, k, loose), k.transport = "desktop"
    PROVE  /\ IsWorld(w) /\ HasFields(w) /\ FacadeTyped(w.facade) /\ IsFacade(w.facade) /\ DesktopFits(w)
           /\ w.clients \in [Clients -> Client] /\ w.clients[Desktop] \in Client /\ ClientFits(w.clients[Desktop])
           /\ w.route \in Route /\ w.route.transport = "desktop" /\ w.route.lastSequence \in Nat
           /\ w.facade.sequence \in Nat
<1>1. Delivering(w, k)
  BY DEF Good
<1>2. DesktopFits(w) /\ w.clients \in [Clients -> Client] /\ w.route \in Route /\ w.route.transport = "desktop"
      /\ w.facade.sequence \in Nat
  BY <1>1 DEF Delivering
<1>3. w.clients[Desktop] \in Client /\ ClientFits(w.clients[Desktop])
  BY <1>1, <1>2, DesktopIsClient DEF Delivering
<1>4. w.route.lastSequence \in Nat
  BY <1>2 DEF Route
<1>. QED
  BY <1>2, <1>3, <1>4 DEF Good, Usable, IsWorld

\* Nothing presses where nothing waits.
LEMMA PressureNeeds ==
    ASSUME NEW q, QueueFits(q), q.pending = <<>>, q.inflight = <<>>
    PROVE  /\ ~(2 * (Len(q.pending) + Len(q.inflight)) >= MaxEvents)
           /\ ~(2 * q.bytes >= MaxBytes) /\ ~(2 * q.records >= MaxRecords)
           /\ 4 * (Len(q.pending) + Len(q.inflight)) <= MaxEvents
           /\ 4 * q.bytes <= MaxBytes /\ 4 * q.records <= MaxRecords
<1>1. MaxEvents \in Nat \ {0} /\ MaxBytes \in Nat \ {0} /\ MaxRecords \in Nat \ {0}
  BY QueueAssumption
<1>2. q.bytes = 0 /\ q.records = 0
  BY NothingPaid
<1>3. Len(q.pending) = 0 /\ Len(q.inflight) = 0
  OBVIOUS
<1>. QED
  BY <1>1, <1>2, <1>3

\* The thresholds of updatePressure
Low(q) ==
    /\ 4 * (Len(q.pending) + Len(q.inflight)) <= MaxEvents
    /\ 4 * q.bytes <= MaxBytes
    /\ 4 * q.records <= MaxRecords
High(q) ==
    \/ 2 * (Len(q.pending) + Len(q.inflight)) >= MaxEvents
    \/ 2 * q.bytes >= MaxBytes
    \/ 2 * q.records >= MaxRecords

UpdatesBy(u, client, next) ==
    /\ next = (IF client.paused THEN ~Low(client.queue) ELSE High(client.queue))
    /\ PressureUpdated(u) =
          IF next = client.paused THEN u
          ELSE PresentationPaused([u EXCEPT !.clients[Desktop].paused = next], next)

LEMMA PressureIs ==
    ASSUME NEW u, NEW client, client = u.clients[Desktop], client.paused \in BOOLEAN
    PROVE  \E next \in BOOLEAN : UpdatesBy(u, client, next)
<1>1. PICK low, high : low = Low(client.queue) /\ high = High(client.queue)
  OBVIOUS
<1>2. low \in BOOLEAN /\ high \in BOOLEAN
  BY <1>1 DEF Low, High
<1> DEFINE next == IF client.paused THEN ~low ELSE high
<1>3. next \in BOOLEAN
  BY <1>2
<1>4. PressureUpdated(u) =
         IF next = client.paused THEN u
         ELSE PresentationPaused([u EXCEPT !.clients[Desktop].paused = next], next)
  BY <1>1, Zenon DEF PressureUpdated, Low, High
<1>5. UpdatesBy(u, client, next)
  BY <1>1, <1>4 DEF UpdatesBy
<1>. QED
  BY <1>3, <1>5

PressedBy(w, v, q, client, next) ==
    /\ next => q.pending # <<>> \/ q.inflight # <<>>
    /\ v.facade = [w.facade EXCEPT !.paused = next]
    /\ v.clients = [w.clients EXCEPT ![Desktop] = [client EXCEPT !.paused = next]]

LEMMA PressureEffect ==
    ASSUME NEW w, NEW k, NEW loose, Good(w, k, loose), k.transport = "desktop", NEW q, QueueFits(q),
           NEW u, u = [w EXCEPT !.clients[Desktop].queue = q],
           NEW client, client = [w.clients[Desktop] EXCEPT !.queue = q]
    PROVE  LET v == PressureUpdated(u)
           IN  /\ Usable(v) /\ ReadsFit(v) /\ Flows(v, loose)
               /\ v.route = w.route /\ v.toRenderer = w.toRenderer /\ v.toHost = w.toHost
               /\ \E next \in BOOLEAN : PressedBy(w, v, q, client, next)
<1>1. /\ IsWorld(w) /\ HasFields(w) /\ FacadeTyped(w.facade) /\ IsFacade(w.facade) /\ DesktopFits(w)
      /\ w.clients \in [Clients -> Client] /\ w.clients[Desktop] \in Client
  BY DesktopHas
<1>2. PICK some : some = [w.clients EXCEPT ![Desktop] = client]
  OBVIOUS
<1>3. PICK s : s = [w EXCEPT !.clients = some]
  OBVIOUS
<1>3a. u = s
  BY <1>2, <1>3
<1>3b. /\ Quiet(w, s) /\ s.clients = some /\ s.route = w.route /\ s.toRenderer = w.toRenderer
       /\ s.toHost = w.toHost
  BY <1>1, <1>3, FieldsQuiet DEF HasFields
<1>4. /\ Quiet(w, u) /\ u.clients = some /\ u.route = w.route /\ u.toRenderer = w.toRenderer
      /\ u.toHost = w.toHost
  BY <1>3a, <1>3b
<1>5. Usable(u) /\ ReadsFit(u) /\ Flows(u, loose)
  BY <1>1, <1>4 DEF Quiet, Good, Usable, ReadsFit, Flows
<1>6. /\ some[Desktop] = client /\ client.queue = q /\ client.paused = w.clients[Desktop].paused
      /\ client.paused \in BOOLEAN /\ client = [client EXCEPT !.paused = client.paused]
  BY <1>1, <1>2, DesktopIsClient DEF Client
<1>6a. client = u.clients[Desktop]
  BY <1>4, <1>6
<1>6b. PICK next \in BOOLEAN : UpdatesBy(u, client, next)
  BY <1>6, <1>6a, PressureIs, ZenonT(140)
<1>7. /\ next = (IF client.paused THEN ~Low(q) ELSE High(q))
      /\ PressureUpdated(u) =
            IF next = client.paused THEN u
            ELSE PresentationPaused([u EXCEPT !.clients[Desktop].paused = next], next)
  BY <1>6, <1>6b DEF UpdatesBy
<1>10. next => q.pending # <<>> \/ q.inflight # <<>>
  <2>1. ASSUME q.pending = <<>>, q.inflight = <<>> PROVE Low(q) /\ ~High(q)
    BY <2>1, PressureNeeds DEF Low, High
  <2>. QED
    BY <1>7, <2>1
<1>11. PICK v : v = PressureUpdated(u)
  OBVIOUS
<1>12. v = IF next = client.paused THEN u
           ELSE PresentationPaused([u EXCEPT !.clients[Desktop].paused = next], next)
  BY <1>7, <1>11
<1>13. CASE next = client.paused
  <2>1. v = u
    BY <1>12, <1>13
  <2>2. u.facade = [w.facade EXCEPT !.paused = next]
    BY <1>1, <1>4, <1>6, <1>13 DEF Quiet, DesktopFits, IsFacade
  <2>3. u.clients = [w.clients EXCEPT ![Desktop] = [client EXCEPT !.paused = next]]
    BY <1>2, <1>4, <1>6, <1>13
  <2>. QED
    BY <1>4, <1>5, <1>7, <1>10, <1>11, <2>1, <2>2, <2>3 DEF PressedBy
<1>14. CASE next # client.paused
  <2>1. PICK more : more = [w.clients EXCEPT ![Desktop] = [client EXCEPT !.paused = next]]
    OBVIOUS
  <2>2. PICK x : x = [u EXCEPT !.clients[Desktop].paused = next]
    OBVIOUS
  <2>3. x = [u EXCEPT !.clients = more]
    <3>1. x = [u EXCEPT !.clients = [some EXCEPT ![Desktop] = [client EXCEPT !.paused = next]]]
      BY <1>4, <1>6, <2>2
    <3>2. [some EXCEPT ![Desktop] = [client EXCEPT !.paused = next]] = more
      BY <1>1, <1>2, <2>1
    <3>. QED
      BY <3>1, <3>2
  <2>4. IsWorld(u) /\ HasFields(u)
    BY <1>5 DEF Usable, IsWorld
  <2>5. /\ Quiet(u, x) /\ x.clients = more /\ x.route = u.route /\ x.toRenderer = u.toRenderer
        /\ x.toHost = u.toHost
    BY <2>3, <2>4, FieldsQuiet DEF HasFields
  <2>6. Usable(x) /\ ReadsFit(x)
    BY <1>5, <2>5 DEF Quiet, Usable, ReadsFit
  <2>7. v = PresentationPaused(x, next)
    BY <1>12, <1>14, <2>2
  <2>8. Usable(v) /\ ReadsFit(v) /\ Flows(v, 0) /\ Beside(x, v) /\ v.facade = [x.facade EXCEPT !.paused = next]
    BY <1>7, <2>6, <2>7, PausedEffect
  <2>9. Flows(v, loose)
    BY <2>8 DEF Flows
  <2>10. /\ v.route = w.route /\ v.toRenderer = w.toRenderer /\ v.toHost = w.toHost /\ v.clients = more
         /\ v.facade = [w.facade EXCEPT !.paused = next]
    BY <1>4, <2>5, <2>8 DEF Beside, Quiet
  <2>11. PressedBy(w, v, q, client, next)
    BY <1>10, <2>1, <2>10 DEF PressedBy
  <2>. QED
    BY <1>7, <1>11, <2>8, <2>9, <2>10, <2>11
<1>. QED
  BY <1>13, <1>14

LEMMA DeliveryChangedGood ==
    ASSUME NEW w, NEW k, NEW loose, Good(w, k, loose), k.transport = "desktop", w.clients[Desktop].open,
           NEW q, QueueFits(q), LimitFailure(q) = "none",
           Ordered(w.toRenderer, w.toHost, q.pending, w.route.lastSequence)
    PROVE  Good(DeliveryChanged([w EXCEPT !.clients[Desktop].queue = q]), k, loose)
<1>1. /\ IsWorld(w) /\ HasFields(w) /\ FacadeTyped(w.facade) /\ IsFacade(w.facade) /\ DesktopFits(w)
      /\ w.clients \in [Clients -> Client] /\ w.clients[Desktop] \in Client
      /\ w.route \in Route /\ w.route.transport = "desktop" /\ w.route.lastSequence \in Nat
      /\ w.facade.sequence \in Nat
  BY DesktopHas
<1>2. PICK u, client, v : /\ u = [w EXCEPT !.clients[Desktop].queue = q]
                          /\ client = [w.clients[Desktop] EXCEPT !.queue = q]
                          /\ v = PressureUpdated(u)
  OBVIOUS
<1>2a. PICK next \in BOOLEAN : PressedBy(w, v, q, client, next)
  BY <1>2, PressureEffect
<1>3. /\ next => q.pending # <<>> \/ q.inflight # <<>>
      /\ v.facade = [w.facade EXCEPT !.paused = next]
      /\ v.clients = [w.clients EXCEPT ![Desktop] = [client EXCEPT !.paused = next]]
  BY <1>2a DEF PressedBy
<1>4. /\ Usable(v) /\ ReadsFit(v) /\ Flows(v, loose)
      /\ v.route = w.route /\ v.toRenderer = w.toRenderer /\ v.toHost = w.toHost
  BY <1>2, PressureEffect
<1>5. PICK held : held = [client EXCEPT !.paused = next]
  OBVIOUS
<1>6. q \in Queue
  BY DEF QueueFits
<1>7. /\ held \in Client /\ held.queue = q /\ held.paused = next /\ held.open /\ held.write = "none"
      /\ ~held.blocked
  BY <1>1, <1>2, <1>5, <1>6 DEF DesktopFits, Client
<1>8. /\ v.facade.paused = next /\ v.facade.sequence = w.facade.sequence /\ v.facade.stops = w.facade.stops
      /\ v.clients[Desktop] = held /\ v.clients = [w.clients EXCEPT ![Desktop] = held]
  BY <1>1, <1>3, <1>5, DesktopIsClient DEF IsFacade
<1>9. /\ v.route.subscribed = held.open /\ ~(v.route.recovery \in {"pending", "failed"})
      /\ v.route.lastSequence <= v.facade.sequence
  BY <1>1, <1>4, <1>7, <1>8 DEF DesktopFits, Client
<1>10. PICK x : x = DeliveryFlushed(v)
  OBVIOUS
<1>11. Answered(v, k.answering)
  BY <1>4, <1>8 DEF Good, Answered
<1>12. CASE ~MayBegin(q)
  <2>1. x = v
    BY <1>7, <1>8, <1>10, <1>12 DEF DeliveryFlushed
  <2>2. ClientFits(held)
    BY <1>7, <1>12 DEF ClientFits, Sends, MayBegin
  <2>3. held.paused => held.queue.inflight # <<>>
    BY <1>3, <1>7, <1>12 DEF MayBegin
  <2>4. DesktopHolds(w, v, held)
    BY <1>1, <1>4, <1>7, <1>8, <1>9, <2>2, <2>3 DEF DesktopHolds
  <2>5. Good(v, k, loose)
    BY <1>4, <1>11, <2>4, DesktopGood
  <2>. QED
    BY <1>2, <1>10, <2>1, <2>5 DEF DeliveryChanged
<1>13. CASE MayBegin(q)
  <2>1. PICK p : p = Begun(q)
    OBVIOUS
  <2>2. /\ QueueFits(p) /\ LimitFailure(p) = "none" /\ p.inflight = <<q.pending[1]>>
        /\ p.pending = Tail(q.pending)
    BY <1>13, <2>1, BegunFits
  <2>3. PICK event : event = q.pending[1].event
    OBVIOUS
  <2>4. Lease(p, FALSE) = event
    BY <2>2, <2>3 DEF Lease
  <2>5. PICK sent : sent = [held EXCEPT !.queue = p]
    OBVIOUS
  <2>6. PICK more : more = [v.clients EXCEPT ![Desktop] = sent]
    OBVIOUS
  <2>7. x = [v EXCEPT !.clients = more, !.toRenderer = Append(v.toRenderer, event)]
    BY <1>7, <1>8, <1>10, <1>13, <2>1, <2>4, <2>5, <2>6 DEF DeliveryFlushed
  <2>8. PICK y : y = [v EXCEPT !.clients = more]
    OBVIOUS
  <2>9. /\ IsWorld(x) /\ x.reads = v.reads /\ x.facade = v.facade /\ x.clients = more /\ x.route = v.route
        /\ x.toHost = v.toHost /\ x.toRenderer = Append(v.toRenderer, event)
    <3>1. IsWorld(v) /\ HasFields(v)
      BY <1>4 DEF Usable, IsWorld
    <3>2. Quiet(v, y) /\ HasFields(y)
      BY <2>8, <3>1, FieldsQuiet DEF HasFields
    <3>3. x = [y EXCEPT !.toRenderer = Append(v.toRenderer, event)]
      BY <2>7, <2>8, <3>1 DEF HasFields
    <3>4. Quiet(y, x)
      BY <3>2, <3>3, FieldsQuiet, ZenonT(70) DEF Quiet
    <3>5. x.clients = y.clients /\ x.route = y.route /\ x.toHost = y.toHost
          /\ x.toRenderer = Append(v.toRenderer, event)
      BY <3>2, <3>3 DEF HasFields
    <3>6. y.clients = more /\ y.route = v.route /\ y.toHost = v.toHost
      BY <2>8, <3>1 DEF HasFields
    <3>. QED
      BY <3>2, <3>4, <3>5, <3>6 DEF Quiet
  <2>10. Usable(x) /\ ReadsFit(x) /\ Flows(x, loose) /\ Answered(x, k.answering)
    BY <1>4, <1>11, <2>9 DEF Usable, ReadsFit, Flows, Answered
  <2>11. p \in Queue
    BY <2>2 DEF QueueFits
  <2>12. /\ sent \in Client /\ sent.queue = p /\ sent.paused = next /\ sent.open = held.open /\ sent.write = "none"
         /\ ~sent.blocked
    BY <1>7, <2>5, <2>11 DEF Client
  <2>13. p.inflight # <<>>
    BY <2>2
  <2>14. ClientFits(sent)
    BY <1>7, <2>2, <2>12, <2>13 DEF ClientFits, Sends
  <2>15. more = [w.clients EXCEPT ![Desktop] = sent]
    BY <1>1, <1>8, <2>6
  <2>16. Ordered(x.toRenderer, w.toHost, p.pending, w.route.lastSequence)
    <3>1. q.pending \in Seq(Entry) /\ q.pending # <<>>
      BY <1>6, <1>13 DEF Queue, MayBegin
    <3>. QED
      BY <1>1, <1>4, <2>2, <2>3, <2>9, <3>1, OrderedBegun
  <2>16a. /\ x.clients = [w.clients EXCEPT ![Desktop] = sent] /\ x.facade.paused = sent.paused
          /\ x.toHost = w.toHost /\ x.route = w.route /\ x.route.subscribed = sent.open
          /\ ~(x.route.recovery \in {"pending", "failed"}) /\ x.facade.sequence \in Nat
          /\ x.route.lastSequence <= x.facade.sequence /\ (sent.paused => sent.queue.inflight # <<>>)
          /\ Ordered(x.toRenderer, w.toHost, sent.queue.pending, x.route.lastSequence)
    BY <1>1, <1>4, <1>8, <1>9, <2>9, <2>12, <2>13, <2>15, <2>16
  <2>16b. x.route \in Route /\ x.route.transport = "desktop" /\ sent.write = "none" /\ ~sent.blocked
    BY <1>1, <2>12, <2>16a
  <2>17. DesktopHolds(w, x, sent)
    BY <2>14, <2>16a, <2>16b DEF DesktopHolds
  <2>18. Good(x, k, loose)
    BY <2>10, <2>17, DesktopGood
  <2>. QED
    BY <1>2, <1>10, <2>18 DEF DeliveryChanged
<1>. QED
  BY <1>12, <1>13

\* The route of the desktop takes a number.
LEMMA NumberGood ==
    ASSUME NEW w, NEW k, NEW loose, Good(w, k, loose), k.transport = "desktop",
           NEW seq \in Nat, w.route.lastSequence <= seq, seq <= w.facade.sequence
    PROVE  LET v == [w EXCEPT !.route.lastSequence = seq]
           IN  /\ Good(v, k, loose) /\ v.route.lastSequence = seq /\ v.clients = w.clients
               /\ v.toRenderer = w.toRenderer /\ v.toHost = w.toHost
<1>1. /\ IsWorld(w) /\ HasFields(w) /\ FacadeTyped(w.facade) /\ IsFacade(w.facade) /\ DesktopFits(w)
      /\ w.clients \in [Clients -> Client] /\ w.clients[Desktop] \in Client /\ ClientFits(w.clients[Desktop])
      /\ w.route \in Route /\ w.route.transport = "desktop" /\ w.route.lastSequence \in Nat
      /\ w.facade.sequence \in Nat
  BY DesktopHas
<1>2. PICK path, v : path = [w.route EXCEPT !.lastSequence = seq] /\ v = [w EXCEPT !.route = path]
  OBVIOUS
<1>3. /\ path \in Route /\ path.transport = "desktop" /\ path.subscribed = w.route.subscribed
      /\ path.recovery = w.route.recovery /\ path.stop = w.route.stop /\ path.lastSequence = seq
  BY <1>1, <1>2 DEF Route
<1>4. /\ Quiet(w, v) /\ v.route = path /\ v.clients = w.clients /\ v.toRenderer = w.toRenderer
      /\ v.toHost = w.toHost
  BY <1>1, <1>2, FieldsQuiet DEF HasFields
<1>5. Usable(v) /\ ReadsFit(v) /\ Flows(v, loose) /\ Answered(v, k.answering)
  BY <1>1, <1>3, <1>4 DEF Quiet, Good, Usable, ReadsFit, Flows, Answered
<1>6. PICK client : client = w.clients[Desktop]
  OBVIOUS
<1>7. v.clients = [w.clients EXCEPT ![Desktop] = client]
  BY <1>1, <1>4, <1>6
<1>8. Ordered(v.toRenderer, w.toHost, client.queue.pending, seq)
  <2>1. Ordered(w.toRenderer, w.toHost, client.queue.pending, w.route.lastSequence)
    BY <1>1, <1>6 DEF DesktopFits
  <2>. QED
    BY <1>1, <1>4, <2>1, OrderedNext
<1>9. DesktopHolds(w, v, client)
  BY <1>1, <1>3, <1>4, <1>6, <1>7, <1>8 DEF DesktopHolds, DesktopFits, Quiet
<1>10. Good(v, k, loose)
  BY <1>5, <1>9, DesktopGood
<1>11. v = [w EXCEPT !.route.lastSequence = seq]
  BY <1>2
<1>. QED
  BY <1>3, <1>4, <1>10, <1>11

LEMMA DeliveredGood ==
    ASSUME NEW w, NEW k, NEW loose, Good(w, k, loose), k.transport = "desktop", w.route.subscribed,
           NEW event \in Event, w.route.lastSequence < event.seq, event.seq <= w.facade.sequence
    PROVE  Good(Delivered([w EXCEPT !.route.lastSequence = event.seq], event), k, loose)
<1>1. /\ DesktopFits(w) /\ w.clients \in [Clients -> Client] /\ w.clients[Desktop] \in Client
      /\ ClientFits(w.clients[Desktop]) /\ w.route.lastSequence \in Nat /\ w.facade.sequence \in Nat
  BY DesktopHas
<1>2. PICK seq \in Nat : seq = event.seq
  BY DEF Event
<1>3. PICK v : v = [w EXCEPT !.route.lastSequence = seq]
  OBVIOUS
<1>4. /\ Good(v, k, loose) /\ v.route.lastSequence = seq /\ v.clients = w.clients
      /\ v.toRenderer = w.toRenderer /\ v.toHost = w.toHost
  BY <1>1, <1>2, <1>3, NumberGood
<1>5. PICK q, p : q = w.clients[Desktop].queue /\ p = Enqueued(q, FALSE, event)
  OBVIOUS
<1>6. QueueFits(q) /\ Ordered(w.toRenderer, w.toHost, q.pending, w.route.lastSequence)
  BY <1>1, <1>5 DEF ClientFits, DesktopFits
<1>7. QueueFits(p) /\ p.failure = LimitFailure(p)
  BY <1>5, <1>6, EnqueuedFits
<1>8. Rising(p.pending) /\ Among(q.pending, p.pending, seq)
  <2>1. Rising(q.pending) /\ \A i \in 1 .. Len(q.pending) : q.pending[i].event.seq \in 1 .. w.route.lastSequence
    BY <1>6 DEF Ordered
  <2>2. \A i \in 1 .. Len(q.pending) : q.pending[i].event.seq < event.seq
    <3>1. \A n \in 1 .. w.route.lastSequence : n < seq
      BY <1>1, <1>2
    <3>. QED
      BY <1>2, <2>1, <3>1
  <2>. QED
    BY <1>2, <1>5, <1>6, <2>1, <2>2, EnqueuedRises
<1>9. Ordered(v.toRenderer, v.toHost, p.pending, v.route.lastSequence)
  <2>1. w.route.lastSequence < seq
    BY <1>2
  <2>. QED
    BY <1>1, <1>4, <1>6, <1>8, <2>1, OrderedAmong
<1>10. v.clients[Desktop].open
  BY <1>1, <1>4 DEF DesktopFits, Client
<1>11. PICK u : u = [v EXCEPT !.clients[Desktop].queue = p]
  OBVIOUS
<1>12. u.clients[Desktop].queue = p
  BY <1>1, <1>4, <1>11, DesktopIsClient DEF Client, Good, Usable, IsWorld, HasFields
<1>13. Delivered(v, event) = IF p.failure # "none" THEN DeliveryFailed(u) ELSE DeliveryChanged(u)
  <2>1. [v EXCEPT !.clients[Desktop].queue = Enqueued(@, FALSE, event)] = u
    BY <1>4, <1>5, <1>11
  <2>. QED
    BY <1>12, <2>1 DEF Delivered, DeliveryUsed
<1>14. Good(DeliveryFailed(u), k, loose)
  BY <1>4, <1>11, FailedGood
<1>15. p.failure = "none" => Good(DeliveryChanged(u), k, loose)
  BY <1>4, <1>7, <1>9, <1>10, <1>11, DeliveryChangedGood
<1>. QED
  BY <1>2, <1>3, <1>13, <1>14, <1>15

LEMMA AcknowledgedGood ==
    ASSUME NEW w, NEW k, NEW loose, Good(w, k, loose), k.transport = "desktop", NEW sequence
    PROVE  Good(Acknowledged(w, sequence), k, loose)
<1>1. /\ DesktopFits(w) /\ w.clients \in [Clients -> Client] /\ w.clients[Desktop] \in Client
      /\ ClientFits(w.clients[Desktop])
  BY DesktopHas
<1>2. PICK q, p : q = w.clients[Desktop].queue /\ p = Completed(q)
  OBVIOUS
<1>3. CASE q.inflight = <<>> \/ q.inflight[1].event.seq # sequence
  BY <1>2, <1>3 DEF Acknowledged
<1>4. CASE ~(q.inflight = <<>> \/ q.inflight[1].event.seq # sequence)
  <2>1. QueueFits(p) /\ LimitFailure(p) = "none" /\ p.pending = q.pending
    BY <1>1, <1>2, CompletedFits DEF ClientFits
  <2>2. w.clients[Desktop].open
    BY <1>1, <1>2, <1>4, NoClientFits DEF ClientFits
  <2>3. Ordered(w.toRenderer, w.toHost, p.pending, w.route.lastSequence)
    BY <1>1, <1>2, <2>1 DEF DesktopFits
  <2>4. Acknowledged(w, sequence) = DeliveryChanged([w EXCEPT !.clients[Desktop].queue = p])
    BY <1>2, <1>4 DEF Acknowledged
  <2>. QED
    BY <2>1, <2>2, <2>3, <2>4, DeliveryChangedGood
<1>. QED
  BY <1>3, <1>4

\* What is under way on the desktop is other.
LEMMA UnderWayGood ==
    ASSUME NEW w, NEW k, NEW loose, Good(w, k, loose), k.transport = "desktop",
           NEW host, host.transport = "desktop", host.answering = k.answering,
           Ordered(w.toRenderer, host.toHost, w.clients[Desktop].queue.pending, w.route.lastSequence)
    PROVE  Good([w EXCEPT !.toHost = host.toHost], host, loose)
<1>1. /\ IsWorld(w) /\ HasFields(w) /\ DesktopFits(w) /\ Delivering(w, k)
  BY DesktopHas DEF Good
<1>2. PICK v : v = [w EXCEPT !.toHost = host.toHost]
  OBVIOUS
<1>3. /\ Quiet(w, v) /\ v.route = w.route /\ v.clients = w.clients /\ v.toRenderer = w.toRenderer
      /\ v.toHost = host.toHost
  BY <1>1, <1>2, FieldsQuiet DEF HasFields
<1>4. Usable(v) /\ ReadsFit(v) /\ Flows(v, loose) /\ Answered(v, host.answering)
  BY <1>1, <1>3 DEF Quiet, Good, Usable, ReadsFit, Flows, Answered
<1>5. DesktopFits(v)
  BY <1>1, <1>3 DEF DesktopFits, Quiet
<1>6. Delivering(v, host)
  BY <1>1, <1>3, <1>5 DEF Delivering, Quiet
<1>. QED
  BY <1>2, <1>4, <1>6 DEF Good

LEMMA SentGood ==
    ASSUME NEW w, NEW k, NEW loose, Good(w, k, loose), k.transport = "desktop", NEW x,
           Ordered(x, w.toHost, w.clients[Desktop].queue.pending, w.route.lastSequence)
    PROVE  Good([w EXCEPT !.toRenderer = x], k, loose)
<1>1. /\ IsWorld(w) /\ HasFields(w) /\ DesktopFits(w) /\ Delivering(w, k)
  BY DesktopHas DEF Good
<1>2. PICK v : v = [w EXCEPT !.toRenderer = x]
  OBVIOUS
<1>3. /\ Quiet(w, v) /\ v.route = w.route /\ v.clients = w.clients /\ v.toRenderer = x
      /\ v.toHost = w.toHost
  BY <1>1, <1>2, FieldsQuiet DEF HasFields
<1>4. Usable(v) /\ ReadsFit(v) /\ Flows(v, loose) /\ Answered(v, k.answering)
  BY <1>1, <1>3 DEF Quiet, Good, Usable, ReadsFit, Flows, Answered
<1>5. DesktopFits(v)
  BY <1>1, <1>3 DEF DesktopFits, Quiet
<1>6. Delivering(v, k)
  BY <1>1, <1>3, <1>5 DEF Delivering, Quiet
<1>. QED
  BY <1>2, <1>4, <1>6 DEF Good

---------------------------------------------------------------------------
(* The event streams of the web host.                                      *)

LEMMA WebHas ==
    ASSUME NEW w, NEW k, NEW loose, Good(w, k, loose), k.transport = "web"
    PROVE  /\ IsWorld(w) /\ HasFields(w) /\ WebFits(w) /\ Delivering(w, k)
           /\ w.clients \in [Clients -> Client] /\ \A c \in Clients : ClientFits(w.clients[c])
  BY DEF Good, Usable, IsWorld, Delivering

LEMMA ClientGood ==
    ASSUME NEW w, NEW k, NEW loose, Good(w, k, loose), k.transport = "web", NEW c \in Clients,
           NEW client, ClientFits(client), ~client.paused
    PROVE  Good([w EXCEPT !.clients[c] = client], k, loose)
<1>1. /\ IsWorld(w) /\ HasFields(w) /\ WebFits(w) /\ Delivering(w, k)
      /\ w.clients \in [Clients -> Client] /\ \A d \in Clients : ClientFits(w.clients[d])
  BY WebHas
<1>2. PICK some, v : some = [w.clients EXCEPT ![c] = client] /\ v = [w EXCEPT !.clients = some]
  OBVIOUS
<1>3. client \in Client
  BY DEF ClientFits
<1>4. /\ some \in [Clients -> Client] /\ some[c] = client
      /\ \A d \in Clients : d # c => some[d] = w.clients[d]
  BY <1>1, <1>2, <1>3
<1>5. /\ Quiet(w, v) /\ v.route = w.route /\ v.clients = some /\ v.toRenderer = w.toRenderer
      /\ v.toHost = w.toHost
  BY <1>1, <1>2, FieldsQuiet DEF HasFields
<1>6. Usable(v) /\ ReadsFit(v) /\ Flows(v, loose) /\ Answered(v, k.answering)
  BY <1>1, <1>5 DEF Quiet, Good, Usable, ReadsFit, Flows, Answered
<1>7. WebFits(v)
  BY <1>1, <1>4, <1>5 DEF WebFits, Quiet
<1>8. Delivering(v, k)
  BY <1>1, <1>4, <1>5, <1>7 DEF Delivering, Quiet
<1>9. Good(v, k, loose)
  BY <1>6, <1>8 DEF Good
<1>10. v = [w EXCEPT !.clients[c] = client]
  BY <1>2
<1>. QED
  BY <1>9, <1>10

\* An event stream is closed, whatever its queue has become.
LEMMA StreamClosedGood ==
    ASSUME NEW w, NEW k, NEW loose, Good(w, k, loose), k.transport = "web", NEW c \in Clients
    PROVE  /\ Good(StreamClosed(w, c), k, loose)
           /\ \A q : w.clients[c].open => Good(StreamClosed([w EXCEPT !.clients[c].queue = q], c), k, loose)
<1>1. HasFields(w) /\ w.clients \in [Clients -> Client]
  BY WebHas
<1>2. PICK u, closed : /\ u = [w EXCEPT !.clients[c] = NoClient]
                       /\ closed = [u EXCEPT !.shown = [w.shown EXCEPT ![c] = NothingShown]]
  OBVIOUS
<1>3. Good(u, k, loose)
  BY <1>2, NoClientFits, ClientGood DEF NoClient
<1>4. Good(closed, k, loose)
  BY <1>2, <1>3, FieldsGood
<1>5. Good(RecoveryStops(closed), k, loose)
  BY <1>4, RecoveryGood
<1>6. closed = [w EXCEPT !.clients[c] = NoClient, !.shown[c] = NothingShown]
  BY <1>1, <1>2 DEF HasFields
<1>7. StreamClosed(w, c) \in {w, closed, RecoveryStops(closed)}
  BY <1>6 DEF StreamClosed
<1>8. Good(StreamClosed(w, c), k, loose)
  BY <1>4, <1>5, <1>7
<1>9. ASSUME NEW q, w.clients[c].open
      PROVE  Good(StreamClosed([w EXCEPT !.clients[c].queue = q], c), k, loose)
  <2>1. PICK x, some : x = [w EXCEPT !.clients[c].queue = q] /\ some = [w.clients[c] EXCEPT !.queue = q]
    OBVIOUS
  <2>2. x = [w EXCEPT !.clients = [w.clients EXCEPT ![c] = some]]
    BY <2>1
  <2>3. /\ x.clients = [w.clients EXCEPT ![c] = some] /\ x.clients[c] = some /\ x.shown = w.shown
        /\ x.route = w.route
    BY <1>1, <2>2 DEF HasFields
  <2>4. some.open
    BY <1>1, <1>9, <2>1 DEF Client
  <2>5. [x EXCEPT !.clients[c] = NoClient, !.shown[c] = NothingShown] = closed
    <3>1. [x.clients EXCEPT ![c] = NoClient] = [w.clients EXCEPT ![c] = NoClient]
      BY <1>1, <2>3
    <3>. QED
      BY <1>1, <1>6, <2>2, <2>3, <3>1 DEF HasFields
  <2>6. StreamClosed(x, c) \in {closed, RecoveryStops(closed)}
    BY <2>3, <2>4, <2>5 DEF StreamClosed
  <2>. QED
    BY <1>4, <1>5, <2>1, <2>6
<1>. QED
  BY <1>8, <1>9

\* A pump sends what may be sent.
LEMMA PumpedGood ==
    ASSUME NEW w, NEW k, NEW loose, Good(w, k, loose), k.transport = "web", NEW c \in Clients,
           NEW client \in Client, client.open, ~client.paused,
           QueueFits(client.queue), LimitFailure(client.queue) = "none"
    PROVE  Good(Pumped([w EXCEPT !.clients[c] = client], c), k, loose)
<1>1. IsWorld(w) /\ HasFields(w) /\ w.clients \in [Clients -> Client]
  BY WebHas
<1>2. PICK u, q : u = [w EXCEPT !.clients[c] = client] /\ q = client.queue
  OBVIOUS
<1>3. u.clients[c] = client
  BY <1>1, <1>2 DEF HasFields
<1>4. CASE client.blocked \/ client.write # "none" \/ ~MayBegin(q)
  <2>1. Pumped(u, c) = u
    BY <1>2, <1>3, <1>4 DEF Pumped
  <2>2. ClientFits(client)
    BY <1>2, <1>4 DEF ClientFits, Sends, MayBegin
  <2>. QED
    BY <1>2, <2>1, <2>2, ClientGood
<1>5. CASE ~(client.blocked \/ client.write # "none" \/ ~MayBegin(q))
  <2>1. PICK p : p = Begun(q)
    OBVIOUS
  <2>2. QueueFits(p) /\ LimitFailure(p) = "none" /\ p.inflight = <<q.pending[1]>> /\ p \in Queue
    BY <1>2, <1>5, <2>1, BegunFits DEF QueueFits
  <2>3. PICK sent : sent = [client EXCEPT !.queue = p, !.write = "event",
                                          !.blocked = client.blocked \/ client.full]
    OBVIOUS
  <2>4. sent \in Client /\ sent.open /\ ~sent.paused /\ sent.queue = p /\ sent.write = "event"
    BY <2>2, <2>3 DEF Client, Writes
  <2>5. ClientFits(sent)
    BY <2>2, <2>4 DEF ClientFits, Sends
  <2>6. PICK x, s : x = [w EXCEPT !.clients[c] = sent]
                    /\ s = [u.shown EXCEPT ![c] = Shown(@, Lease(Begun(q), TRUE))]
    OBVIOUS
  <2>7. Good(x, k, loose)
    BY <2>4, <2>5, <2>6, ClientGood
  <2>8. Pumped(u, c) = [x EXCEPT !.shown = s]
    <3>1. PICK y : y = [u EXCEPT !.clients[c].queue = Begun(@), !.shown[c] = Shown(@, Lease(Begun(q), TRUE))]
      OBVIOUS
    <3>2. Pumped(u, c) = Written(y, c, "event")
      BY <1>2, <1>3, <1>5, <3>1 DEF Pumped
    <3>3. PICK begun : begun = [client EXCEPT !.queue = p]
      OBVIOUS
    <3>4. y = [u EXCEPT !.clients = [w.clients EXCEPT ![c] = begun], !.shown = s]
      BY <1>1, <1>2, <1>3, <2>1, <2>6, <3>1, <3>3 DEF HasFields
    <3>5. HasFields(u) /\ u.clients = [w.clients EXCEPT ![c] = client]
      BY <1>1, <1>2 DEF HasFields
    <3>6. HasFields(y) /\ y.clients = [w.clients EXCEPT ![c] = begun] /\ y.clients[c] = begun /\ y.shown = s
      BY <1>1, <3>4, <3>5 DEF HasFields
    <3>7. sent = [begun EXCEPT !.write = "event", !.blocked = begun.blocked \/ begun.full]
      BY <2>3, <3>3 DEF Client
    <3>8. Written(y, c, "event") = [y EXCEPT !.clients = [w.clients EXCEPT ![c] = sent]]
      <4>1. Written(y, c, "event") = [y EXCEPT !.clients = [y.clients EXCEPT ![c] =
                 [y.clients[c] EXCEPT !.write = "event", !.blocked = y.clients[c].blocked \/ y.clients[c].full]]]
        BY DEF Written
      <4>2. [y.clients EXCEPT ![c] = sent] = [w.clients EXCEPT ![c] = sent]
        BY <1>1, <3>6
      <4>. QED
        BY <3>6, <3>7, <4>1, <4>2
    <3>9. PICK old, more, new : /\ old = [w.clients EXCEPT ![c] = client]
                                /\ more = [w.clients EXCEPT ![c] = begun]
                                /\ new = [w.clients EXCEPT ![c] = sent]
      OBVIOUS
    <3>10. u = [w EXCEPT !.clients = old] /\ x = [w EXCEPT !.clients = new]
      BY <1>2, <2>6, <3>9
    <3>11. y = [u EXCEPT !.clients = more, !.shown = s] /\ Pumped(u, c) = [y EXCEPT !.clients = new]
      BY <3>2, <3>4, <3>8, <3>9
    <3>. QED
      BY <1>1, <3>10, <3>11 DEF HasFields
  <2>9. Good([x EXCEPT !.shown = s], k, loose)
    BY <2>7, FieldsGood
  <2>. QED
    BY <1>2, <2>8, <2>9
<1>. QED
  BY <1>4, <1>5

LEMMA StreamedGood ==
    ASSUME NEW w, NEW k, NEW loose, Good(w, k, loose), k.transport = "web", NEW c \in Clients, NEW event \in Event
    PROVE  Good(Streamed(w, c, event), k, loose)
<1>1. /\ HasFields(w) /\ WebFits(w) /\ w.clients \in [Clients -> Client] /\ ClientFits(w.clients[c])
  BY WebHas
<1>2. CASE ~w.clients[c].open
  BY <1>2 DEF Streamed
<1>3. CASE w.clients[c].open
  <2>1. PICK q, p : q = w.clients[c].queue /\ p = Enqueued(q, TRUE, event)
    OBVIOUS
  <2>2. QueueFits(p) /\ p.failure = LimitFailure(p) /\ p \in Queue
    <3>1. QueueFits(q)
      BY <1>1, <2>1 DEF ClientFits
    <3>2. QueueFits(p) /\ p.failure = LimitFailure(p)
      BY <2>1, <3>1, EnqueuedFits
    <3>. QED
      BY <3>2 DEF QueueFits
  <2>3. PICK u, client : u = [w EXCEPT !.clients[c].queue = p] /\ client = [w.clients[c] EXCEPT !.queue = p]
    OBVIOUS
  <2>4. client \in Client /\ client.open /\ ~client.paused /\ client.queue = p
    BY <1>1, <1>3, <2>2, <2>3 DEF Client, WebFits
  <2>5. u = [w EXCEPT !.clients[c] = client]
    BY <2>3
  <2>6. u.clients[c] = client
    BY <1>1, <2>5 DEF HasFields
  <2>7. Streamed(w, c, event) = IF p.failure # "none" THEN StreamClosed(u, c) ELSE Pumped(u, c)
    <3>1. [w EXCEPT !.clients[c].queue = Enqueued(@, TRUE, event)] = u
      BY <2>1, <2>3
    <3>. QED
      BY <1>3, <2>4, <2>6, <3>1 DEF Streamed, StreamUsed
  <2>8. Good(StreamClosed(u, c), k, loose)
    BY <1>3, <2>3, StreamClosedGood
  <2>9. p.failure = "none" => Good(Pumped(u, c), k, loose)
    BY <2>2, <2>4, <2>5, PumpedGood
  <2>. QED
    BY <2>7, <2>8, <2>9
<1>. QED
  BY <1>2, <1>3

---------------------------------------------------------------------------
(* Publishing.                                                             *)

LEMMA TransportIs ==
    ASSUME NEW w, NEW k, NEW loose, Good(w, k, loose)
    PROVE  w.route.transport = k.transport /\ k.transport \in {"desktop", "web"}
  BY DEF Good, Delivering, Route

\* The facade numbers an event.
LEMMA SequenceGood ==
    ASSUME NEW w, NEW k, NEW loose, Good(w, k, loose), NEW told, told = [w EXCEPT !.facade.sequence = @ + 1]
    PROVE  /\ Good(told, k, loose) /\ told.route = w.route /\ w.facade.sequence \in Nat
           /\ told.facade.sequence = w.facade.sequence + 1
<1>1. /\ IsWorld(w) /\ HasFields(w) /\ IsFacade(w.facade) /\ FacadeTyped(w.facade) /\ Delivering(w, k)
  BY DEF Good, Usable, IsWorld
<1>2. PICK n \in Nat : n = w.facade.sequence + 1
  BY <1>1 DEF Delivering
<1>3. PICK f, v : f = [w.facade EXCEPT !.sequence = n] /\ v = [w EXCEPT !.facade = f]
  OBVIOUS
<1>4. /\ IsFacade(f) /\ f.active = w.facade.active /\ f.paused = w.facade.paused /\ f.sequence = n
      /\ f.stops = w.facade.stops /\ f.stopping = w.facade.stopping
      /\ f.continuation = w.facade.continuation /\ f.intent = w.facade.intent
  BY <1>1, <1>3 DEF IsFacade
<1>5. FacadeTyped(f)
  BY <1>1, <1>4 DEF FacadeTyped
<1>6. IsWorld(v) /\ v.facade = f /\ v.reads = w.reads
  BY <1>1, <1>3, <1>4, FacadeChanges
<1>7. /\ v.route = w.route /\ v.clients = w.clients /\ v.toRenderer = w.toRenderer /\ v.toHost = w.toHost
  BY <1>1, <1>3 DEF HasFields
<1>8. Usable(v) /\ ReadsFit(v) /\ Flows(v, loose) /\ Answered(v, k.answering)
  BY <1>4, <1>5, <1>6, <1>7 DEF Good, Usable, ReadsFit, Flows, Answered
<1>9. k.transport = "desktop" => DesktopFits(v)
  <2>1. SUFFICES ASSUME k.transport = "desktop" PROVE DesktopFits(v)
    OBVIOUS
  <2>2. DesktopFits(w) /\ w.route.lastSequence \in Nat /\ w.facade.sequence \in Nat
    BY <2>1, DesktopHas
  <2>3. w.route.lastSequence <= n
    BY <1>2, <2>2 DEF DesktopFits
  <2>. QED
    BY <1>4, <1>6, <1>7, <2>2, <2>3 DEF DesktopFits
<1>10. k.transport = "web" => WebFits(v)
  BY <1>1, <1>4, <1>6, <1>7 DEF Delivering, WebFits
<1>11. Delivering(v, k)
  BY <1>1, <1>4, <1>6, <1>7, <1>9, <1>10 DEF Delivering
<1>12. Good(v, k, loose)
  BY <1>8, <1>11 DEF Good
<1>13. v = [w EXCEPT !.facade.sequence = @ + 1]
  BY <1>2, <1>3
<1>14. v.route = w.route /\ w.facade.sequence \in Nat /\ v.facade.sequence = w.facade.sequence + 1
  BY <1>1, <1>2, <1>4, <1>6, <1>7 DEF Delivering
<1>. QED
  BY <1>12, <1>13, <1>14

LEMMA TellingsGood ==
    ASSUME NEW told, NEW k, NEW loose, Good(told, k, loose), k.transport = "web", NEW event \in Event,
           NEW m \in Nat, m <= MaxClients, NEW f, AreTellings(f, told, event, m)
    PROVE  Good(f[m], k, loose)
<1> DEFINE S == {n \in Nat : n <= m => Good(f[n], k, loose)}
<1>1. 0 \in S
  <2>1. f[0] = told
    BY DEF AreTellings
  <2>. QED
    BY <2>1
<1>2. ASSUME NEW n \in Nat, n \in S PROVE n + 1 \in S
  <2>1. SUFFICES ASSUME n + 1 <= m PROVE Good(f[n + 1], k, loose)
    OBVIOUS
  <2>2. PICK u, v, c : u = f[n] /\ v = f[n + 1] /\ c = n + 1
    OBVIOUS
  <2>3. v = Streamed(u, c, event)
    BY <2>1, <2>2 DEF AreTellings
  <2>4. Good(u, k, loose) /\ c \in Clients
    BY <1>2, <2>1, <2>2, ClientsAssumption DEF Clients
  <2>5. Good(v, k, loose)
    BY <2>3, <2>4, StreamedGood
  <2>. QED
    BY <2>2, <2>5
<1>3. m \in S
  <2>. HIDE DEF S
  <2>. QED
    BY <1>1, <1>2, SetInduction
<1>. QED
  BY <1>3

LEMMA PublishGood ==
    ASSUME NEW w, NEW k, NEW loose, Good(w, k, loose), NEW event \in Event
    PROVE  Good(Publish(w, event), k, loose)
<1>1. PICK told : told = [w EXCEPT !.facade.sequence = @ + 1]
  OBVIOUS
<1>2. PICK numbered : numbered = [event EXCEPT !.seq = w.facade.sequence + 1]
  OBVIOUS
<1>3. /\ Good(told, k, loose) /\ told.route = w.route /\ w.facade.sequence \in Nat
      /\ told.facade.sequence = w.facade.sequence + 1
  BY <1>1, SequenceGood
<1>4. numbered \in Event /\ numbered.seq = w.facade.sequence + 1
  BY <1>2, <1>3, SMTT(50) DEF Event
<1> DEFINE After == CHOOSE f : AreTellings(f, told, numbered, MaxClients)
<1>5. k.transport = "web" => Good(After[MaxClients], k, loose)
  <2>1. AreTellings(After, told, numbered, MaxClients)
    BY TellingsExist, ClientsAssumption
  <2>. HIDE DEF After
  <2>. QED
    BY <1>3, <1>4, <2>1, ClientsAssumption, TellingsGood
<1>6. PICK seen : seen = [told EXCEPT !.route.lastSequence = numbered.seq]
  OBVIOUS
<1>7. k.transport = "desktop" /\ w.route.subscribed => Good(Delivered(seen, numbered), k, loose)
  <2>1. SUFFICES ASSUME k.transport = "desktop", w.route.subscribed
                 PROVE  Good(Delivered(seen, numbered), k, loose)
    OBVIOUS
  <2>2. told.route.lastSequence < numbered.seq /\ numbered.seq <= told.facade.sequence
    <3>1. w.route.lastSequence \in Nat /\ w.route.lastSequence <= w.facade.sequence
      BY <2>1, DesktopHas DEF DesktopFits
    <3>. QED
      BY <1>3, <1>4, <3>1
  <2>. QED
    BY <1>3, <1>4, <1>6, <2>1, <2>2, DeliveredGood
<1>8. w.route.transport = k.transport
  BY TransportIs
<1>9. \/ k.transport = "web" /\ Publish(w, event) = After[MaxClients]
      \/ k.transport = "desktop" /\ w.route.subscribed /\ Publish(w, event) = Delivered(seen, numbered)
      \/ Publish(w, event) = told
  <2>. HIDE DEF After
  <2>1. CASE k.transport = "web"
    <3>1. Publish(w, event) = After[MaxClients]
      BY <1>1, <1>2, <1>8, <2>1 DEF Publish, AreTellings, After
    <3>. QED
      BY <2>1, <3>1
  <2>2. CASE k.transport = "desktop" /\ w.route.subscribed
    BY <1>1, <1>2, <1>6, <1>8, <2>2 DEF Publish
  <2>3. CASE k.transport # "web" /\ ~(k.transport = "desktop" /\ w.route.subscribed)
    BY <1>1, <1>2, <1>8, <2>3 DEF Publish
  <2>. QED
    BY <2>1, <2>2, <2>3
<1>. QED
  BY <1>3, <1>5, <1>7, <1>9

---------------------------------------------------------------------------
\* What the facade publishes
LEMMA EventMade ==
    ASSUME NEW kind \in Kinds, NEW read \in 0 .. MaxReads, NEW state \in States, NEW received \in Nat,
           NEW dropped \in Nat, NEW records \in Seq(Nat)
    PROVE  [kind |-> kind, read |-> read, state |-> state, received |-> received, dropped |-> dropped,
            records |-> records, seq |-> 0] \in Event
  BY DEF Event

LEMMA NoEventTyped ==
    /\ NoEvent \in Event
    /\ \A kind \in Kinds : [NoEvent EXCEPT !.kind = kind] \in Event
<1>1. 0 \in 0 .. MaxReads /\ <<>> \in Seq(Nat) /\ "none" \in Kinds /\ "none" \in States
  BY ReadsAreNumbers DEF Kinds, States
<1>2. NoEvent \in Event
  BY <1>1, EventMade DEF NoEvent
<1>3. ASSUME NEW kind \in Kinds PROVE [NoEvent EXCEPT !.kind = kind] \in Event
  BY <1>2 DEF Event
<1>. QED
  BY <1>2, <1>3

LEMMA NotedGood ==
    ASSUME NEW w, NEW k, NEW loose, Good(w, k, loose)
    PROVE  Good(Noted(w), k, loose)
  BY NoEventTyped, PublishGood DEF Noted, Kinds

LEMMA ReadsHold ==
    ASSUME NEW w, NEW k, NEW loose, Good(w, k, loose), NEW r \in Reads
    PROVE  IsRead(w.reads[r]) /\ ReadHolds(w.reads[r]) /\ r \in 0 .. MaxReads /\ r \in Nat /\ r # 0
  BY PresentationAssumption DEF Good, Usable, IsWorld, ReadsFit, Reads

LEMMA MetricsGood ==
    ASSUME NEW w, NEW k, NEW loose, Good(w, k, loose), NEW r \in Reads
    PROVE  Good(Metrics(w, r), k, loose)
<1>1. PICK state \in States : state = w.reads[r].state
  BY ReadsHold DEF ReadHolds
<1>2. PICK event : event = [NoEvent EXCEPT !.kind = "metrics", !.read = r, !.state = state]
  OBVIOUS
<1>3. event \in Event
  <2>1. r \in 0 .. MaxReads /\ <<>> \in Seq(Nat) /\ "metrics" \in Kinds /\ state \in States
    BY <1>1, ReadsHold DEF Kinds
  <2>2. event = [kind |-> "metrics", read |-> r, state |-> state, received |-> 0, dropped |-> 0,
                 records |-> <<>>, seq |-> 0]
    BY <1>2 DEF NoEvent
  <2>. QED
    BY <2>1, <2>2, EventMade
<1>. QED
  BY <1>1, <1>2, <1>3, PublishGood DEF Metrics

LEMMA MetricsPublishedGood ==
    ASSUME NEW w, NEW k, NEW loose, Good(w, k, loose), NEW r \in Reads
    PROVE  Good(MetricsPublished(w, r), k, loose)
<1>1. Good(Metrics(w, r), k, loose)
  BY MetricsGood
<1>. QED
  BY <1>1, TimersGood DEF MetricsPublished, SampleScheduled

LEMMA StatePublishedGood ==
    ASSUME NEW w, NEW k, NEW loose, Good(w, k, loose), NEW r \in Reads, NEW state \in States
    PROVE  Good(StatePublished(w, r, state), k, loose)
<1>1. PICK read, event, v :
         /\ read = w.reads[r]
         /\ event = [NoEvent EXCEPT !.kind = "state", !.read = r, !.state = state,
                                    !.received = read.received, !.dropped = read.dropped]
         /\ v = [w EXCEPT !.reads[r].state = state]
  OBVIOUS
<1>2. event \in Event
  <2>1. read.received \in Nat /\ read.dropped \in Nat /\ r \in 0 .. MaxReads
    BY <1>1, ReadsHold DEF ReadHolds
  <2>. QED
    <3>1. <<>> \in Seq(Nat) /\ "state" \in Kinds
      BY DEF Kinds
    <3>2. event = [kind |-> "state", read |-> r, state |-> state, received |-> read.received,
                   dropped |-> read.dropped, records |-> <<>>, seq |-> 0]
      BY <1>1 DEF NoEvent
    <3>. QED
      BY <2>1, <3>1, <3>2, EventMade
<1>3. Good(v, k, loose)
  BY <1>1, TimersGood
<1>4. Good(Publish(v, event), k, loose)
  BY <1>2, <1>3, PublishGood
<1>5. Good(Metrics(Publish(v, event), r), k, loose)
  BY <1>4, MetricsGood
<1>. QED
  BY <1>1, <1>5 DEF StatePublished

LEMMA LoadingGood ==
    ASSUME NEW w, NEW k, NEW loose, Good(w, k, loose), NEW r \in Reads
    PROVE  Good(LoadingPublished(w, r), k, loose)
<1>1. Good([w EXCEPT !.reads[r].loading = TRUE], k, loose)
  BY TimersGood
<1>2. Good(StatePublished([w EXCEPT !.reads[r].loading = TRUE], r, "loading"), k, loose)
  BY <1>1, StatePublishedGood DEF States
<1>. QED
  BY <1>2 DEF LoadingPublished

\* A flush is due, or the presentation is paused.
LEMMA ScheduledGood ==
    ASSUME NEW w, NEW k, NEW loose, Good(w, k, loose), NEW r \in Reads, loose \in {0, r}
    PROVE  Good(Scheduled(w, r), k, 0)
<1>1. CASE w.facade.paused
  <2>1. Flows(w, 0)
    BY <1>1 DEF Flows
  <2>. QED
    BY <1>1, <2>1 DEF Scheduled, Good
<1>2. CASE ~w.facade.paused
  BY <1>2, TimersGood DEF Scheduled
<1>. QED
  BY <1>1, <1>2

---------------------------------------------------------------------------
(* The records of a batch.                                                 *)

\* The records that fit, of the first n.
FitsNext(f, queue, m) == IF Fits(queue[m]) THEN Append(f[m - 1], queue[m]) ELSE f[m - 1]
AreFits(f, queue, n) == f = [m \in 0 .. n |-> IF m = 0 THEN <<>> ELSE FitsNext(f, queue, m)]

LEMMA FitsExist ==
    ASSUME NEW queue, NEW m \in Nat
    PROVE  \E f : AreFits(f, queue, m)
<1> DEFINE S == {n \in Nat : \E f : AreFits(f, queue, n)}
<1>1. 0 \in S
  <2>1. AreFits([c \in 0 .. 0 |-> <<>>], queue, 0)
    BY DEF AreFits
  <2>. QED
    BY <2>1
<1>2. ASSUME NEW n \in Nat, n \in S PROVE n + 1 \in S
  <2>1. PICK f : AreFits(f, queue, n)
    BY <1>2
  <2>2. PICK last : last = IF Fits(queue[n + 1]) THEN Append(f[n], queue[n + 1]) ELSE f[n]
    OBVIOUS
  <2> DEFINE g == [c \in 0 .. n + 1 |-> IF c = n + 1 THEN last ELSE f[c]]
  <2>3. \A c \in 0 .. n + 1 : g[c] = IF c = 0 THEN <<>> ELSE FitsNext(g, queue, c)
    <3>1. f[0] = <<>> /\ \A c \in 1 .. n : f[c] = FitsNext(f, queue, c)
      BY <2>1 DEF AreFits
    <3>2. \A c \in 0 .. n : g[c] = f[c]
      OBVIOUS
    <3>3. g[n + 1] = last
      OBVIOUS
    <3>4. ASSUME NEW c \in 1 .. n PROVE g[c] = FitsNext(g, queue, c)
      <4>1. c \in 0 .. n /\ c - 1 \in 0 .. n
        OBVIOUS
      <4>2. g[c] = f[c] /\ g[c - 1] = f[c - 1]
        BY <3>2, <4>1
      <4>. QED
        BY <3>1, <4>2 DEF FitsNext
    <3>. HIDE DEF g
    <3>5. g[n + 1] = FitsNext(g, queue, n + 1)
      <4>1. (n + 1) - 1 = n /\ n \in 0 .. n
        OBVIOUS
      <4>. QED
        BY <2>2, <3>2, <3>3, <4>1 DEF FitsNext
    <3>6. g[0] = <<>>
      BY <3>1, <3>2
    <3>7. \A c \in 0 .. n + 1 : c = 0 \/ c \in 1 .. n \/ c = n + 1
      OBVIOUS
    <3>. QED
      BY <3>4, <3>5, <3>6, <3>7
  <2>4. AreFits(g, queue, n + 1)
    BY <2>3 DEF AreFits
  <2>. QED
    BY <2>4
<1>3. m \in S
  <2>. HIDE DEF S
  <2>. QED
    BY <1>1, <1>2, SetInduction
<1>. QED
  BY <1>3

LEMMA FitsTyped ==
    ASSUME NEW queue \in Seq(Nat), NEW m \in Nat, m <= Len(queue), NEW f, AreFits(f, queue, m)
    PROVE  f[m] \in Seq(Nat) /\ Len(f[m]) <= m
<1> DEFINE S == {n \in Nat : n <= m => f[n] \in Seq(Nat) /\ Len(f[n]) <= n}
<1>1. 0 \in S
  <2>1. f[0] = <<>>
    BY DEF AreFits
  <2>2. PICK none : none = <<>>
    OBVIOUS
  <2>3. none \in Seq(Nat) /\ Len(none) <= 0
    BY <2>2
  <2>4. f[0] = none
    BY <2>1, <2>2
  <2>. QED
    BY <2>3, <2>4
<1>2. ASSUME NEW n \in Nat, n \in S PROVE n + 1 \in S
  <2>1. SUFFICES ASSUME n + 1 <= m PROVE f[n + 1] \in Seq(Nat) /\ Len(f[n + 1]) <= n + 1
    OBVIOUS
  <2>2. PICK u, v, record : u = f[n] /\ v = f[n + 1] /\ record = queue[n + 1]
    OBVIOUS
  <2>3. v = u \/ v = Append(u, record)
    <3>1. v = FitsNext(f, queue, n + 1) /\ (n + 1) - 1 = n
      BY <2>1, <2>2, SMTT(20) DEF AreFits
    <3>. QED
      BY <2>2, <3>1 DEF FitsNext
  <2>4. u \in Seq(Nat) /\ Len(u) <= n /\ record \in Nat
    BY <1>2, <2>1, <2>2
  <2>5. v \in Seq(Nat) /\ Len(v) <= n + 1
    <3>1. CASE v = u
      BY <2>4, <3>1
    <3>2. CASE v = Append(u, record)
      <4>1. v \in Seq(Nat) /\ Len(v) = Len(u) + 1
        BY <2>4, <3>2
      <4>. QED
        BY <2>4, <4>1
    <3>. QED
      BY <2>3, <3>1, <3>2
  <2>. QED
    BY <2>2, <2>5
<1>3. m \in S
  <2>. HIDE DEF S
  <2>. QED
    BY <1>1, <1>2, SetInduction
<1>. QED
  BY <1>3

LEMMA FittingTyped ==
    ASSUME NEW queue \in Seq(Nat)
    PROVE  Fitting(queue) \in Seq(Nat) /\ Len(Fitting(queue)) <= Len(queue)
<1>1. PICK n \in Nat : n = Len(queue)
  OBVIOUS
<1> DEFINE Among1 == CHOOSE f : AreFits(f, queue, n)
<1>2. AreFits(Among1, queue, n)
  BY FitsExist
<1>3. Fitting(queue) = Among1[n]
  BY <1>1 DEF Fitting, AreFits, FitsNext
<1>4. Among1[n] \in Seq(Nat) /\ Len(Among1[n]) <= n
  <2>. HIDE DEF Among1
  <2>. QED
    BY <1>1, <1>2, FitsTyped
<1>. QED
  BY <1>1, <1>3, <1>4

LEMMA PrefixTyped ==
    ASSUME NEW queue \in Seq(Nat)
    PROVE  Prefix(queue) \in Seq(Nat) /\ Len(Prefix(queue)) <= Len(queue)
<1> DEFINE full == {n \in 1 .. Len(queue) : Len(Fitting(SubSeq(queue, 1, n))) = BatchSize}
<1>1. CASE full = {}
  BY <1>1 DEF Prefix
<1>2. CASE full # {}
  <2>1. full \in SUBSET Nat /\ full \subseteq 1 .. Len(queue)
    OBVIOUS
  <2>. HIDE DEF full
  <2>2. PICK n \in 1 .. Len(queue) : n = Min(full)
    BY <1>2, <2>1, LeastMember
  <2>. USE DEF full
  <2>3. Prefix(queue) = SubSeq(queue, 1, n)
    BY <1>2, <2>2 DEF Prefix
  <2>. HIDE DEF full
  <2>4. SubSeq(queue, 1, n) \in Seq(Nat) /\ Len(SubSeq(queue, 1, n)) = n
    BY <2>2
  <2>. QED
    BY <2>2, <2>3, <2>4
<1>. QED
  BY <1>1, <1>2

LEMMA TakenHolds ==
    ASSUME NEW read, IsRead(read), ReadHolds(read), read.queue # <<>>
    PROVE  /\ IsRead(Taken(read)) /\ ReadHolds(Taken(read)) /\ Batch(read) \in Seq(Nat)
           /\ Taken(read).flush = read.flush
<1>1. PICK some : some = Prefix(read.queue)
  OBVIOUS
<1>2. some \in Seq(Nat) /\ Len(some) <= Len(read.queue)
  BY <1>1, PrefixTyped DEF ReadHolds
<1>3. PICK batch : batch = Batch(read)
  OBVIOUS
<1>4. batch \in Seq(Nat) /\ Len(batch) <= Len(some)
  BY <1>1, <1>2, <1>3, FittingTyped DEF Batch
<1>5. PICK n \in Nat, m \in Nat : n = Len(some) /\ m = Len(batch)
  BY <1>2, <1>4
<1>6. PICK old, dropped : old = read.queue /\ dropped = read.dropped
  OBVIOUS
<1>7. old \in Seq(Nat) /\ dropped \in Nat /\ n <= Len(old) /\ m <= n
  BY <1>2, <1>4, <1>5, <1>6 DEF ReadHolds
<1>8. SubSeq(old, n + 1, Len(old)) \in Seq(Nat) /\ dropped + n - m \in Nat
  BY <1>7
<1>9. PICK v : v = Taken(read)
  OBVIOUS
<1>10. v = [read EXCEPT !.queue = SubSeq(old, n + 1, Len(old)), !.dropped = dropped + n - m,
                        !.published = @ \/ batch # <<>>]
  BY <1>1, <1>3, <1>5, <1>6, <1>9 DEF Taken
<1>11. IsRead(v) /\ v.flush = read.flush /\ v.queue = SubSeq(old, n + 1, Len(old)) /\ v.dropped = dropped + n - m
       /\ v.phase = read.phase /\ v.received = read.received /\ v.state = read.state
  BY <1>10 DEF IsRead
<1>12. ReadHolds(v)
  BY <1>8, <1>11 DEF ReadHolds
<1>. QED
  BY <1>3, <1>4, <1>9, <1>11, <1>12

---------------------------------------------------------------------------
(* What flushes and discards do to the delivery.                           *)

LEMMA LooseEmpty ==
    ASSUME NEW w, NEW k, NEW r, Good(w, k, r), w.reads[r].queue = <<>> \/ w.facade.active # r
    PROVE  Good(w, k, 0)
  BY DEF Good, Flows

LEMMA BatchPublishedGood ==
    ASSUME NEW w, NEW k, NEW r \in Reads, Good(w, k, r)
    PROVE  Good(BatchPublished(w, r), k, r)
<1>1. PICK left : left = [w EXCEPT !.reads[r] = Taken(@)]
  OBVIOUS
<1>2. PICK event : event = [NoEvent EXCEPT !.kind = "batch", !.read = r,
                                           !.records = Batch(w.reads[r]),
                                           !.dropped = left.reads[r].dropped]
  OBVIOUS
<1>4. CASE w.facade.paused \/ w.reads[r].queue = <<>>
  BY <1>4 DEF BatchPublished
<1>5. CASE ~(w.facade.paused \/ w.reads[r].queue = <<>>)
  <2>1. PICK read : read = Taken(w.reads[r])
    OBVIOUS
  <2>2. IsRead(read) /\ ReadHolds(read) /\ Batch(w.reads[r]) \in Seq(Nat) /\ r \in 0 .. MaxReads
    BY <1>5, <2>1, ReadsHold, TakenHolds
  <2>3. left = [w EXCEPT !.reads[r] = read]
    BY <1>1, <2>1
  <2>4. Good(left, k, r)
    BY <2>2, <2>3, ReadGood
  <2>5. event \in Event
    <3>1. PICK n \in Nat, batch \in Seq(Nat) : n = left.reads[r].dropped /\ batch = Batch(w.reads[r])
      BY <2>2, <2>4, ReadsHold DEF ReadHolds
    <3>2. "batch" \in Kinds /\ "none" \in States
      BY DEF Kinds, States
    <3>3. event = [kind |-> "batch", read |-> r, state |-> "none", received |-> 0,
                   dropped |-> n, records |-> batch, seq |-> 0]
      BY <1>2, <3>1 DEF NoEvent
    <3>. QED
      BY <2>2, <3>1, <3>2, <3>3, EventMade
  <2>6. Good(Publish(left, event), k, r)
    BY <2>4, <2>5, PublishGood
  <2>7. BatchPublished(w, r) \in {left, Publish(left, event)}
    BY <1>1, <1>2, <1>5 DEF BatchPublished
  <2>. QED
    BY <2>4, <2>6, <2>7
<1>. QED
  BY <1>4, <1>5

LEMMA FlushedGood ==
    ASSUME NEW w, NEW k, NEW loose, NEW r \in Reads, Good(w, k, loose), loose \in {0, r},
           NEW measured \in BOOLEAN
    PROVE  Good(Flushed(w, r, measured), k, 0)
<1>1. PICK quiet : quiet = [w EXCEPT !.reads[r].flush = FALSE]
  OBVIOUS
<1>2. Good(quiet, k, r) /\ quiet.reads[r].queue = w.reads[r].queue
  <2>1. PICK read : read = [w.reads[r] EXCEPT !.flush = FALSE]
    OBVIOUS
  <2>2. IsRead(read) /\ read.queue = w.reads[r].queue
    <3>1. IsRead(w.reads[r])
      BY ReadsHold
    <3>. QED
      BY <2>1, <3>1 DEF IsRead
  <2>3. quiet = [w EXCEPT !.reads[r] = read]
    BY <1>1, <2>1
  <2>4. quiet.reads[r] = read
    BY <2>2, <2>3, ReadApart DEF Good, Usable
  <2>. QED
    BY <1>1, <2>2, <2>4, TimersGood
<1>3. PICK sent : sent = BatchPublished(quiet, r)
  OBVIOUS
<1>4. PICK counted : counted = Measured(sent, r, ~w.reads[r].published \/ measured)
  OBVIOUS
<1>5. Good(sent, k, r)
  BY <1>2, <1>3, BatchPublishedGood
<1>6. Good(counted, k, r)
  <2>1. counted \in {sent, MetricsPublished(sent, r)}
    BY <1>4 DEF Measured
  <2>. QED
    BY <1>5, <2>1, MetricsPublishedGood
<1>7. CASE w.reads[r].queue = <<>>
  BY <1>1, <1>2, <1>7, LooseEmpty DEF Flushed
<1>8. CASE w.reads[r].queue # <<>>
  <2>1. Flushed(w, r, measured) = Continued(counted, r)
    BY <1>1, <1>3, <1>4, <1>8 DEF Flushed
  <2>2. Good(Scheduled(counted, r), k, 0)
    BY <1>6, ScheduledGood
  <2>3. CASE counted.reads[r].queue = <<>>
    BY <1>6, <2>1, <2>3, LooseEmpty DEF Continued
  <2>4. CASE counted.reads[r].queue # <<>>
    BY <2>1, <2>2, <2>4 DEF Continued
  <2>. QED
    BY <2>3, <2>4
<1>. QED
  BY <1>7, <1>8

LEMMA TurnsGood ==
    ASSUME NEW quiet, NEW k, NEW r \in Reads, Good(quiet, k, r), NEW m \in Nat, NEW f, AreTurns(f, quiet, r, m)
    PROVE  Good(f[m], k, r)
<1> DEFINE S == {n \in Nat : n <= m => Good(f[n], k, r)}
<1>1. 0 \in S
  <2>1. f[0] = quiet
    BY DEF AreTurns
  <2>. QED
    BY <2>1
<1>2. ASSUME NEW n \in Nat, n \in S PROVE n + 1 \in S
  <2>1. SUFFICES ASSUME n + 1 <= m PROVE Good(f[n + 1], k, r)
    OBVIOUS
  <2>2. PICK u, v : u = f[n] /\ v = f[n + 1]
    OBVIOUS
  <2>3. v = BatchPublished(u, r)
    BY <2>1, <2>2 DEF AreTurns
  <2>4. Good(u, k, r)
    BY <1>2, <2>1, <2>2
  <2>5. Good(v, k, r)
    BY <2>3, <2>4, BatchPublishedGood
  <2>. QED
    BY <2>2, <2>5
<1>3. m \in S
  <2>. HIDE DEF S
  <2>. QED
    BY <1>1, <1>2, SetInduction
<1>. QED
  BY <1>3

\* A read whose records are discarded expects no flush.
LEMMA DiscardedHolds ==
    ASSUME NEW read, IsRead(read), ReadHolds(read)
    PROVE  /\ IsRead(Discarded(read)) /\ ReadHolds(Discarded(read)) /\ Discarded(read).queue = <<>>
           /\ IsRead(Silenced(read)) /\ ReadHolds(Silenced(read))
           /\ IsRead(Discarded(Silenced(read))) /\ ReadHolds(Discarded(Silenced(read)))
           /\ Discarded(Silenced(read)).queue = <<>>
<1>1. <<>> \in Seq(Nat)
  OBVIOUS
<1>2. ASSUME NEW some, IsRead(some), ReadHolds(some)
      PROVE  IsRead(Discarded(some)) /\ ReadHolds(Discarded(some)) /\ Discarded(some).queue = <<>>
  <2>1. PICK n \in Nat : n = some.dropped + Len(some.queue)
    BY <1>2 DEF ReadHolds
  <2>2. PICK v : v = [some EXCEPT !.queue = <<>>, !.dropped = n]
    OBVIOUS
  <2>3. /\ IsRead(v) /\ v.queue = <<>> /\ v.dropped = n /\ v.received = some.received
        /\ v.state = some.state
    BY <1>2, <2>2 DEF IsRead
  <2>4. ReadHolds(v)
    BY <1>1, <1>2, <2>1, <2>3 DEF ReadHolds
  <2>5. v = Discarded(some)
    BY <2>1, <2>2 DEF Discarded
  <2>. QED
    BY <2>3, <2>4, <2>5
<1>3. PICK silent : silent = Silenced(read)
  OBVIOUS
<1>4. IsRead(silent) /\ ReadHolds(silent)
  BY <1>3 DEF IsRead, ReadHolds, Silenced
<1>. QED
  BY <1>2, <1>3, <1>4

LEMMA DiscardGood ==
    ASSUME NEW w, NEW k, NEW loose, NEW r \in Reads, Good(w, k, loose), loose \in {0, r}
    PROVE  /\ Good([w EXCEPT !.reads[r] = Discarded(@)], k, 0)
           /\ Good([w EXCEPT !.reads[r] = Discarded(Silenced(@))], k, 0)
<1>1. PICK a, b : a = Discarded(w.reads[r]) /\ b = Discarded(Silenced(w.reads[r]))
  OBVIOUS
<1>2. IsRead(a) /\ ReadHolds(a) /\ a.queue = <<>> /\ IsRead(b) /\ ReadHolds(b) /\ b.queue = <<>>
  BY <1>1, ReadsHold, DiscardedHolds
<1>3. Good([w EXCEPT !.reads[r] = a], k, 0) /\ Good([w EXCEPT !.reads[r] = b], k, 0)
  BY <1>2, ReadGood
<1>. QED
  BY <1>1, <1>3

LEMMA FlushedWholeGood ==
    ASSUME NEW w, NEW k, NEW loose, NEW r \in Reads, Good(w, k, loose), loose \in {0, r}
    PROVE  Good(FlushedWhole(w, r), k, 0)
<1>1. PICK quiet : quiet = [w EXCEPT !.reads[r] = Silenced(@)]
  OBVIOUS
<1>2. Good(quiet, k, r)
  BY <1>1, TimersGood
<1> DEFINE After == CHOOSE f : AreTurns(f, quiet, r, QueueDepth)
<1>3. PICK flushed : flushed = After[QueueDepth]
  OBVIOUS
<1>4. Good(flushed, k, r)
  <2>1. AreTurns(After, quiet, r, QueueDepth)
    BY TurnsExist, PresentationAssumption
  <2>. HIDE DEF After
  <2>. QED
    BY <1>2, <1>3, <2>1, PresentationAssumption, TurnsGood
<1>5. FlushedWhole(w, r) = [flushed EXCEPT !.reads[r] = Discarded(@)]
  BY <1>1, <1>3 DEF FlushedWhole, AreTurns
<1>6. r \in {0, r}
  OBVIOUS
<1>7. Good([flushed EXCEPT !.reads[r] = Discarded(@)], k, 0)
  BY <1>4, <1>6, DiscardGood
<1>. QED
  BY <1>5, <1>7

LEMMA ReadDiscardedGood ==
    ASSUME NEW w, NEW k, NEW r \in 0 .. MaxReads, Good(w, k, 0)
    PROVE  Good(ReadDiscarded(w, r), k, 0)
<1>1. CASE r = 0
  BY <1>1 DEF ReadDiscarded
<1>2. CASE r # 0
  <2>1. r \in Reads
    BY <1>2, PresentationAssumption DEF Reads
  <2>. QED
    BY <1>2, <2>1, DiscardGood DEF ReadDiscarded
<1>. QED
  BY <1>1, <1>2

\* The owner of the presentation is another.
LEMMA OwnersGood ==
    ASSUME NEW w, NEW k, NEW loose, Good(w, k, loose)
    PROVE  /\ \A c \in 0 .. MaxReads : Good([w EXCEPT !.facade.continuation = c], k, loose)
           /\ Good([w EXCEPT !.facade.active = 0], k, loose)
           /\ \A stop \in Stop : Good([w EXCEPT !.facade.stopping = stop], k, loose)
           /\ Good([w EXCEPT !.facade.intent = @ + 1], k, loose)
<1>0. IsFacade(w.facade) /\ FacadeTyped(w.facade)
  BY DEF Good, Usable, IsWorld
<1>1. ASSUME NEW c \in 0 .. MaxReads PROVE Good([w EXCEPT !.facade.continuation = c], k, loose)
  <2>1. PICK f : f = [w.facade EXCEPT !.continuation = c]
    OBVIOUS
  <2>2. /\ IsFacade(f) /\ FacadeTyped(f) /\ f.paused = w.facade.paused /\ f.sequence = w.facade.sequence
        /\ f.stops = w.facade.stops /\ f.active = w.facade.active
    BY <1>0, <2>1 DEF IsFacade, FacadeTyped
  <2>3. [w EXCEPT !.facade.continuation = c] = [w EXCEPT !.facade = f]
    BY <2>1
  <2>. QED
    BY <2>2, <2>3, FacadeGood
<1>2. Good([w EXCEPT !.facade.active = 0], k, loose)
  <2>1. PICK f : f = [w.facade EXCEPT !.active = 0]
    OBVIOUS
  <2>2. /\ IsFacade(f) /\ f.paused = w.facade.paused /\ f.sequence = w.facade.sequence
        /\ f.stops = w.facade.stops /\ f.active = 0
    BY <1>0, <2>1 DEF IsFacade
  <2>3. FacadeTyped(f)
    <3>1. 0 \in 0 .. MaxReads
      BY ReadsAreNumbers
    <3>. QED
      BY <1>0, <2>1, <3>1 DEF IsFacade, FacadeTyped
  <2>4. [w EXCEPT !.facade.active = 0] = [w EXCEPT !.facade = f]
    BY <2>1
  <2>. QED
    BY <2>2, <2>3, <2>4, FacadeGood
<1>3. ASSUME NEW stop \in Stop PROVE Good([w EXCEPT !.facade.stopping = stop], k, loose)
  <2>1. PICK f : f = [w.facade EXCEPT !.stopping = stop]
    OBVIOUS
  <2>2. /\ IsFacade(f) /\ FacadeTyped(f) /\ f.paused = w.facade.paused /\ f.sequence = w.facade.sequence
        /\ f.stops = w.facade.stops /\ f.active = w.facade.active
    BY <1>0, <2>1 DEF IsFacade, FacadeTyped
  <2>3. [w EXCEPT !.facade.stopping = stop] = [w EXCEPT !.facade = f]
    BY <2>1
  <2>. QED
    BY <2>2, <2>3, FacadeGood
<1>4. Good([w EXCEPT !.facade.intent = @ + 1], k, loose)
  <2>1. PICK n \in Nat : n = w.facade.intent + 1
    BY <1>0 DEF FacadeTyped
  <2>2. PICK f : f = [w.facade EXCEPT !.intent = n]
    OBVIOUS
  <2>3. /\ IsFacade(f) /\ FacadeTyped(f) /\ f.paused = w.facade.paused /\ f.sequence = w.facade.sequence
        /\ f.stops = w.facade.stops /\ f.active = w.facade.active
    BY <1>0, <2>2 DEF IsFacade, FacadeTyped
  <2>4. [w EXCEPT !.facade.intent = @ + 1] = [w EXCEPT !.facade = f]
    BY <2>1, <2>2
  <2>. QED
    BY <2>3, <2>4, FacadeGood
<1>. QED
  BY <1>1, <1>2, <1>3, <1>4

---------------------------------------------------------------------------
(* The invariant from one state to the next.                               *)

\* No stop ends, and what was acknowledged is what the state says.
Host(w) == [transport |-> w.route.transport, toHost |-> w.toHost, answering |-> {}]
DeliveryInv(w) == Good(w, Host(w), 0)

LEMMA HostOf ==
    ASSUME NEW w, NEW k, Good(w, k, 0), k.answering = {}
    PROVE  DeliveryInv(w)
<1>1. PICK h : h = Host(w)
  OBVIOUS
<1>2. h.transport = k.transport /\ h.toHost = k.toHost /\ h.answering = k.answering
  BY <1>1 DEF Host, Good, Delivering
<1>3. Delivering(w, h)
  BY <1>2 DEF Good, Delivering
<1>4. Good(w, h, 0)
  BY <1>2, <1>3 DEF Good
<1>. QED
  BY <1>1, <1>4 DEF DeliveryInv

LEMMA WorldGood ==
    ASSUME DeliveryInv(World)
    PROVE  \E k : /\ Good(World, k, 0) /\ k.answering = {} /\ k.transport = route.transport /\ k.toHost = toHost
                  /\ k.transport \in {"desktop", "web"}
<1>1. PICK k : k = Host(World)
  OBVIOUS
<1>2. k.answering = {} /\ k.transport = route.transport /\ k.toHost = toHost
  BY <1>1 DEF Host, World
<1>3. Good(World, k, 0)
  BY <1>1 DEF DeliveryInv
<1>4. k.transport \in {"desktop", "web"}
  BY <1>3, TransportIs
<1>. QED
  BY <1>2, <1>3, <1>4

\* A read that is over and that nobody holds is forgotten.
LEMMA KeptGood ==
    ASSUME NEW w, NEW k, Good(w, k, 0)
    PROVE  Good([w EXCEPT !.reads = Kept(w)], k, 0)
<1>1. PICK v : v = [w EXCEPT !.reads = Kept(w)]
  OBVIOUS
<1>2. PICK none : none = [NoRead EXCEPT !.phase = "over"]
  OBVIOUS
<1>3. IsRead(none) /\ ReadHolds(none)
  <2>1. <<>> \in Seq(Nat)
    OBVIOUS
  <2>2. /\ IsRead(none) /\ none.queue = <<>> /\ none.received = 0 /\ none.dropped = 0 /\ none.state = "none"
    BY <1>2 DEF IsRead, NoRead
  <2>. QED
    BY <2>1, <2>2 DEF ReadHolds, States
<1>4. IsWorld(w) /\ HasFields(w) /\ ReadsFit(w) /\ FacadeTyped(w.facade)
  BY DEF Good, Usable, IsWorld
<1>5. v.reads = Kept(w) /\ v.facade = w.facade /\ HasFields(v) /\ SameDelivery(w, v)
  BY <1>1, <1>4 DEF HasFields, SameDelivery
<1>6. v.reads = [r \in Reads |-> IF Held(w, r) THEN w.reads[r] ELSE none]
  BY <1>2, <1>5 DEF Kept
<1>7. \A r \in Reads : v.reads[r] = IF Held(w, r) THEN w.reads[r] ELSE none
  BY <1>6
<1>8. Usable(v) /\ ReadsFit(v)
  <2>1. \A r \in Reads : IsRead(v.reads[r]) /\ ReadHolds(v.reads[r])
    BY <1>3, <1>4, <1>7 DEF IsWorld, ReadsFit
  <2>2. v.reads = [r \in Reads |-> v.reads[r]]
    BY <1>6
  <2>. QED
    BY <1>4, <1>5, <2>1, <2>2 DEF Usable, IsWorld, ReadsFit
<1>9. Flows(v, 0)
  <2>1. SUFFICES ASSUME w.facade.active # 0 PROVE v.reads[w.facade.active] = w.reads[w.facade.active]
    BY <1>5 DEF Good, Flows
  <2>2. w.facade.active \in Reads
    BY <1>4, <2>1, ReadsAreNumbers DEF FacadeTyped, Reads
  <2>3. Held(w, w.facade.active)
    BY DEF Held
  <2>. QED
    BY <1>7, <2>2, <2>3
<1>10. Good(v, k, 0)
  BY <1>5, <1>8, <1>9, GoodSame
<1>. QED
  BY <1>1, <1>10

\* What only the renderer and the host do is to add to what is under way to
\* the host, and to take from it.
Passes == DeliveryInv(World)' /\ toHost' = toHost

LEMMA BecomesGood ==
    ASSUME NEW w, NEW k, Good(w, k, 0), k.answering = {}, Becomes(w)
    PROVE  DeliveryInv(World)' /\ toHost' = k.toHost
<1>1. PICK v : v = [w EXCEPT !.reads = Kept(w)]
  OBVIOUS
<1>2. DeliveryInv(v)
  BY <1>1, KeptGood, HostOf
<1>3. HasFields(w)
  BY DEF Good, Usable, IsWorld
<1>4. v = World'
  BY <1>1, <1>3 DEF Becomes, World, HasFields
<1>5. toHost' = k.toHost
  BY DEF Becomes, Good, Delivering
<1>. QED
  BY <1>2, <1>4, <1>5

LEMMA TurnedGood ==
    ASSUME NEW k, NEW loose, Good(World, k, loose)
    PROVE  Good(Turned, k, loose)
<1>1. PICK w, x : w = World /\ x = [w.bounds EXCEPT !.turns = @ - 1]
  OBVIOUS
<1>2. Good([w EXCEPT !.bounds = x], k, loose)
  BY <1>1, FieldsGood
<1>3. Turned = [w EXCEPT !.bounds = x]
  BY <1>1 DEF Turned
<1>. QED
  BY <1>2, <1>3

LEMMA StreamsGood ==
    ASSUME NEW w, NEW k, NEW loose, Good(w, k, loose), NEW r
    PROVE  Good(StreamsStopped(w), k, loose) /\ Good(StreamRequested(w, r), k, loose)
<1>1. PICK x, y : x = Revoked(w.streams) /\ y = [Revoked(w.streams) EXCEPT ![r] = "opening"]
  OBVIOUS
<1>2. Good([w EXCEPT !.streams = x], k, loose) /\ Good([w EXCEPT !.streams = y], k, loose)
  BY FieldsGood
<1>. QED
  BY <1>1, <1>2 DEF StreamsStopped, StreamRequested

---------------------------------------------------------------------------
(* What the facade does to its reads.                                      *)

LEMMA OwnerTyped ==
    ASSUME NEW w, NEW k, NEW loose, Good(w, k, loose)
    PROVE  /\ w.facade.active \in 0 .. MaxReads /\ w.facade.stopping.read \in 0 .. MaxReads
           /\ (w.facade.active # 0 => w.facade.active \in Reads)
           /\ w.facade.intent \in Nat /\ w.facade.stops \subseteq Stop /\ NoStop \in Stop
  BY PresentationAssumption DEF Good, Usable, FacadeTyped, Stop, NoStop, Reads

LEMMA StoppingGood ==
    ASSUME NEW w, NEW k, Good(w, k, 0)
    PROVE  Good(StoppingDiscarded(w), k, 0)
<1>1. Good(ReadDiscarded(w, w.facade.stopping.read), k, 0)
  BY OwnerTyped, ReadDiscardedGood
<1>2. NoStop \in Stop
  BY OwnerTyped
<1>. QED
  BY <1>1, <1>2, OwnersGood DEF StoppingDiscarded

LEMMA InvalidatedGood ==
    ASSUME NEW w, NEW k, Good(w, k, 0)
    PROVE  Good(Invalidated(w), k, 0)
<1>1. PICK u : u = [w EXCEPT !.facade.continuation = 0]
  OBVIOUS
<1>2. PICK v : v = [u EXCEPT !.facade.intent = @ + 1]
  OBVIOUS
<1>3. Good(u, k, 0)
  <2>1. 0 \in 0 .. MaxReads
    BY ReadsAreNumbers
  <2>. QED
    BY <1>1, <2>1, OwnersGood
<1>4. Good(v, k, 0)
  BY <1>2, <1>3, OwnersGood
<1>5. PICK left : left = StoppingDiscarded(v)
  OBVIOUS
<1>6. Good(left, k, 0)
  BY <1>4, <1>5, StoppingGood
<1>7. Good(ReadDiscarded(left, left.facade.active), k, 0)
  BY <1>6, OwnerTyped, ReadDiscardedGood
<1>8. Good([ReadDiscarded(left, left.facade.active) EXCEPT !.facade.active = 0], k, 0)
  BY <1>7, OwnersGood
<1>9. v = [w EXCEPT !.facade.continuation = 0, !.facade.intent = @ + 1]
  BY <1>1, <1>2 DEF Good, Usable, IsWorld, HasFields, IsFacade
<1>. QED
  BY <1>5, <1>8, <1>9 DEF Invalidated

LEMMA FinishedGood ==
    ASSUME NEW w, NEW k, NEW r \in Reads, NEW more, Good(w, k, 0)
    PROVE  Good(Finished(w, r, more), k, 0)
<1>1. r \in 0 .. MaxReads
  BY ReadsHold
<1>2. Good([w EXCEPT !.facade.continuation = r], k, 0)
  BY <1>1, OwnersGood
<1>. QED
  BY <1>2 DEF Finished

\* A read that is past what it had to wait for has another phase.
LEMMA PhaseGood ==
    ASSUME NEW w, NEW k, NEW loose, NEW r \in Reads, Good(w, k, loose)
    PROVE  /\ \A x : x \notin Fresh => Good([w EXCEPT !.reads[r].phase = x], k, loose)
           /\ Good([w EXCEPT !.reads[r] = Ended(@)], k, loose)
<1>0. IsRead(w.reads[r]) /\ ReadHolds(w.reads[r])
  BY ReadsHold
<1>1. ASSUME NEW x, x \notin Fresh PROVE Good([w EXCEPT !.reads[r].phase = x], k, loose)
  <2>1. PICK read : read = [w.reads[r] EXCEPT !.phase = x]
    OBVIOUS
  <2>2. IsRead(read) /\ ReadHolds(read) /\ read.queue = w.reads[r].queue /\ read.flush = w.reads[r].flush
    BY <1>0, <1>1, <2>1 DEF IsRead, ReadHolds
  <2>3. [w EXCEPT !.reads[r].phase = x] = [w EXCEPT !.reads[r] = read]
    BY <2>1
  <2>. QED
    BY <2>2, <2>3, ReadKept
<1>2. Good([w EXCEPT !.reads[r] = Ended(@)], k, loose)
  <2>1. PICK read : read = Ended(w.reads[r])
    OBVIOUS
  <2>2. /\ IsRead(read) /\ read.queue = w.reads[r].queue /\ read.flush = w.reads[r].flush
        /\ read.phase = "over" /\ read.received = w.reads[r].received /\ read.dropped = w.reads[r].dropped
        /\ read.state = w.reads[r].state
    BY <1>0, <2>1 DEF IsRead, Ended
  <2>3. ReadHolds(read)
    BY <1>0, <2>2 DEF ReadHolds, Fresh
  <2>4. [w EXCEPT !.reads[r] = Ended(@)] = [w EXCEPT !.reads[r] = read]
    BY <2>1
  <2>. QED
    BY <2>2, <2>3, <2>4, ReadKept
<1>. QED
  BY <1>1, <1>2

LEMMA ReadFailedGood ==
    ASSUME NEW w, NEW k, NEW r \in Reads, Good(w, k, 0)
    PROVE  Good(ReadFailed(w, r), k, 0)
<1>1. PICK over : over = [w EXCEPT !.reads[r] = Ended(@)]
  OBVIOUS
<1>2. Good(over, k, 0)
  BY <1>1, PhaseGood
<1>3. PICK quiet : quiet = [over EXCEPT !.reads[r] = Discarded(Silenced(@))]
  OBVIOUS
<1>4. Good(quiet, k, 0)
  BY <1>2, <1>3, DiscardGood
<1>5. PICK ended : ended = [quiet EXCEPT !.facade.active = 0]
  OBVIOUS
<1>6. Good(ended, k, 0)
  BY <1>4, <1>5, OwnersGood
<1>7. Good(StatePublished(ended, r, "failed"), k, 0)
  BY <1>6, StatePublishedGood DEF States
<1>8. ended = [over EXCEPT !.reads[r] = Discarded(Silenced(@)), !.facade.active = 0]
  BY <1>2, <1>3, <1>5 DEF Good, Usable, IsWorld, HasFields
<1>. QED
  BY <1>1, <1>2, <1>7, <1>8 DEF ReadFailed

LEMMA CompletingGood ==
    ASSUME NEW w, NEW k, NEW r \in Reads, NEW more, Good(w, k, 0)
    PROVE  Good(Completing(w, r, more), k, 0)
<1>1. PICK done : done = Finished(FlushedWhole(w, r), r, more)
  OBVIOUS
<1>2. Good(done, k, 0)
  BY <1>1, FlushedWholeGood, FinishedGood
<1>3. Good([done EXCEPT !.facade.active = 0], k, 0)
  BY <1>2, OwnersGood
<1>4. PICK state \in States : state = IF w.reads[r].received = 0 THEN "empty" ELSE "complete"
  BY DEF States
<1>. QED
  BY <1>1, <1>3, <1>4, StatePublishedGood DEF Completing

LEMMA FailingGood ==
    ASSUME NEW w, NEW k, NEW r \in Reads, Good(w, k, 0)
    PROVE  Good(Failing(w, r), k, 0)
<1>1. PICK u : u = FlushedWhole(w, r)
  OBVIOUS
<1>2. Good(u, k, 0)
  BY <1>1, FlushedWholeGood
<1>3. PICK stop, f : /\ stop = [intent |-> u.facade.intent, read |-> r, by |-> "failure"]
                     /\ f = [u.facade EXCEPT !.active = 0, !.stopping = stop]
  OBVIOUS
<1>4. stop \in Stop
  BY <1>2, <1>3, OwnerTyped, ReadsHold DEF Stop
<1>5. PICK a, b : a = [u EXCEPT !.facade.active = 0] /\ b = [a EXCEPT !.facade.stopping = stop]
  OBVIOUS
<1>6. Good(a, k, 0)
  BY <1>2, <1>5, OwnersGood
<1>7. Good(b, k, 0)
  BY <1>4, <1>5, <1>6, OwnersGood
<1>8. b = [u EXCEPT !.facade = f]
  BY <1>2, <1>3, <1>5 DEF Good, Usable, IsWorld, HasFields
<1>9. Failing(w, r) = StatePublished([u EXCEPT !.facade = f], r, "failed")
  BY <1>1, <1>3 DEF Failing
<1>. QED
  BY <1>7, <1>8, <1>9, StatePublishedGood DEF States

LEMMA TerminatedGood ==
    ASSUME NEW w, NEW k, NEW r \in Reads, NEW terminal, NEW more, Good(w, k, 0)
    PROVE  Good(Terminated(w, r, terminal, more), k, 0)
  BY CompletingGood, FailingGood DEF Terminated

---------------------------------------------------------------------------
(* The actions of the renderers and of the clients.                        *)

LEMMA SubscribedGood ==
    ASSUME NEW w, NEW k, Good(w, k, 0), k.transport = "desktop"
    PROVE  Good(Subscribed(w), k, 0)
<1>1. PICK closed : closed = DeliveryClosed(w, Desktop)
  OBVIOUS
<1>2. /\ Usable(closed) /\ ReadsFit(closed) /\ Flows(closed, 0)
      /\ closed.clients = [w.clients EXCEPT ![Desktop] = NoClient]
      /\ closed.route = w.route /\ closed.toRenderer = w.toRenderer /\ closed.toHost = w.toHost
      /\ closed.facade = [w.facade EXCEPT !.paused = FALSE]
  BY <1>1, ClosedGood
<1>3. /\ IsFacade(w.facade) /\ DesktopFits(w) /\ w.clients \in [Clients -> Client]
      /\ w.route \in Route /\ w.route.transport = "desktop" /\ w.route.lastSequence \in Nat
      /\ w.facade.sequence \in Nat
  BY DesktopHas
<1>4. PICK client : client = [NoClient EXCEPT !.open = TRUE]
  OBVIOUS
<1>5. /\ ClientFits(client) /\ client.queue.pending = <<>> /\ client.write = "none" /\ ~client.blocked
      /\ client.paused = FALSE /\ client.open = TRUE
  <2>1. /\ client.open = TRUE /\ client.queue = NoClient.queue /\ client.paused = FALSE
        /\ client.write = "none" /\ client.blocked = FALSE /\ client.full = FALSE
    BY <1>4 DEF NoClient
  <2>2. client \in Client
    BY <1>4, NoClientFits DEF ClientFits, Client
  <2>. QED
    BY <2>1, <2>2, NoClientFits DEF ClientFits, Sends
<1>6. PICK path : path = [w.route EXCEPT !.subscribed = TRUE, !.recovery = "none"]
  OBVIOUS
<1>7. /\ path \in Route /\ path.transport = "desktop" /\ path.subscribed = TRUE /\ path.recovery = "none"
      /\ path.lastSequence = w.route.lastSequence
  BY <1>3, <1>6 DEF Route, Recoveries
<1>8. PICK begun : begun = [closed EXCEPT !.clients[Desktop] = client,
                                          !.route.subscribed = TRUE, !.route.recovery = "none"]
  OBVIOUS
<1>9. IsWorld(closed) /\ HasFields(closed) /\ FacadeTyped(closed.facade)
  BY <1>2 DEF Usable, IsWorld
<1>10. /\ HasFields(begun) /\ begun.reads = closed.reads /\ begun.facade = closed.facade
       /\ begun.route = path /\ begun.toRenderer = w.toRenderer /\ begun.toHost = w.toHost
       /\ begun.clients = [closed.clients EXCEPT ![Desktop] = client]
  BY <1>2, <1>6, <1>8, <1>9 DEF HasFields
<1>11. begun.clients = [w.clients EXCEPT ![Desktop] = client]
  BY <1>2, <1>10
<1>12. Usable(begun) /\ ReadsFit(begun) /\ Flows(begun, 0)
  BY <1>2, <1>9, <1>10 DEF Usable, IsWorld, ReadsFit, Flows
<1>13. Answered(begun, k.answering)
  BY <1>7, <1>10 DEF Answered
<1>14. begun.facade.paused = FALSE /\ begun.facade.sequence = w.facade.sequence
  BY <1>2, <1>3, <1>10 DEF IsFacade
<1>15. Ordered(w.toRenderer, w.toHost, <<>>, w.route.lastSequence)
  BY <1>3, OrderedNothing DEF DesktopFits
<1>16. DesktopHolds(w, begun, client)
  BY <1>3, <1>5, <1>7, <1>10, <1>11, <1>14, <1>15 DEF DesktopHolds, DesktopFits
<1>17. Good(begun, k, 0)
  BY <1>12, <1>13, <1>16, DesktopGood
<1>18. Subscribed(w) = Noted(begun)
  BY <1>1, <1>4, <1>8 DEF Subscribed
<1>. QED
  BY <1>17, <1>18, NotedGood

\* Something else is under way to the host.
LEMMA HostGood ==
    ASSUME NEW w, NEW k, Good(w, k, 0), k.transport = "desktop", k.answering = {}, NEW x,
           Ordered(w.toRenderer, x, w.clients[Desktop].queue.pending, w.route.lastSequence)
    PROVE  \E host : /\ Good([w EXCEPT !.toHost = x], host, 0) /\ host.transport = "desktop"
                     /\ host.answering = {} /\ host.toHost = x
<1>1. PICK host : host = [transport |-> "desktop", toHost |-> x, answering |-> {}]
  OBVIOUS
<1>2. host.transport = "desktop" /\ host.toHost = x /\ host.answering = {}
  BY <1>1
<1>3. Good([w EXCEPT !.toHost = host.toHost], host, 0)
  BY <1>2, UnderWayGood
<1>. QED
  BY <1>2, <1>3

LEMMA UnderWayIs ==
    ASSUME NEW w, NEW k, NEW loose, Good(w, k, loose), w.toHost # <<>> \/ w.toRenderer # <<>>
    PROVE  k.transport = "desktop"
  BY TransportIs DEF Good, Delivering, WebFits

LEMMA ListenGood ==
    ASSUME DeliveryInv(World), Listen
    PROVE  DeliveryInv(World)'
<1>1. PICK k : Good(World, k, 0) /\ k.answering = {} /\ k.transport = route.transport /\ k.toHost = toHost
  BY WorldGood
<1>2. PICK w : w = World
  OBVIOUS
<1>3. PICK u, x : u = [w EXCEPT !.listening = TRUE] /\ x = Append(w.toHost, Subscription)
  OBVIOUS
<1>4. k.transport = "desktop" /\ Good(w, k, 0) /\ HasFields(w)
  BY <1>1, <1>2 DEF Listen, IsDesktop, Good, Usable, IsWorld
<1>5. Good(u, k, 0)
  BY <1>3, <1>4, FieldsGood
<1>6. Ordered(u.toRenderer, x, u.clients[Desktop].queue.pending, u.route.lastSequence)
  <2>1. DesktopFits(u) /\ u.route.lastSequence \in Nat
    BY <1>4, <1>5, DesktopHas
  <2>2. u.toHost = w.toHost
    BY <1>3, <1>4 DEF HasFields
  <2>. QED
    BY <1>3, <2>1, <2>2, OrderedAsked DEF DesktopFits
<1>7. PICK host : Good([u EXCEPT !.toHost = x], host, 0) /\ host.answering = {}
  BY <1>1, <1>4, <1>5, <1>6, HostGood
<1>8. [w EXCEPT !.listening = TRUE, !.toHost = Append(@, Subscription)] = [u EXCEPT !.toHost = x]
  BY <1>3
<1>9. Becomes([u EXCEPT !.toHost = x])
  BY <1>2, <1>8 DEF Listen
<1>. QED
  BY <1>7, <1>9, BecomesGood

LEMMA LeaveGood ==
    ASSUME DeliveryInv(World), Leave
    PROVE  DeliveryInv(World)'
<1>1. PICK k : Good(World, k, 0) /\ k.answering = {}
  BY WorldGood
<1>2. PICK t : t = Turned
  OBVIOUS
<1>3. Good(t, k, 0)
  BY <1>1, <1>2, TurnedGood
<1>4. PICK u, x : u = [t EXCEPT !.listening = FALSE] /\ x = [t.shown EXCEPT ![Desktop] = NothingShown]
  OBVIOUS
<1>5. Good(u, k, 0)
  BY <1>3, <1>4, FieldsGood
<1>6. Good([u EXCEPT !.shown = x], k, 0)
  BY <1>5, FieldsGood
<1>7. [t EXCEPT !.listening = FALSE, !.shown[Desktop] = NothingShown] = [u EXCEPT !.shown = x]
  BY <1>3, <1>4 DEF Good, Usable, IsWorld, HasFields
<1>8. Becomes([u EXCEPT !.shown = x])
  BY <1>2, <1>7 DEF Leave
<1>. QED
  BY <1>1, <1>6, <1>8, BecomesGood

LEMMA ReceiveGood ==
    ASSUME DeliveryInv(World), Receive
    PROVE  DeliveryInv(World)'
<1>1. PICK k : Good(World, k, 0) /\ k.answering = {} /\ k.toHost = toHost
  BY WorldGood
<1>2. PICK w : w = World
  OBVIOUS
<1>3. Good(w, k, 0) /\ HasFields(w) /\ w.toRenderer = toRenderer /\ toRenderer # <<>>
  BY <1>1, <1>2 DEF Receive, World, Good, Usable, IsWorld
<1>4. k.transport = "desktop"
  BY <1>3, UnderWayIs
<1>5. PICK event, some : event = Head(toRenderer) /\ some = Tail(toRenderer)
  OBVIOUS
<1>6. DesktopFits(w) /\ w.route.lastSequence \in Nat
  BY <1>3, <1>4, DesktopHas
<1>7. event = w.toRenderer[1]
  BY <1>3, <1>5, <1>6 DEF DesktopFits, Ordered
<1>8. PICK sent : sent = Append(w.toHost, event.seq)
  OBVIOUS
<1>9. /\ Ordered(some, w.toHost, w.clients[Desktop].queue.pending, w.route.lastSequence)
      /\ Ordered(some, sent, w.clients[Desktop].queue.pending, w.route.lastSequence)
  <2>1. PICK events, acknowledged, pending, last :
           /\ events = w.toRenderer /\ acknowledged = w.toHost
           /\ pending = w.clients[Desktop].queue.pending /\ last = w.route.lastSequence
    OBVIOUS
  <2>2. Ordered(events, acknowledged, pending, last) /\ events # <<>> /\ last \in Nat
    BY <1>3, <1>6, <2>1 DEF DesktopFits
  <2>3. /\ Ordered(Tail(events), acknowledged, pending, last)
        /\ Ordered(Tail(events), Append(acknowledged, events[1].seq), pending, last)
    BY <2>2, OrderedShown
  <2>. QED
    BY <1>3, <1>5, <1>7, <1>8, <2>1, <2>3
<1>10. PICK u : u = [w EXCEPT !.toRenderer = some]
  OBVIOUS
<1>11. Good(u, k, 0)
  BY <1>3, <1>4, <1>9, <1>10, SentGood
<1>12. /\ u.toRenderer = some /\ u.clients = w.clients /\ u.route = w.route /\ u.toHost = w.toHost
       /\ u.shown = w.shown
  BY <1>3, <1>10 DEF HasFields
<1>13. CASE ~listening
  <2>1. Becomes(u)
    BY <1>2, <1>3, <1>5, <1>10, <1>13 DEF Receive
  <2>. QED
    BY <1>1, <1>11, <2>1, BecomesGood
<1>14. CASE listening
  <2>1. PICK host : Good([u EXCEPT !.toHost = sent], host, 0) /\ host.answering = {}
    BY <1>1, <1>4, <1>9, <1>11, <1>12, HostGood
  <2>2. PICK v, x : v = [u EXCEPT !.toHost = sent] /\ x = [w.shown EXCEPT ![Desktop] = Shown(@, event)]
    OBVIOUS
  <2>3. Good([v EXCEPT !.shown = x], host, 0)
    BY <2>1, <2>2, FieldsGood
  <2>4. [v EXCEPT !.shown = x]
           = [u EXCEPT !.shown[Desktop] = Shown(@, event), !.toHost = Append(@, event.seq)]
    BY <1>8, <1>11, <1>12, <2>2 DEF Good, Usable, IsWorld, HasFields
  <2>5. Becomes([v EXCEPT !.shown = x])
    BY <1>2, <1>3, <1>5, <1>10, <1>14, <2>4 DEF Receive
  <2>. QED
    BY <2>1, <2>3, <2>5, BecomesGood
<1>. QED
  BY <1>13, <1>14

\* The host takes the first of what is under way to it.
LEMMA TakenGood ==
    ASSUME DeliveryInv(World), toHost # <<>>
    PROVE  \E k : /\ Good([World EXCEPT !.toHost = Tail(@)], k, 0) /\ k.answering = {}
                  /\ k.transport = "desktop"
<1>1. PICK k : Good(World, k, 0) /\ k.answering = {} /\ k.toHost = toHost
  BY WorldGood
<1>2. PICK w : w = World
  OBVIOUS
<1>3. Good(w, k, 0) /\ w.toHost = toHost
  BY <1>1, <1>2 DEF World
<1>4. k.transport = "desktop"
  BY <1>3, UnderWayIs
<1>5. PICK x : x = Tail(w.toHost)
  OBVIOUS
<1>6. Ordered(w.toRenderer, x, w.clients[Desktop].queue.pending, w.route.lastSequence)
  <2>1. PICK events, acknowledged, pending, last :
           /\ events = w.toRenderer /\ acknowledged = w.toHost
           /\ pending = w.clients[Desktop].queue.pending /\ last = w.route.lastSequence
    OBVIOUS
  <2>2. Ordered(events, acknowledged, pending, last) /\ acknowledged # <<>> /\ last \in Nat
    BY <1>3, <1>4, <2>1, DesktopHas DEF DesktopFits
  <2>3. Ordered(events, Tail(acknowledged), pending, last)
    BY <2>2, OrderedTail
  <2>. QED
    BY <1>5, <2>1, <2>3
<1>7. PICK host : Good([w EXCEPT !.toHost = x], host, 0) /\ host.answering = {} /\ host.transport = "desktop"
  BY <1>1, <1>3, <1>4, <1>6, HostGood, SMTT(50)
<1>8. [w EXCEPT !.toHost = x] = [World EXCEPT !.toHost = Tail(@)]
  BY <1>2, <1>5
<1>. QED
  BY <1>7, <1>8

LEMMA AcknowledgementGood ==
    ASSUME DeliveryInv(World), AcknowledgementArrives
    PROVE  DeliveryInv(World)'
<1>1. PICK u, sequence : u = [World EXCEPT !.toHost = Tail(@)] /\ sequence = Head(toHost)
  OBVIOUS
<1>2. PICK k : Good(u, k, 0) /\ k.answering = {} /\ k.transport = "desktop"
  BY <1>1, TakenGood DEF AcknowledgementArrives
<1>3. Good(Acknowledged(u, sequence), k, 0)
  BY <1>2, AcknowledgedGood
<1>4. Becomes(Acknowledged(u, sequence))
  BY <1>1 DEF AcknowledgementArrives
<1>. QED
  BY <1>2, <1>3, <1>4, BecomesGood

LEMMA SubscriptionGood ==
    ASSUME DeliveryInv(World), SubscriptionArrives
    PROVE  DeliveryInv(World)'
<1>1. PICK u : u = [World EXCEPT !.toHost = Tail(@)]
  OBVIOUS
<1>2. PICK k : Good(u, k, 0) /\ k.answering = {} /\ k.transport = "desktop"
  BY <1>1, TakenGood DEF SubscriptionArrives
<1>3. PICK s, nothing : s = Subscribed(u) /\ nothing = [NothingShown EXCEPT !.since = facade.sequence]
  OBVIOUS
<1>4. Good(s, k, 0)
  BY <1>2, <1>3, SubscribedGood
<1>5. PICK x : x = [s.shown EXCEPT ![Desktop] = nothing]
  OBVIOUS
<1>6. Good([u EXCEPT !.listening = FALSE], k, 0) /\ Good([s EXCEPT !.shown = x], k, 0)
  BY <1>2, <1>4, FieldsGood
<1>7. [s EXCEPT !.shown = x] = [s EXCEPT !.shown[Desktop] = nothing]
  BY <1>5
<1>8. Becomes([u EXCEPT !.listening = FALSE]) \/ Becomes([s EXCEPT !.shown = x])
  BY <1>1, <1>3, <1>7 DEF SubscriptionArrives
<1>. QED
  BY <1>2, <1>6, <1>8, BecomesGood

LEMMA TimesOutGood ==
    ASSUME DeliveryInv(World), AcknowledgementTimesOut
    PROVE  Passes
<1>1. PICK k : Good(World, k, 0) /\ k.answering = {} /\ k.toHost = toHost /\ k.transport = route.transport
  BY WorldGood
<1>2. PICK w, t : w = World /\ t = Turned
  OBVIOUS
<1>3. Good(w, k, 0) /\ Good(t, k, 0) /\ k.transport = "desktop"
  BY <1>1, <1>2, TurnedGood DEF AcknowledgementTimesOut, IsDesktop
<1>4. Good(DeliveryFailed(w), k, 0) /\ Good(DeliveryFailed(t), k, 0)
  BY <1>3, FailedGood
<1>5. Becomes(DeliveryFailed(w)) \/ Becomes(DeliveryFailed(t))
  BY <1>2 DEF AcknowledgementTimesOut
<1>. QED
  BY <1>1, <1>4, <1>5, BecomesGood DEF Passes

LEMMA RendererGood ==
    ASSUME DeliveryInv(World), RendererNext
    PROVE  DeliveryInv(World)'
  BY ListenGood, LeaveGood, ReceiveGood, AcknowledgementGood, SubscriptionGood, TimesOutGood DEF RendererNext, Passes

---------------------------------------------------------------------------
LEMMA WritingIs ==
    ASSUME NEW w, NEW k, NEW loose, Good(w, k, loose), NEW c \in Clients,
           w.clients[c].write # "none" \/ w.clients[c].blocked
    PROVE  /\ k.transport = "web" /\ w.clients[c].open /\ ~w.clients[c].paused
           /\ w.clients[c] \in Client /\ ClientFits(w.clients[c])
<1>1. w.clients[c] \in Client /\ ClientFits(w.clients[c])
  BY DEF Good, Delivering
<1>2. w.clients[c] # NoClient
  BY DEF NoClient
<1>3. w.clients[c].open
  BY <1>1, <1>2 DEF ClientFits
<1>4. k.transport = "web"
  <2>1. SUFFICES ASSUME k.transport = "desktop" PROVE FALSE
    BY TransportIs
  <2>2. DesktopFits(w)
    BY <2>1, DesktopHas
  <2>. QED
    BY <1>2, <2>2 DEF DesktopFits
<1>. QED
  BY <1>1, <1>3, <1>4, WebHas DEF WebFits

LEMMA OpenEventsGood ==
    ASSUME DeliveryInv(World), NEW c \in Clients, OpenEvents(c)
    PROVE  Passes
<1>1. PICK k : /\ Good(World, k, 0) /\ k.answering = {} /\ k.toHost = toHost /\ k.transport = route.transport
               /\ k.transport \in {"desktop", "web"}
  BY WorldGood
<1>2. PICK w, u : w = World /\ u = [w EXCEPT !.clients[c].open = TRUE]
  OBVIOUS
<1>3. Good(w, k, 0) /\ k.transport = "web" /\ ~w.clients[c].open /\ HasFields(w)
  BY <1>1, <1>2 DEF OpenEvents, IsDesktop, World, Good, Usable, IsWorld
<1>4. w.clients[c] = NoClient /\ w.clients \in [Clients -> Client]
  BY <1>3, WebHas DEF ClientFits
<1>5. PICK opened : opened = [NoClient EXCEPT !.open = TRUE]
  OBVIOUS
<1>6. PICK client : client = [opened EXCEPT !.write = "comment", !.blocked = @ \/ opened.full]
  OBVIOUS
<1>7. ClientFits(client) /\ ~client.paused
  <2>1. /\ opened.open = TRUE /\ opened.queue = NoClient.queue /\ opened.paused = FALSE
        /\ opened.blocked = FALSE /\ opened.full = FALSE /\ opened \in Client
    BY <1>5, NoClientFits DEF NoClient, ClientFits, Client
  <2>2. /\ client.open = TRUE /\ client.queue = NoClient.queue /\ client.paused = FALSE
        /\ client.write = "comment" /\ client \in Client
    BY <1>6, <2>1 DEF Client, Writes
  <2>. QED
    BY <2>2, NoClientFits DEF ClientFits, Sends
<1>8. Good([w EXCEPT !.clients[c] = client], k, 0)
  BY <1>3, <1>7, ClientGood
<1>9. u.clients = [w.clients EXCEPT ![c] = opened] /\ HasFields(u)
  BY <1>2, <1>3, <1>4, <1>5 DEF HasFields
<1>10. u.clients[c] = opened
  BY <1>4, <1>9
<1>11. PICK two : two = [w.clients EXCEPT ![c] = client]
  OBVIOUS
<1>12. [u.clients EXCEPT ![c] = client] = two
  BY <1>4, <1>9, <1>11
<1>13. client = [opened EXCEPT !.write = "comment", !.blocked = opened.blocked \/ opened.full]
  BY <1>5, <1>6 DEF NoClient
<1>14. Written(u, c, "comment") = [u EXCEPT !.clients = two]
  <2>1. Written(u, c, "comment") = [u EXCEPT !.clients = [u.clients EXCEPT ![c] =
             [u.clients[c] EXCEPT !.write = "comment", !.blocked = u.clients[c].blocked \/ u.clients[c].full]]]
    BY DEF Written
  <2>. QED
    BY <1>10, <1>12, <1>13, <2>1
<1>15. [u EXCEPT !.clients = two] = [w EXCEPT !.clients[c] = client]
  BY <1>2, <1>3, <1>11 DEF HasFields
<1>16. Becomes([w EXCEPT !.clients[c] = client])
  BY <1>2, <1>14, <1>15 DEF OpenEvents
<1>. QED
  BY <1>1, <1>8, <1>16, BecomesGood DEF Passes

LEMMA SocketFillsGood ==
    ASSUME DeliveryInv(World), NEW c \in Clients, SocketFills(c)
    PROVE  Passes
<1>1. PICK k : Good(World, k, 0) /\ k.answering = {} /\ k.toHost = toHost
  BY WorldGood
<1>2. PICK t : t = Turned
  OBVIOUS
<1>3. Good(t, k, 0) /\ t.clients = clients /\ clients[c].write # "none"
  BY <1>1, <1>2, TurnedGood DEF SocketFills, Turned, World
<1>4. /\ k.transport = "web" /\ t.clients[c].open /\ ~t.clients[c].paused
      /\ t.clients[c] \in Client /\ ClientFits(t.clients[c])
  BY <1>3, WritingIs
<1>5. PICK client : client = [t.clients[c] EXCEPT !.full = TRUE]
  OBVIOUS
<1>6. ClientFits(client) /\ ~client.paused
  BY <1>4, <1>5 DEF ClientFits, Client, Sends
<1>7. Good([t EXCEPT !.clients[c] = client], k, 0)
  BY <1>3, <1>4, <1>6, ClientGood
<1>8. [t EXCEPT !.clients[c].full = TRUE] = [t EXCEPT !.clients[c] = client]
  BY <1>5
<1>9. Becomes([t EXCEPT !.clients[c] = client])
  BY <1>2, <1>8 DEF SocketFills
<1>. QED
  BY <1>1, <1>7, <1>9, BecomesGood DEF Passes

LEMMA WriteCompletesGood ==
    ASSUME DeliveryInv(World), NEW c \in Clients, WriteCompletes(c)
    PROVE  Passes
<1>1. PICK k : Good(World, k, 0) /\ k.answering = {} /\ k.toHost = toHost
  BY WorldGood
<1>2. PICK w : w = World
  OBVIOUS
<1>3. Good(w, k, 0) /\ w.clients = clients /\ clients[c].write # "none" /\ HasFields(w)
  BY <1>1, <1>2 DEF WriteCompletes, World, Good, Usable, IsWorld
<1>4. /\ k.transport = "web" /\ w.clients[c].open /\ ~w.clients[c].paused
      /\ w.clients[c] \in Client /\ ClientFits(w.clients[c])
  BY <1>3, WritingIs
<1>5. PICK q : q = IF clients[c].write = "event" THEN Completed(w.clients[c].queue) ELSE w.clients[c].queue
  OBVIOUS
<1>6. QueueFits(q) /\ LimitFailure(q) = "none" /\ q \in Queue
  BY <1>4, <1>5, CompletedFits DEF ClientFits, QueueFits
<1>7. PICK client : client = [w.clients[c] EXCEPT !.write = "none", !.queue = q]
  OBVIOUS
<1>8. client \in Client /\ client.open /\ ~client.paused /\ client.queue = q
  BY <1>4, <1>6, <1>7 DEF Client, Writes
<1>9. Good(Pumped([w EXCEPT !.clients[c] = client], c), k, 0)
  BY <1>3, <1>4, <1>6, <1>8, PumpedGood
<1>10. w.clients \in [Clients -> Client]
  BY <1>3, <1>4, WebHas
<1>11. [w EXCEPT !.clients[c].write = "none",
                 !.clients[c].queue = IF clients[c].write = "event" THEN Completed(@) ELSE @]
          = [w EXCEPT !.clients[c] = client]
  BY <1>3, <1>4, <1>5, <1>7, <1>10 DEF HasFields, Client
<1>12. Becomes(Pumped([w EXCEPT !.clients[c] = client], c))
  BY <1>2, <1>11 DEF WriteCompletes
<1>. QED
  BY <1>1, <1>9, <1>12, BecomesGood DEF Passes

LEMMA SocketDrainsGood ==
    ASSUME DeliveryInv(World), NEW c \in Clients, SocketDrains(c)
    PROVE  Passes
<1>1. PICK k : Good(World, k, 0) /\ k.answering = {} /\ k.toHost = toHost
  BY WorldGood
<1>2. PICK w : w = World
  OBVIOUS
<1>3. Good(w, k, 0) /\ w.clients = clients /\ clients[c].blocked /\ HasFields(w)
  BY <1>1, <1>2 DEF SocketDrains, World, Good, Usable, IsWorld
<1>4. /\ k.transport = "web" /\ w.clients[c].open /\ ~w.clients[c].paused
      /\ w.clients[c] \in Client /\ ClientFits(w.clients[c])
  BY <1>3, WritingIs
<1>5. PICK client : client = [w.clients[c] EXCEPT !.blocked = FALSE, !.full = FALSE]
  OBVIOUS
<1>6. /\ client \in Client /\ client.open /\ ~client.paused
      /\ QueueFits(client.queue) /\ LimitFailure(client.queue) = "none"
  BY <1>4, <1>5 DEF Client, ClientFits
<1>7. Good(Pumped([w EXCEPT !.clients[c] = client], c), k, 0)
  BY <1>3, <1>4, <1>6, PumpedGood
<1>8. w.clients \in [Clients -> Client]
  BY <1>3, <1>4, WebHas
<1>9. [w EXCEPT !.clients[c].blocked = FALSE, !.clients[c].full = FALSE] = [w EXCEPT !.clients[c] = client]
  BY <1>3, <1>4, <1>5, <1>8 DEF HasFields, Client
<1>10. Becomes(Pumped([w EXCEPT !.clients[c] = client], c))
  BY <1>2, <1>9 DEF SocketDrains
<1>. QED
  BY <1>1, <1>7, <1>10, BecomesGood DEF Passes

LEMMA StreamEndsHereGood ==
    ASSUME DeliveryInv(World), NEW c \in Clients, WriteTimesOut(c) \/ PeerLeaves(c)
    PROVE  Passes
<1>1. PICK k : /\ Good(World, k, 0) /\ k.answering = {} /\ k.toHost = toHost /\ k.transport = route.transport
               /\ k.transport \in {"desktop", "web"}
  BY WorldGood
<1>2. PICK w, t : w = World /\ t = Turned
  OBVIOUS
<1>3. Good(w, k, 0) /\ Good(t, k, 0) /\ w.clients = clients
  BY <1>1, <1>2, TurnedGood DEF World
<1>4. k.transport = "web"
  <2>1. CASE WriteTimesOut(c)
    BY <1>3, <2>1, WritingIs DEF WriteTimesOut
  <2>2. CASE PeerLeaves(c)
    BY <1>1, <2>2 DEF PeerLeaves, IsDesktop
  <2>. QED
    BY <2>1, <2>2
<1>5. Good(StreamClosed(t, c), k, 0)
  BY <1>3, <1>4, StreamClosedGood
<1>6. Becomes(StreamClosed(t, c))
  BY <1>2 DEF WriteTimesOut, PeerLeaves
<1>. QED
  BY <1>1, <1>5, <1>6, BecomesGood DEF Passes

LEMMA ClientNextGood ==
    ASSUME DeliveryInv(World), ClientNext
    PROVE  Passes
  BY OpenEventsGood, SocketFillsGood, WriteCompletesGood, SocketDrainsGood, StreamEndsHereGood DEF ClientNext

---------------------------------------------------------------------------
(* The commands.                                                           *)

LEMMA StartCommandGood ==
    ASSUME DeliveryInv(World), NEW r \in Reads, NEW continues, StartCommand(r, continues)
    PROVE  Passes
<1>1. PICK k : Good(World, k, 0) /\ k.answering = {} /\ k.toHost = toHost
  BY WorldGood
<1>2. PICK u : u = Interrupted(World)
  OBVIOUS
<1>3. Good(u, k, 0)
  BY <1>1, <1>2, InterruptedGood
<1>4. PICK read : read = [NoRead EXCEPT !.phase = "admitted", !.continues = continues,
                                        !.admission = u.facade.admission]
  OBVIOUS
<1>5. IsRead(read) /\ ReadHolds(read) /\ read.queue = <<>>
  <2>1. <<>> \in Seq(Nat)
    OBVIOUS
  <2>2. /\ IsRead(read) /\ read.queue = <<>> /\ read.received = 0 /\ read.dropped = 0 /\ read.state = "none"
    BY <1>4 DEF IsRead, NoRead
  <2>. QED
    BY <2>1, <2>2 DEF ReadHolds, States
<1>6. Good([u EXCEPT !.reads[r] = read], k, 0)
  <2>1. 0 \in {0, r}
    OBVIOUS
  <2>. QED
    BY <1>3, <1>5, <2>1, ReadGood
<1>7. Becomes([u EXCEPT !.reads[r] = read])
  BY <1>2, <1>4 DEF StartCommand
<1>. QED
  BY <1>1, <1>6, <1>7, BecomesGood DEF Passes

\* A read that waits has nothing to show.
LEMMA FreshIs ==
    ASSUME NEW w, NEW k, NEW loose, Good(w, k, loose), NEW r \in Reads, w.reads[r].phase \in Fresh
    PROVE  w.reads[r].queue = <<>>
  BY ReadsHold DEF ReadHolds

LEMMA BegunGood ==
    ASSUME NEW w, NEW k, NEW r \in Reads, Good(w, k, 0), PresentationInv(w),
           w.reads[r].phase \in {"admitted", "resuming"}
    PROVE  Good(ReadBegun([w EXCEPT !.facade.continuation = 0], r), k, 0)
<1>1. PICK idle : idle = [w EXCEPT !.facade.continuation = 0]
  OBVIOUS
<1>2. PICK u : u = [idle EXCEPT !.facade.intent = @ + 1]
  OBVIOUS
<1>3. Good(idle, k, 0)
  <2>1. 0 \in 0 .. MaxReads
    BY ReadsAreNumbers
  <2>. QED
    BY <1>1, <2>1, OwnersGood
<1>4. Good(u, k, 0)
  BY <1>2, <1>3, OwnersGood
<1>5. PICK g : g = [w.facade EXCEPT !.continuation = 0, !.intent = @ + 1]
  OBVIOUS
<1>6. IsFacade(w.facade) /\ FacadeTyped(w.facade)
  BY DEF PresentationInv, IsWorld
<1>7. FacadeLess(w.facade, g)
  <2>1. /\ IsFacade(g) /\ g.intent = w.facade.intent + 1 /\ g.continuation = 0
        /\ g.active = w.facade.active /\ g.stopping = w.facade.stopping /\ g.stops = w.facade.stops
    BY <1>5, <1>6 DEF IsFacade
  <2>2. w.facade.intent \in Nat
    BY <1>6 DEF FacadeTyped
  <2>3. g.intent \in Nat /\ w.facade.intent <= g.intent
    BY <2>1, <2>2
  <2>. QED
    BY <2>1, <2>3 DEF FacadeLess
<1>8. u = [w EXCEPT !.facade = g]
  BY <1>1, <1>2, <1>5, <1>6 DEF PresentationInv, IsWorld, HasFields, IsFacade
<1>9. Keeps(w, u)
  BY <1>7, <1>8, FacadeKeeps
<1>10. PICK begun : begun = StoppingDiscarded(u)
  OBVIOUS
<1>11. Keeps(u, begun)
  BY <1>9, <1>10, StoppingKeeps DEF Keeps
<1>12. Good(begun, k, 0)
  BY <1>4, <1>10, StoppingGood
<1>13. begun.reads[r].phase \in Fresh
  BY <1>9, <1>11 DEF Keeps, SameIntent, Fresh
<1>14. begun.reads[r].queue = <<>> /\ IsRead(begun.reads[r]) /\ ReadHolds(begun.reads[r])
  BY <1>12, <1>13, FreshIs, ReadsHold
<1>15. PICK read : read = [begun.reads[r] EXCEPT !.phase = "preferring", !.intent = begun.facade.intent]
  OBVIOUS
<1>16. /\ IsRead(read) /\ read.queue = begun.reads[r].queue /\ read.flush = begun.reads[r].flush
       /\ ReadHolds(read)
  BY <1>14, <1>15 DEF IsRead, ReadHolds
<1>17. Good([begun EXCEPT !.reads[r] = read], k, 0)
  BY <1>12, <1>16, ReadKept
<1>18. [begun EXCEPT !.reads[r].phase = "preferring", !.reads[r].intent = begun.facade.intent]
          = [begun EXCEPT !.reads[r] = read]
  BY <1>12, <1>15 DEF Good, Usable, IsWorld, HasFields
<1>. QED
  BY <1>1, <1>2, <1>10, <1>17, <1>18 DEF ReadBegun

LEMMA AdmitGood ==
    ASSUME DeliveryInv(World), PresentationInv(World), NEW r \in Reads, Admit(r)
    PROVE  Passes
<1>1. PICK k : Good(World, k, 0) /\ k.answering = {} /\ k.toHost = toHost
  BY WorldGood
<1>2. PICK w : w = World
  OBVIOUS
<1>3. Good(w, k, 0) /\ PresentationInv(w) /\ w.reads[r].phase = "admitted" /\ HasFields(w)
  BY <1>1, <1>2 DEF Admit, World, PresentationInv, IsWorld
<1>4. PICK read : read = [w.reads[r] EXCEPT !.phase = "resuming", !.intent = w.facade.intent]
  OBVIOUS
<1>5. [w EXCEPT !.reads[r].phase = "resuming", !.reads[r].intent = w.facade.intent]
         = [w EXCEPT !.reads[r] = read]
  BY <1>3, <1>4 DEF HasFields
<1>6. \/ Becomes([w EXCEPT !.reads[r] = Ended(@)])
      \/ Becomes(ReadBegun([w EXCEPT !.facade.continuation = 0], r))
      \/ Becomes([w EXCEPT !.reads[r] = read])
  <2>1. w.facade.intent = facade.intent
    BY <1>2 DEF World
  <2>. QED
    BY <1>2, <1>5, <2>1 DEF Admit
<1>7. Good([w EXCEPT !.reads[r] = Ended(@)], k, 0)
  BY <1>3, PhaseGood
<1>8. Good(ReadBegun([w EXCEPT !.facade.continuation = 0], r), k, 0)
  BY <1>3, BegunGood
<1>9. Good([w EXCEPT !.reads[r] = read], k, 0)
  <2>1. IsRead(w.reads[r]) /\ ReadHolds(w.reads[r]) /\ w.reads[r].queue = <<>>
    BY <1>3, ReadsHold, FreshIs DEF Fresh
  <2>2. /\ IsRead(read) /\ read.queue = w.reads[r].queue /\ read.flush = w.reads[r].flush
        /\ ReadHolds(read)
    BY <1>4, <2>1 DEF IsRead, ReadHolds
  <2>. QED
    BY <1>3, <2>2, ReadKept
<1>. QED
  BY <1>1, <1>6, <1>7, <1>8, <1>9, BecomesGood DEF Passes

LEMMA ResumeGood ==
    ASSUME DeliveryInv(World), PresentationInv(World), NEW r \in Reads, Resume(r)
    PROVE  Passes
<1>1. PICK k : Good(World, k, 0) /\ k.answering = {} /\ k.toHost = toHost
  BY WorldGood
<1>2. PICK w : w = World
  OBVIOUS
<1>3. Good(w, k, 0) /\ PresentationInv(w) /\ w.reads[r].phase = "resuming"
  BY <1>1, <1>2 DEF Resume, World
<1>4. \/ Becomes([w EXCEPT !.reads[r] = Ended(@)])
      \/ Becomes(ReadBegun([w EXCEPT !.facade.continuation = 0], r))
  BY <1>2 DEF Resume
<1>5. Good([w EXCEPT !.reads[r] = Ended(@)], k, 0)
  BY <1>3, PhaseGood
<1>6. Good(ReadBegun([w EXCEPT !.facade.continuation = 0], r), k, 0)
  BY <1>3, BegunGood
<1>. QED
  BY <1>1, <1>4, <1>5, <1>6, BecomesGood DEF Passes

\* A read takes the presentation with nothing to show.
LEMMA PresentedGood ==
    ASSUME NEW w, NEW k, NEW r \in Reads, Good(w, k, 0), w.reads[r].phase = "preferring"
    PROVE  Good([w EXCEPT !.facade.active = r, !.reads[r].phase = "clearing", !.reads[r].state = "loading"], k, 0)
<1>1. IsRead(w.reads[r]) /\ ReadHolds(w.reads[r]) /\ w.reads[r].queue = <<>>
  BY ReadsHold, FreshIs DEF Fresh
<1>2. PICK read : read = [w.reads[r] EXCEPT !.phase = "clearing", !.state = "loading"]
  OBVIOUS
<1>3. /\ IsRead(read) /\ read.queue = <<>> /\ read.flush = w.reads[r].flush /\ read.queue = w.reads[r].queue
      /\ ReadHolds(read)
  BY <1>1, <1>2 DEF IsRead, ReadHolds, States
<1>4. PICK u : u = [w EXCEPT !.reads[r] = read]
  OBVIOUS
<1>5. Good(u, k, 0)
  BY <1>3, <1>4, ReadKept
<1>6. IsWorld(w) /\ HasFields(w) /\ IsWorld(u) /\ HasFields(u) /\ FacadeTyped(u.facade) /\ IsFacade(u.facade)
  BY <1>5 DEF Good, Usable, IsWorld
<1>7. u.facade = w.facade /\ u.reads[r] = read
  BY <1>3, <1>4, <1>6, ReadApart
<1>8. PICK g : g = [u.facade EXCEPT !.active = r]
  OBVIOUS
<1>9. /\ IsFacade(g) /\ FacadeTyped(g) /\ g.active = r /\ g.stops = u.facade.stops
      /\ g.paused = u.facade.paused /\ g.sequence = u.facade.sequence
  <2>1. r \in 0 .. MaxReads
    BY <1>5, ReadsHold
  <2>. QED
    BY <1>6, <1>8, <2>1 DEF IsFacade, FacadeTyped
<1>10. PICK v : v = [u EXCEPT !.facade = g]
  OBVIOUS
<1>11. IsWorld(v) /\ v.facade = g /\ v.reads = u.reads /\ SameDelivery(u, v)
  BY <1>6, <1>9, <1>10, FacadeApart
<1>12. Usable(v) /\ ReadsFit(v) /\ Flows(v, 0)
  BY <1>3, <1>5, <1>7, <1>9, <1>11 DEF Usable, Good, ReadsFit, Flows
<1>13. Good(v, k, 0)
  BY <1>5, <1>9, <1>11, <1>12, GoodSame
<1>14. [w EXCEPT !.facade.active = r, !.reads[r].phase = "clearing", !.reads[r].state = "loading"] = v
  <2>1. PICK z : z = [w EXCEPT !.facade = g]
    OBVIOUS
  <2>2. v = [z EXCEPT !.reads[r] = read]
    BY <1>4, <1>6, <1>10, <2>1 DEF HasFields
  <2>3. [w EXCEPT !.facade.active = r] = z
    BY <1>7, <1>8, <2>1
  <2>4. z.reads = w.reads /\ HasFields(z)
    BY <1>6, <2>1 DEF HasFields
  <2>5. [z EXCEPT !.reads[r].phase = "clearing", !.reads[r].state = "loading"] = [z EXCEPT !.reads[r] = read]
    BY <1>2, <2>4 DEF HasFields
  <2>. QED
    BY <2>2, <2>3, <2>5
<1>. QED
  BY <1>13, <1>14

LEMMA PreferGood ==
    ASSUME DeliveryInv(World), PresentationInv(World), NEW r \in Reads, Prefer(r)
    PROVE  Passes
<1>1. PICK k : Good(World, k, 0) /\ k.answering = {} /\ k.toHost = toHost
  BY WorldGood
<1>2. PICK w : w = World
  OBVIOUS
<1>3. Good(w, k, 0) /\ PresentationInv(w) /\ w.reads[r].phase = "preferring"
  BY <1>1, <1>2 DEF Prefer, World
<1>4. PICK idle : idle = [w EXCEPT !.facade.continuation = 0]
  OBVIOUS
<1>5. PICK u : u = StoppingDiscarded(idle)
  OBVIOUS
<1>6. PICK taken : taken = ReadDiscarded(u, u.facade.active)
  OBVIOUS
<1>7. PICK z : z = [taken EXCEPT !.facade.active = r, !.reads[r].phase = "clearing",
                                 !.reads[r].state = "loading"]
  OBVIOUS
<1>8. \/ Becomes([w EXCEPT !.reads[r] = Ended(@)])
      \/ Becomes(StreamsStopped(z))
  BY <1>2, <1>4, <1>5, <1>6, <1>7 DEF Prefer, ReadSuperseded
<1>9. Good([w EXCEPT !.reads[r] = Ended(@)], k, 0)
  BY <1>3, PhaseGood
<1>10. Good(idle, k, 0)
  <2>1. 0 \in 0 .. MaxReads
    BY ReadsAreNumbers
  <2>. QED
    BY <1>3, <1>4, <2>1, OwnersGood
<1>11. Good(u, k, 0)
  BY <1>5, <1>10, StoppingGood
<1>12. Good(taken, k, 0)
  BY <1>6, <1>11, OwnerTyped, ReadDiscardedGood
<1>13. taken.reads[r].phase = "preferring"
  <2>1. PICK g : g = [w.facade EXCEPT !.continuation = 0]
    OBVIOUS
  <2>2. IsFacade(w.facade) /\ FacadeTyped(w.facade)
    BY <1>3 DEF PresentationInv, IsWorld
  <2>3. FacadeLess(w.facade, g)
    BY <2>1, <2>2 DEF IsFacade, FacadeLess, FacadeTyped
  <2>4. idle = [w EXCEPT !.facade = g]
    BY <1>4, <2>1
  <2>5. Keeps(w, idle)
    BY <1>3, <2>3, <2>4, FacadeKeeps
  <2>6. Keeps(idle, u)
    BY <1>5, <2>5, StoppingKeeps DEF Keeps
  <2>7. Keeps(u, taken)
    <3>1. PresentationInv(u) /\ (u.facade.active = 0 \/ u.facade.active \in Reads)
      BY <2>6, ReadsAreNumbers DEF Keeps, PresentationInv, FacadeTyped, Reads
    <3>. QED
      BY <1>6, <3>1, DiscardKeeps
  <2>. QED
    BY <1>3, <2>5, <2>6, <2>7 DEF Keeps, SameIntent
<1>14. Good(z, k, 0)
  BY <1>7, <1>12, <1>13, PresentedGood
<1>15. Good(StreamsStopped(z), k, 0)
  BY <1>14, StreamsGood
<1>. QED
  BY <1>1, <1>8, <1>9, <1>15, BecomesGood DEF Passes

LEMMA ClearGood ==
    ASSUME DeliveryInv(World), NEW r \in Reads, Clear(r) \/ ClearFails(r)
    PROVE  Passes
<1>1. PICK k : Good(World, k, 0) /\ k.answering = {} /\ k.toHost = toHost
  BY WorldGood
<1>2. PICK w, x : w = World /\ x = Drained(w.streams)
  OBVIOUS
<1>3. PICK drained : drained = [w EXCEPT !.streams = x]
  OBVIOUS
<1>4. PICK u : u = [drained EXCEPT !.reads[r].phase = "starting"]
  OBVIOUS
<1>5. Good(w, k, 0) /\ Good(drained, k, 0)
  BY <1>1, <1>2, <1>3, FieldsGood
<1>6. Good(u, k, 0)
  <2>1. "starting" \notin Fresh
    BY DEF Fresh
  <2>. QED
    BY <1>4, <1>5, <2>1, PhaseGood
<1>7. PICK told : told = IF reads[r].continues = 0 THEN LoadingPublished(u, r) ELSE u
  OBVIOUS
<1>8. Good(told, k, 0)
  BY <1>6, <1>7, LoadingGood
<1>9. Good(ReadFailed(u, r), k, 0) /\ Good(ReadFailed(w, r), k, 0) /\ Good(StreamRequested(told, r), k, 0)
  BY <1>5, <1>6, <1>8, ReadFailedGood, StreamsGood
<1>10. [w EXCEPT !.streams = Drained(@), !.reads[r].phase = "starting"] = u
  BY <1>2, <1>3, <1>4
<1>11. Becomes(ReadFailed(u, r)) \/ Becomes(ReadFailed(w, r)) \/ Becomes(StreamRequested(told, r))
  BY <1>2, <1>7, <1>10 DEF Clear, ClearFails
<1>. QED
  BY <1>1, <1>9, <1>11, BecomesGood DEF Passes

LEMMA StopCommandGood ==
    ASSUME DeliveryInv(World), StopCommand
    PROVE  Passes
<1>1. PICK k : Good(World, k, 0) /\ k.answering = {} /\ k.toHost = toHost
  BY WorldGood
<1>2. PICK u : u = StreamStopped(Interrupted(Turned))
  OBVIOUS
<1>3. Good(u, k, 0)
  BY <1>1, <1>2, TurnedGood, InterruptedGood, StopGood
<1>4. PICK command : command = [state |-> "stopping", stop |-> u.facade.stopping]
  OBVIOUS
<1>5. Becomes([u EXCEPT !.stopCommand = command])
  BY <1>2, <1>4 DEF StopCommand
<1>6. Good([u EXCEPT !.stopCommand = command], k, 0)
  BY <1>3, FieldsGood
<1>. QED
  BY <1>1, <1>5, <1>6, BecomesGood DEF Passes

LEMMA ConnectionGood ==
    ASSUME DeliveryInv(World), ConnectionChanges
    PROVE  Passes
<1>1. PICK k : Good(World, k, 0) /\ k.answering = {} /\ k.toHost = toHost
  BY WorldGood
<1>2. PICK u : u = Invalidated(Interrupted(Turned))
  OBVIOUS
<1>3. Good(u, k, 0)
  BY <1>1, <1>2, TurnedGood, InterruptedGood, InvalidatedGood
<1>4. Good(Noted(StreamsStopped(u)), k, 0)
  BY <1>3, StreamsGood, NotedGood
<1>5. Becomes(Noted(StreamsStopped(u)))
  BY <1>2 DEF ConnectionChanges
<1>. QED
  BY <1>1, <1>4, <1>5, BecomesGood DEF Passes

LEMMA CommandGood ==
    ASSUME DeliveryInv(World), PresentationInv(World), CommandNext
    PROVE  Passes
  BY StartCommandGood, AdmitGood, ResumeGood, PreferGood, ClearGood, StopCommandGood, ConnectionGood
     DEF CommandNext

---------------------------------------------------------------------------
(* The session's answers and callbacks, and the timers.                    *)

LEMMA StreamOpensGood ==
    ASSUME DeliveryInv(World), NEW r \in Reads, StreamOpens(r)
    PROVE  Passes
<1>1. PICK k : Good(World, k, 0) /\ k.answering = {} /\ k.toHost = toHost
  BY WorldGood
<1>2. PICK w, x : w = World /\ x = [Drained(w.streams) EXCEPT ![r] = "open"]
  OBVIOUS
<1>3. Good([w EXCEPT !.streams = x], k, 0)
  BY <1>1, <1>2, FieldsGood
<1>4. Becomes([w EXCEPT !.streams = x])
  BY <1>2 DEF StreamOpens
<1>. QED
  BY <1>1, <1>3, <1>4, BecomesGood DEF Passes

\* A record more is queued, and the oldest are dropped beyond the depth.
LEMMA AppendedHolds ==
    ASSUME NEW read, IsRead(read), ReadHolds(read), read.phase \notin Fresh
    PROVE  LET queued == [Appended(read, read.received + 1) EXCEPT !.received = @ + 1]
           IN  IsRead(queued) /\ ReadHolds(queued)
<1>1. PICK queue, n, surplus :
         /\ queue = Append(read.queue, read.received + 1) /\ n = Len(queue)
         /\ surplus = IF n > QueueDepth THEN n - QueueDepth ELSE 0
  OBVIOUS
<1>2. read.queue \in Seq(Nat) /\ read.received \in Nat /\ read.dropped \in Nat /\ read.state \in States
  BY DEF ReadHolds
<1>3. queue \in Seq(Nat) /\ n \in Nat
  BY <1>1, <1>2
<1>4. surplus \in Nat /\ surplus <= n
  BY <1>1, <1>3, PresentationAssumption
<1>5. SubSeq(queue, surplus + 1, n) \in Seq(Nat)
  BY <1>1, <1>3, <1>4
<1>6. PICK some : some = SubSeq(queue, surplus + 1, n)
  OBVIOUS
<1>7. PICK queued : queued = [Appended(read, read.received + 1) EXCEPT !.received = @ + 1]
  OBVIOUS
<1>8. Appended(read, read.received + 1) = [read EXCEPT !.queue = some, !.dropped = @ + surplus]
  BY <1>1, <1>6 DEF Appended
<1>9. /\ IsRead(queued) /\ queued.queue = some /\ queued.received = read.received + 1
      /\ queued.dropped = read.dropped + surplus /\ queued.state = read.state /\ queued.phase = read.phase
  BY <1>7, <1>8 DEF IsRead
<1>10. queued.received \in Nat /\ queued.dropped \in Nat
  <2>1. PICK a, b : a = read.received /\ b = read.dropped
    OBVIOUS
  <2>2. a \in Nat /\ b \in Nat
    BY <1>2, <2>1
  <2>3. a + 1 \in Nat /\ b + surplus \in Nat
    BY <1>4, <2>2
  <2>. QED
    BY <1>9, <2>1, <2>3
<1>11. ReadHolds(queued)
  BY <1>2, <1>5, <1>6, <1>9, <1>10 DEF ReadHolds
<1>. QED
  BY <1>7, <1>9, <1>11

LEMMA MessagePublishedGood ==
    ASSUME NEW w, NEW k, NEW r \in Reads, Good(w, k, 0), PresentationInv(w)
    PROVE  Good(MessagePublished(w, r), k, 0)
<1>1. SUFFICES ASSUME w.facade.active = r PROVE Good(MessagePublished(w, r), k, 0)
  BY DEF MessagePublished
<1>2. w.reads[r].phase \notin Fresh
  BY <1>1, ReadsAreNumbers DEF PresentationInv, ActiveFits, Past, Fresh
<1>3. IsRead(w.reads[r]) /\ ReadHolds(w.reads[r])
  BY ReadsHold
<1>4. PICK read : read = [Appended(w.reads[r], w.reads[r].received + 1) EXCEPT !.received = @ + 1]
  OBVIOUS
<1>5. IsRead(read) /\ ReadHolds(read)
  BY <1>2, <1>3, <1>4, AppendedHolds
<1>6. PICK queued : queued = [w EXCEPT !.reads[r] = read]
  OBVIOUS
<1>7. Good(queued, k, r)
  <2>1. 0 \in {0, r} /\ r \in {0, r}
    OBVIOUS
  <2>. QED
    BY <1>5, <1>6, <2>1, ReadGood
<1>8. queued = [w EXCEPT !.reads[r] =
                    [Appended(w.reads[r], w.reads[r].received + 1) EXCEPT !.received = @ + 1]]
  BY <1>4, <1>6
<1>9. PICK told : /\ told \in {queued, StatePublished(queued, r, "running")}
                  /\ MessagePublished(w, r) = Scheduled(told, r)
  BY <1>1, <1>8 DEF MessagePublished
<1>10. Good(StatePublished(queued, r, "running"), k, r)
  BY <1>7, StatePublishedGood DEF States
<1>11. Good(told, k, r)
  BY <1>7, <1>9, <1>10
<1>12. Good(Scheduled(told, r), k, 0)
  <2>1. r \in {0, r}
    OBVIOUS
  <2>. QED
    BY <1>11, <2>1, ScheduledGood
<1>. QED
  BY <1>9, <1>12

LEMMA MessageGood ==
    ASSUME DeliveryInv(World), PresentationInv(World), NEW r \in Reads, MessageArrives(r)
    PROVE  Passes
<1>1. PICK k : Good(World, k, 0) /\ k.answering = {} /\ k.toHost = toHost
  BY WorldGood
<1>2. PICK u : u = LoadingPublished(World, r)
  OBVIOUS
<1>3. PresentationInv(u)
  BY <1>2, InvUsable, LoadingTold, ToldKeeps
<1>4. Good(u, k, 0)
  BY <1>1, <1>2, LoadingGood
<1>5. Good(MessagePublished(u, r), k, 0)
  BY <1>3, <1>4, MessagePublishedGood
<1>6. Becomes(MessagePublished(u, r))
  BY <1>2 DEF MessageArrives
<1>. QED
  BY <1>1, <1>5, <1>6, BecomesGood DEF Passes

LEMMA CoverageGood ==
    ASSUME DeliveryInv(World), NEW r \in Reads, CoverageArrives(r)
    PROVE  Passes
<1>1. PICK k : Good(World, k, 0) /\ k.answering = {} /\ k.toHost = toHost
  BY WorldGood
<1>2. PICK u, t : t = Turned /\ u = LoadingPublished(t, r)
  OBVIOUS
<1>3. Good(t, k, 0)
  BY <1>1, <1>2, TurnedGood
<1>4. Good(u, k, 0)
  BY <1>2, <1>3, LoadingGood
<1>5. PICK state : state = u.reads[r].state
  OBVIOUS
<1>6. state \in States
  BY <1>4, <1>5, ReadsHold DEF ReadHolds
<1>7. Good(StatePublished(u, r, state), k, 0)
  BY <1>4, <1>6, StatePublishedGood
<1>8. CoveragePublished(u, r) \in {u, StatePublished(u, r, state)}
  BY <1>5 DEF CoveragePublished
<1>9. Becomes(CoveragePublished(u, r))
  BY <1>2 DEF CoverageArrives
<1>. QED
  BY <1>1, <1>4, <1>7, <1>8, <1>9, BecomesGood DEF Passes

LEMMA NothingArrivesGood ==
    ASSUME DeliveryInv(World), NEW r \in Reads, NothingArrives(r)
    PROVE  Passes
<1>1. PICK k : Good(World, k, 0) /\ k.answering = {} /\ k.toHost = toHost
  BY WorldGood
<1>2. PICK w, u : w = World /\ u = Flushed(w, r, FALSE)
  OBVIOUS
<1>3. Good(u, k, 0)
  <2>1. 0 \in {0, r} /\ FALSE \in BOOLEAN
    OBVIOUS
  <2>. QED
    BY <1>1, <1>2, <2>1, FlushedGood
<1>4. Good(StatePublished(u, r, "empty"), k, 0)
  BY <1>3, StatePublishedGood DEF States
<1>5. Becomes(StatePublished(u, r, "empty"))
  BY <1>2 DEF NothingArrives
<1>. QED
  BY <1>1, <1>4, <1>5, BecomesGood DEF Passes

LEMMA StreamEndsGood ==
    ASSUME DeliveryInv(World), NEW r \in Reads, NEW terminal, NEW more, StreamEnds(r, terminal, more)
    PROVE  Passes
<1>1. PICK k : Good(World, k, 0) /\ k.answering = {} /\ k.toHost = toHost
  BY WorldGood
<1>2. PICK w, x : w = World /\ x = [w.streams EXCEPT ![r] = "closed"]
  OBVIOUS
<1>3. PICK u : u = [w EXCEPT !.streams = x]
  OBVIOUS
<1>4. Good(u, k, 0)
  BY <1>1, <1>2, <1>3, FieldsGood
<1>5. u = [World EXCEPT !.streams[r] = "closed"]
  BY <1>2, <1>3
<1>6. PICK ended, v : ended = Terminated(u, r, terminal, more) /\ v = [ended EXCEPT !.reads[r].phase = "over"]
  OBVIOUS
<1>7. Good(v, k, 0)
  <2>1. Good(ended, k, 0)
    BY <1>4, <1>6, TerminatedGood
  <2>2. "over" \notin Fresh
    BY DEF Fresh
  <2>. QED
    BY <1>6, <2>1, <2>2, PhaseGood
<1>8. PICK y, z : y = [u.streams EXCEPT ![r] = "ended"] /\ z = [u EXCEPT !.streams = y]
  OBVIOUS
<1>9. Good(z, k, 0)
  BY <1>4, <1>8, FieldsGood
<1>10. Good([z EXCEPT !.reads[r].terminal = terminal], k, 0)
  BY <1>9, TimersGood
<1>11. [u EXCEPT !.streams[r] = "ended", !.reads[r].terminal = terminal] = [z EXCEPT !.reads[r].terminal = terminal]
  BY <1>8
<1>12. Becomes(v) \/ Becomes([z EXCEPT !.reads[r].terminal = terminal])
  BY <1>5, <1>6, <1>11 DEF StreamEnds
<1>. QED
  BY <1>1, <1>7, <1>10, <1>12, BecomesGood DEF Passes

LEMMA StartAcceptedGood ==
    ASSUME DeliveryInv(World), NEW r \in Reads, NEW more, StartAccepted(r, more)
    PROVE  Passes
<1>1. PICK k : Good(World, k, 0) /\ k.answering = {} /\ k.toHost = toHost
  BY WorldGood
<1>2. PICK w, loaded : w = World /\ loaded = LoadingPublished(w, r)
  OBVIOUS
<1>3. PICK told : told = RunningPublished(loaded, r)
  OBVIOUS
<1>4. Good(told, k, 0)
  <2>1. Good(loaded, k, 0)
    BY <1>1, <1>2, LoadingGood
  <2>2. Good(StatePublished(loaded, r, "running"), k, 0)
    BY <2>1, StatePublishedGood DEF States
  <2>. QED
    BY <1>3, <2>1, <2>2 DEF RunningPublished
<1>5. PICK phase : phase = IF streams[r] = "open" THEN "running" ELSE "over"
  OBVIOUS
<1>6. PICK a, b : a = [told EXCEPT !.reads[r].phase = phase] /\ b = [a EXCEPT !.reads[r].sample = TRUE]
  OBVIOUS
<1>7. Good(a, k, 0)
  BY <1>4, <1>5, <1>6, PhaseGood DEF Fresh
<1>8. Good(b, k, 0)
  BY <1>6, <1>7, TimersGood
<1>9. b = [told EXCEPT !.reads[r].phase = phase, !.reads[r].sample = TRUE]
  BY <1>4, <1>6 DEF Good, Usable, IsWorld, HasFields
<1>10. PICK terminal : terminal = reads[r].terminal
  OBVIOUS
<1>11. Good(Terminated(b, r, terminal, more), k, 0) /\ Good(ReadFailed(w, r), k, 0)
  BY <1>1, <1>2, <1>8, TerminatedGood, ReadFailedGood
<1>12. Becomes(Terminated(b, r, terminal, more)) \/ Becomes(ReadFailed(w, r))
  BY <1>2, <1>3, <1>5, <1>9, <1>10 DEF StartAccepted
<1>. QED
  BY <1>1, <1>11, <1>12, BecomesGood DEF Passes

LEMMA StartFailsGood ==
    ASSUME DeliveryInv(World), NEW r \in Reads, StartFails(r)
    PROVE  Passes
<1>1. PICK k : Good(World, k, 0) /\ k.answering = {} /\ k.toHost = toHost
  BY WorldGood
<1>2. PICK w, x : w = World /\ x = [w.streams EXCEPT ![r] = "closed"]
  OBVIOUS
<1>3. PICK u : u = [w EXCEPT !.streams = x]
  OBVIOUS
<1>4. Good(ReadFailed(u, r), k, 0)
  BY <1>1, <1>2, <1>3, FieldsGood, ReadFailedGood
<1>5. u = [World EXCEPT !.streams[r] = "closed"]
  BY <1>2, <1>3
<1>6. Becomes(ReadFailed(u, r))
  BY <1>5 DEF StartFails
<1>. QED
  BY <1>1, <1>4, <1>6, BecomesGood DEF Passes

LEMMA TimerGood ==
    ASSUME DeliveryInv(World), TimerNext
    PROVE  Passes
<1>1. PICK k : Good(World, k, 0) /\ k.answering = {} /\ k.toHost = toHost
  BY WorldGood
<1>2. PICK r \in Reads : SampleTimer(r) \/ \E measured \in BOOLEAN : FlushTimer(r, measured)
  BY DEF TimerNext
<1>3. CASE SampleTimer(r)
  <2>1. PICK t, u : t = Turned /\ u = [t EXCEPT !.reads[r].sample = FALSE]
    OBVIOUS
  <2>2. Good(t, k, 0)
    BY <1>1, <2>1, TurnedGood
  <2>3. Good(u, k, 0)
    BY <2>1, <2>2, TimersGood
  <2>4. Good(MetricsPublished(u, r), k, 0)
    BY <2>3, MetricsPublishedGood
  <2>5. Becomes(u) \/ Becomes(MetricsPublished(u, r))
    BY <1>3, <2>1 DEF SampleTimer
  <2>. QED
    BY <1>1, <2>3, <2>4, <2>5, BecomesGood DEF Passes
<1>4. ASSUME NEW measured \in BOOLEAN, FlushTimer(r, measured) PROVE Passes
  <2>1. PICK t, u : t = (IF measured THEN Turned ELSE World) /\ u = [t EXCEPT !.reads[r].flush = FALSE]
    OBVIOUS
  <2>2. Good(t, k, 0) /\ t.facade = facade
    BY <1>1, <2>1, TurnedGood DEF Turned, World
  <2>3. Good(u, k, r) /\ u.facade = t.facade
    <3>1. 0 \in {0, r}
      OBVIOUS
    <3>2. Good(u, k, r)
      BY <2>1, <2>2, <3>1, TimersGood
    <3>. QED
      BY <2>1, <2>2, <3>2 DEF Good, Usable, IsWorld, HasFields
  <2>4. Good(Flushed(u, r, measured), k, 0)
    <3>1. r \in {0, r}
      OBVIOUS
    <3>. QED
      BY <2>3, <3>1, FlushedGood
  <2>5. Becomes(IF facade.active = r THEN Flushed(u, r, measured) ELSE u)
    BY <1>4, <2>1 DEF FlushTimer
  <2>6. facade.active # r => Good(u, k, 0)
    BY <2>2, <2>3, LooseEmpty
  <2>. QED
    BY <1>1, <2>4, <2>5, <2>6, BecomesGood DEF Passes
<1>. QED
  BY <1>2, <1>3, <1>4

---------------------------------------------------------------------------
(* A stop ends: until its recovery is answered, it counts as running.      *)

LEMMA HostSame ==
    ASSUME NEW w, NEW k, NEW host, NEW loose, Good(w, k, loose), host.transport = k.transport,
           host.toHost = k.toHost, Answered(w, host.answering)
    PROVE  Good(w, host, loose)
  BY DEF Good, Delivering

LEMMA EndingGood ==
    ASSUME NEW w, NEW k, Good(w, k, 0), k.answering = {}, NEW stop, NEW host, host.transport = k.transport,
           host.toHost = k.toHost, host.answering = {stop}
    PROVE  Good([w EXCEPT !.facade.stops = @ \ {stop}], host, 0)
<1>1. PICK g : g = [w.facade EXCEPT !.stops = @ \ {stop}]
  OBVIOUS
<1>2. PICK v : v = [w EXCEPT !.facade = g]
  OBVIOUS
<1>3. IsWorld(w) /\ HasFields(w) /\ FacadeTyped(w.facade) /\ IsFacade(w.facade)
  BY DEF Good, Usable, IsWorld
<1>4. /\ IsFacade(g) /\ g.active = w.facade.active /\ g.paused = w.facade.paused
      /\ g.sequence = w.facade.sequence /\ g.stops = w.facade.stops \ {stop} /\ FacadeTyped(g)
  BY <1>1, <1>3 DEF IsFacade, FacadeTyped
<1>5. IsWorld(v) /\ v.facade = g /\ v.reads = w.reads /\ SameDelivery(w, v)
  BY <1>2, <1>3, <1>4, FacadeApart
<1>6. Delivering(v, k)
  BY <1>5, DeliveringSame DEF Good
<1>7. Delivering(v, host)
  BY <1>6 DEF Delivering
<1>8. Answered(v, host.answering)
  BY <1>4, <1>5 DEF Answered, Good, SameDelivery
<1>9. Good(v, host, 0)
  BY <1>4, <1>5, <1>7, <1>8 DEF Good, Usable, ReadsFit, Flows
<1>10. [w EXCEPT !.facade.stops = @ \ {stop}] = v
  BY <1>1, <1>2
<1>. QED
  BY <1>9, <1>10

LEMMA ReadStoppedGood ==
    ASSUME NEW w, NEW k, NEW r \in Reads, Good(w, k, 0), NEW confirmed \in BOOLEAN, NEW more
    PROVE  Good(ReadStopped(w, r, confirmed, more), k, 0)
<1>1. PICK known, done : known = (confirmed /\ more) /\ done = Finished(FlushedWhole(w, r), r, known)
  OBVIOUS
<1>2. Good(FlushedWhole(w, r), k, 0)
  <2>1. 0 \in {0, r}
    OBVIOUS
  <2>. QED
    BY <2>1, FlushedWholeGood
<1>3. Good(done, k, 0)
  BY <1>1, <1>2, FinishedGood
<1>4. PICK state \in States : state = IF confirmed THEN "stopped" ELSE "failed"
  BY DEF States
<1>5. ReadStopped(w, r, confirmed, more) = StatePublished(done, r, state)
  BY <1>1, <1>4 DEF ReadStopped
<1>. QED
  BY <1>3, <1>5, StatePublishedGood

LEMMA StopPublishedGood ==
    ASSUME NEW w, NEW k, Good(w, k, 0), NEW stop \in Stop, NEW confirmed \in BOOLEAN, NEW more
    PROVE  Good(StopPublished(w, stop, confirmed, more), k, 0)
<1>1. PICK nothing : nothing = [NoEvent EXCEPT !.kind = "state", !.state = "stopped"]
  OBVIOUS
<1>2. nothing \in Event
  <2>1. <<>> \in Seq(Nat) /\ 0 \in Nat /\ 0 \in 0 .. MaxReads
    BY ReadsAreNumbers
  <2>2. nothing = [kind |-> "state", read |-> 0, state |-> "stopped", received |-> 0, dropped |-> 0,
                   records |-> <<>>, seq |-> 0]
    BY <1>1 DEF NoEvent
  <2>. QED
    BY <2>1, <2>2 DEF Event, Kinds, States
<1>3. PICK told, ended : told = Publish(w, nothing) /\ ended = ReadStopped(w, stop.read, confirmed, more)
  OBVIOUS
<1>4. Good(told, k, 0)
  BY <1>2, <1>3, PublishGood
<1>5. stop.read # 0 => Good(ended, k, 0)
  <2>1. stop.read # 0 => stop.read \in Reads
    BY ReadsAreNumbers DEF Stop, Reads
  <2>. QED
    BY <1>3, <2>1, ReadStoppedGood
<1>6. ASSUME NEW u, Good(u, k, 0) PROVE Good(StopReleased(u, stop), k, 0)
  <2>1. NoStop \in Stop
    BY <1>6, OwnerTyped
  <2>2. Good([u EXCEPT !.facade.stopping = NoStop], k, 0)
    BY <1>6, <2>1, OwnersGood
  <2>. QED
    BY <1>6, <2>2 DEF StopReleased
<1>7. \/ StopPublished(w, stop, confirmed, more) \in {w, StopReleased(told, stop)}
      \/ stop.read # 0 /\ StopPublished(w, stop, confirmed, more) \in {ended, StopReleased(ended, stop)}
  BY <1>1, <1>3 DEF StopPublished
<1>. QED
  BY <1>4, <1>5, <1>6, <1>7

LEMMA CommandStoppedGood ==
    ASSUME NEW w, NEW k, Good(w, k, 0), NEW stop
    PROVE  Good(CommandStopped(w, stop), k, 0)
<1>1. PICK x, v : x = NoCommand /\ v = [w EXCEPT !.stopCommand = x]
  OBVIOUS
<1>2. Good(Noted(v), k, 0)
  BY <1>1, FieldsGood, NotedGood
<1>3. CommandStopped(w, stop) \in {w, Noted(v)}
  BY <1>1 DEF CommandStopped
<1>. QED
  BY <1>2, <1>3

LEMMA ReportTyped ==
    ASSUME NEW n \in Nat
    PROVE  LET report == [NoEvent EXCEPT !.kind = "note", !.seq = n]
           IN  report \in Event /\ report.seq = n
<1>1. PICK report : report = [NoEvent EXCEPT !.kind = "note", !.seq = n]
  OBVIOUS
<1>2. <<>> \in Seq(Nat) /\ 0 \in Nat /\ 0 \in 0 .. MaxReads
  BY ReadsAreNumbers
<1>3. report = [kind |-> "note", read |-> 0, state |-> "none", received |-> 0, dropped |-> 0,
                records |-> <<>>, seq |-> n]
  BY <1>1 DEF NoEvent
<1>4. report \in Event
  BY <1>2, <1>3 DEF Event, Kinds, States
<1>. QED
  BY <1>1, <1>3, <1>4

\* The report of a recovery takes the number after the last event's.
LEMMA ReportedGood ==
    ASSUME NEW w, NEW k, Good(w, k, 0), k.transport = "desktop", w.route.recovery = "pending",
           NEW x \in {"confirmed", "failed"}, NEW report,
           report = [NoEvent EXCEPT !.kind = "note", !.seq = w.route.lastSequence + 1]
    PROVE  Good([Noted(w) EXCEPT !.route.recovery = x, !.route.lastSequence = @ + 1,
                                 !.toRenderer = Append(@, report)], k, 0)
<1>1. /\ IsWorld(w) /\ HasFields(w) /\ DesktopFits(w) /\ ClientFits(w.clients[Desktop])
      /\ w.clients \in [Clients -> Client]
      /\ w.route \in Route /\ w.route.transport = "desktop" /\ w.route.lastSequence \in Nat
      /\ w.facade.sequence \in Nat
  BY DesktopHas
<1>2. w.clients[Desktop] = NoClient /\ w.route.subscribed = FALSE
  <2>1. ~w.clients[Desktop].open
    BY <1>1 DEF DesktopFits
  <2>2. w.clients[Desktop] = NoClient
    BY <1>1, <2>1 DEF ClientFits
  <2>. QED
    BY <1>1, <2>2 DEF DesktopFits, NoClient
<1>3. PICK noted : noted = [w EXCEPT !.facade.sequence = @ + 1]
  OBVIOUS
<1>4. Noted(w) = noted
  BY <1>1, <1>2, <1>3 DEF Noted, Publish
<1>5. /\ Good(noted, k, 0) /\ noted.route = w.route /\ noted.facade.sequence = w.facade.sequence + 1
  BY <1>3, SequenceGood
<1>6. /\ noted.clients = w.clients /\ noted.toRenderer = w.toRenderer /\ noted.toHost = w.toHost
      /\ HasFields(noted) /\ noted.facade.paused = w.facade.paused
  BY <1>1, <1>3 DEF HasFields, IsWorld, IsFacade
<1>7. PICK path, some : /\ path = [w.route EXCEPT !.recovery = x, !.lastSequence = @ + 1]
                        /\ some = Append(w.toRenderer, report)
  OBVIOUS
<1>8. PICK v : v = [noted EXCEPT !.route.recovery = x, !.route.lastSequence = @ + 1,
                                 !.toRenderer = Append(@, report)]
  OBVIOUS
<1>9. /\ HasFields(v) /\ v.reads = noted.reads /\ v.facade = noted.facade /\ v.clients = w.clients
      /\ v.route = path /\ v.toRenderer = some /\ v.toHost = w.toHost
  BY <1>5, <1>6, <1>7, <1>8 DEF HasFields
<1>10. PICK last : last = w.route.lastSequence
  OBVIOUS
<1>11. last \in Nat /\ last + 1 \in Nat
  BY <1>1, <1>10
<1>12. /\ path \in Route /\ path.transport = "desktop" /\ path.subscribed = FALSE /\ path.recovery = x
       /\ path.lastSequence = last + 1
  BY <1>1, <1>2, <1>7, <1>10, <1>11 DEF Route, Recoveries
<1>13. last + 1 <= v.facade.sequence /\ v.facade.sequence \in Nat
  <2>1. PICK s : s = w.facade.sequence
    OBVIOUS
  <2>2. s \in Nat /\ last <= s
    BY <1>1, <1>10, <2>1 DEF DesktopFits
  <2>3. last + 1 <= s + 1 /\ s + 1 \in Nat
    BY <1>11, <2>2
  <2>. QED
    BY <1>5, <1>9, <2>1, <2>3
<1>14. report \in Event /\ report.seq = last + 1
  BY <1>10, <1>11, ReportTyped
<1>15. Ordered(w.toRenderer, w.toHost, <<>>, last)
  BY <1>1, <1>2, <1>10, NoClientFits DEF DesktopFits
<1>16. Ordered(some, w.toHost, <<>>, last + 1)
  BY <1>7, <1>11, <1>14, <1>15, OrderedReported
<1>17. PICK client : client = NoClient
  OBVIOUS
<1>18. /\ ClientFits(client) /\ client.queue.pending = <<>> /\ client.write = "none" /\ ~client.blocked
       /\ client.paused = FALSE /\ client.open = FALSE
  BY <1>17, NoClientFits DEF NoClient
<1>19. v.clients = [noted.clients EXCEPT ![Desktop] = client]
  BY <1>1, <1>2, <1>6, <1>9, <1>17
<1>20. v.facade.paused = client.paused
  BY <1>1, <1>2, <1>6, <1>9, <1>17 DEF DesktopFits
<1>21. DesktopHolds(noted, v, client)
  BY <1>6, <1>9, <1>12, <1>13, <1>16, <1>18, <1>19, <1>20 DEF DesktopHolds
<1>22. Usable(v) /\ ReadsFit(v) /\ Flows(v, 0)
  BY <1>5, <1>9 DEF Good, Usable, IsWorld, ReadsFit, Flows
<1>23. Answered(v, k.answering)
  BY <1>9, <1>12 DEF Answered
<1>24. Good(v, k, 0)
  BY <1>5, <1>21, <1>22, <1>23, DesktopGood
<1>. QED
  BY <1>4, <1>8, <1>24

\* The route of the web host recovers, or refuses from then on.
LEMMA WebRecoveredGood ==
    ASSUME NEW w, NEW k, Good(w, k, 0), k.transport = "web", NEW x \in {"none", "failed"}
    PROVE  Good([w EXCEPT !.route.recovery = x], k, 0)
<1>1. PICK path : path = [w.route EXCEPT !.recovery = x]
  OBVIOUS
<1>2. PICK v : v = [w EXCEPT !.route = path]
  OBVIOUS
<1>3. IsWorld(w) /\ HasFields(w) /\ WebFits(w) /\ Delivering(w, k)
  BY WebHas
<1>4. /\ HasFields(v) /\ v.reads = w.reads /\ v.facade = w.facade /\ v.clients = w.clients /\ v.route = path
      /\ v.toRenderer = w.toRenderer /\ v.toHost = w.toHost
  BY <1>2, <1>3 DEF HasFields
<1>5. path \in Route /\ path.transport = "web" /\ path.recovery = x
  BY <1>1, <1>3 DEF Delivering, Route, Recoveries
<1>6. Delivering(v, k)
  BY <1>3, <1>4, <1>5 DEF Delivering, WebFits
<1>7. Usable(v) /\ ReadsFit(v) /\ Flows(v, 0) /\ Answered(v, k.answering)
  BY <1>4, <1>5 DEF Good, Usable, IsWorld, ReadsFit, Flows, Answered
<1>8. Good(v, k, 0)
  BY <1>6, <1>7 DEF Good
<1>9. [w EXCEPT !.route.recovery = x] = v
  BY <1>1, <1>2
<1>. QED
  BY <1>8, <1>9

LEMMA RecoveredGood ==
    ASSUME NEW w, NEW k, NEW stop, NEW confirmed \in BOOLEAN, Good(w, k, 0), k.answering = {stop},
           k.transport = route.transport,
           NEW host, host.transport = k.transport, host.toHost = k.toHost, host.answering = {}
    PROVE  Good(Recovered(w, stop, confirmed), host, 0)
<1>1. CASE w.route.recovery # "pending" \/ w.route.stop # stop
  <2>1. Recovered(w, stop, confirmed) = w
    BY <1>1 DEF Recovered
  <2>2. Answered(w, host.answering)
    BY <1>1 DEF Good, Answered
  <2>. QED
    BY <2>1, <2>2, HostSame
<1>2. CASE w.route.recovery = "pending" /\ w.route.stop = stop /\ k.transport = "desktop"
  <2>1. PICK x, report : /\ x = (IF confirmed THEN "confirmed" ELSE "failed")
                         /\ report = [NoEvent EXCEPT !.kind = "note", !.seq = w.route.lastSequence + 1]
    OBVIOUS
  <2>2. x \in {"confirmed", "failed"}
    BY <2>1
  <2>3. PICK v : v = [Noted(w) EXCEPT !.route.recovery = x, !.route.lastSequence = @ + 1,
                                      !.toRenderer = Append(@, report)]
    BY SMTT(20)
  <2>4. Good(v, k, 0)
    BY <1>2, <2>1, <2>2, <2>3, ReportedGood
  <2>5. IsDesktop
    BY <1>2 DEF IsDesktop
  <2>6. Recovered(w, stop, confirmed) = v
    BY <1>2, <2>1, <2>3, <2>5 DEF Recovered
  <2>7. v.route.recovery = x
    <3>1. Good(Noted(w), k, 0)
      BY NotedGood
    <3>2. HasFields(Noted(w)) /\ Noted(w).route \in Route
      BY <3>1 DEF Good, Usable, IsWorld, Delivering
    <3>3. PICK noted : noted = Noted(w)
      OBVIOUS
    <3>4. HasFields(noted) /\ noted.route \in Route
      BY <3>2, <3>3
    <3>5. v.route = [noted.route EXCEPT !.recovery = x, !.lastSequence = @ + 1]
      BY <2>3, <3>3, <3>4 DEF HasFields
    <3>. QED
      BY <3>4, <3>5 DEF Route
  <2>8. Answered(v, host.answering)
    BY <2>2, <2>7 DEF Answered
  <2>. QED
    BY <2>4, <2>6, <2>8, HostSame
<1>3. CASE w.route.recovery = "pending" /\ w.route.stop = stop /\ k.transport = "web"
  <2>1. PICK x : x = (IF confirmed THEN "none" ELSE "failed")
    OBVIOUS
  <2>2. x \in {"none", "failed"}
    BY <2>1
  <2>3. PICK noted : noted = Noted(w)
    OBVIOUS
  <2>4. Good(noted, k, 0)
    BY <2>3, NotedGood
  <2>5. PICK v : v = [noted EXCEPT !.route.recovery = x]
    OBVIOUS
  <2>6. Good(v, k, 0)
    BY <1>3, <2>2, <2>4, <2>5, WebRecoveredGood
  <2>7. ~IsDesktop
    BY <1>3 DEF IsDesktop
  <2>8. Recovered(w, stop, confirmed) = v
    BY <1>3, <2>1, <2>3, <2>5, <2>7 DEF Recovered
  <2>9. v.route.recovery = x
    <3>1. HasFields(noted) /\ noted.route \in Route
      BY <2>4 DEF Good, Usable, IsWorld, Delivering
    <3>. QED
      BY <2>5, <3>1 DEF HasFields, Route
  <2>10. Answered(v, host.answering)
    BY <2>2, <2>9 DEF Answered
  <2>. QED
    BY <2>6, <2>8, <2>10, HostSame
<1>. QED
  BY <1>1, <1>2, <1>3, TransportIs

LEMMA StopEndsGood ==
    ASSUME DeliveryInv(World), NEW stop, NEW confirmed \in BOOLEAN, NEW more, StopEnds(stop, confirmed, more)
    PROVE  Passes
<1>1. PICK k : /\ Good(World, k, 0) /\ k.answering = {} /\ k.transport = route.transport /\ k.toHost = toHost
  BY WorldGood
<1>2. PICK w : w = IF confirmed THEN World ELSE Turned
  OBVIOUS
<1>3. Good(w, k, 0) /\ w.facade = facade
  BY <1>1, <1>2, TurnedGood DEF Turned, World
<1>4. stop \in Stop
  BY <1>3, OwnerTyped DEF StopEnds
<1>5. PICK host, ending : /\ host = [transport |-> k.transport, toHost |-> k.toHost, answering |-> {}]
                          /\ ending = [transport |-> k.transport, toHost |-> k.toHost, answering |-> {stop}]
  OBVIOUS
<1>6. /\ host.transport = k.transport /\ host.toHost = k.toHost /\ host.answering = {}
      /\ ending.transport = k.transport /\ ending.toHost = k.toHost /\ ending.answering = {stop}
  BY <1>5
<1>7. PICK u : u = [w EXCEPT !.facade.stops = @ \ {stop}]
  OBVIOUS
<1>8. Good(u, ending, 0)
  BY <1>1, <1>3, <1>6, <1>7, EndingGood
<1>9. PICK x : x = IF confirmed THEN Drained(w.streams) ELSE w.streams
  OBVIOUS
<1>10. PICK done : done = [u EXCEPT !.streams = x]
  OBVIOUS
<1>11. Good(done, ending, 0)
  BY <1>8, <1>10, FieldsGood
<1>12. done = [w EXCEPT !.facade.stops = @ \ {stop}, !.streams = IF confirmed THEN Drained(@) ELSE @]
  BY <1>3, <1>7, <1>9, <1>10 DEF Good, Usable, IsWorld, HasFields
<1>13. PICK told, noted : /\ told = StopPublished(done, stop, confirmed, more)
                          /\ noted = CommandStopped(told, stop)
  OBVIOUS
<1>14. Good(told, ending, 0)
  BY <1>4, <1>11, <1>13, StopPublishedGood
<1>15. Good(noted, ending, 0)
  BY <1>13, <1>14, CommandStoppedGood
<1>16. Good(Recovered(noted, stop, confirmed), host, 0)
  BY <1>1, <1>6, <1>15, RecoveredGood
<1>17. Becomes(Recovered(noted, stop, confirmed))
  BY <1>2, <1>12, <1>13 DEF StopEnds
<1>. QED
  BY <1>1, <1>6, <1>16, <1>17, BecomesGood DEF Passes

LEMMA SessionGood ==
    ASSUME DeliveryInv(World), PresentationInv(World), SessionNext
    PROVE  Passes
  BY StreamOpensGood, MessageGood, CoverageGood, NothingArrivesGood, StreamEndsGood,
     StartAcceptedGood, StartFailsGood, StopEndsGood DEF SessionNext

---------------------------------------------------------------------------
(* The invariant of the delivery holds in every state.                     *)

LEMMA IdleGood ==
    ASSUME NEW idle, IsWorld(idle), FacadeTyped(idle.facade), NEW transport \in {"desktop", "web"},
           idle.reads = [r \in Reads |-> NoRead], idle.facade = IdleFacade,
           idle.clients = [c \in Clients |-> NoClient],
           idle.route = [NoRoute EXCEPT !.transport = transport],
           idle.toRenderer = <<>>, idle.toHost = <<>>,
           NEW k, k.transport = transport, k.toHost = <<>>
    PROVE  Good(idle, k, 0)
<1>1. /\ idle.facade.paused = FALSE /\ idle.facade.sequence = 0 /\ idle.facade.active = 0
      /\ idle.facade.stops = {}
  BY DEF IdleFacade
<1>2. NoStop \in Stop
  BY PresentationAssumption DEF NoStop, Stop
<1>3. PICK path : path = idle.route
  OBVIOUS
<1>4. /\ path = [transport |-> transport, subscribed |-> FALSE, lastSequence |-> 0,
                 recovery |-> "none", stop |-> NoStop]
  BY <1>3 DEF NoRoute
<1>5. /\ path \in Route /\ path.transport = transport /\ path.subscribed = FALSE /\ path.lastSequence = 0
      /\ path.recovery = "none"
  BY <1>2, <1>4 DEF Route, Recoveries
<1>6. \A c \in Clients : idle.clients[c] = NoClient
  OBVIOUS
<1>7. idle.clients \in [Clients -> Client] /\ \A c \in Clients : ClientFits(idle.clients[c])
  <2>1. NoClient \in Client
    BY NoClientFits DEF ClientFits
  <2>. QED
    BY <1>6, <2>1, NoClientFits
<1>8. ReadsFit(idle)
  <2>1. ReadHolds(NoRead)
    <3>1. <<>> \in Seq(Nat) /\ 0 \in Nat
      OBVIOUS
    <3>. QED
      BY <3>1 DEF ReadHolds, NoRead, States
  <2>. QED
    BY <2>1 DEF ReadsFit
<1>9. Flows(idle, 0) /\ Answered(idle, k.answering)
  BY <1>1, <1>3, <1>5 DEF Flows, Answered
<1>10. WebFits(idle)
  BY <1>1, <1>6 DEF WebFits, NoClient
<1>11. DesktopFits(idle)
  <2>1. idle.clients[Desktop] = NoClient /\ NoClient.queue.pending = <<>>
    BY <1>6, DesktopIsClient, NoClientFits, SMTT(20)
  <2>2. Ordered(<<>>, <<>>, <<>>, 0)
    <3>1. <<>> \in Seq(Event) /\ <<>> \in Seq(Nat) /\ Len(<<>>) = 0
      OBVIOUS
    <3>. QED
      BY <3>1 DEF Ordered, Increasing, Rising
  <2>3. PICK client : client = idle.clients[Desktop]
    OBVIOUS
  <2>4. /\ client.write = "none" /\ client.blocked = FALSE /\ client.paused = FALSE /\ client.open = FALSE
        /\ client.queue.pending = <<>>
    BY <2>1, <2>3 DEF NoClient
  <2>5. idle.route.lastSequence <= idle.facade.sequence
    BY <1>1, <1>3, <1>5
  <2>6. Ordered(idle.toRenderer, idle.toHost, client.queue.pending, idle.route.lastSequence)
    BY <1>3, <1>5, <2>2, <2>4
  <2>7. idle.facade.paused = client.paused /\ idle.route.subscribed = client.open
    BY <1>1, <1>3, <1>5, <2>4
  <2>8. idle.route.recovery \notin {"pending", "failed"}
    BY <1>3, <1>5
  <2>. QED
    BY <1>6, <2>3, <2>4, <2>5, <2>6, <2>7, <2>8 DEF DesktopFits
<1>12. Delivering(idle, k)
  <2>1. idle.route \in Route /\ idle.route.transport = k.transport
    BY <1>3, <1>5
  <2>2. idle.facade.sequence \in Nat
    BY <1>1
  <2>3. idle.facade.paused \in BOOLEAN
    BY <1>1, Zenon
  <2>. QED
    BY <1>7, <1>10, <1>11, <2>1, <2>2, <2>3 DEF Delivering
<1>. QED
  BY <1>8, <1>9, <1>12 DEF Good, Usable

LEMMA InitGood == Init => DeliveryInv(World)
<1>1. SUFFICES ASSUME Init PROVE DeliveryInv(World)
  OBVIOUS
<1>2. PICK transport \in {"desktop", "web"}, some \in Bounds :
         LET idle == [reads |-> [r \in Reads |-> NoRead], facade |-> IdleFacade,
                      streams |-> [r \in Reads |-> "none"],
                      clients |-> [c \in Clients |-> NoClient],
                      route |-> [NoRoute EXCEPT !.transport = transport],
                      toRenderer |-> <<>>, toHost |-> <<>>,
                      listening |-> transport = "desktop",
                      shown |-> [c \in Clients |-> NothingShown], stopCommand |-> NoCommand,
                      bounds |-> some]
         IN \E w \in {IF transport = "desktop" THEN Subscribed(idle) ELSE idle} :
               /\ reads = w.reads /\ facade = w.facade /\ streams = w.streams
               /\ clients = w.clients /\ route = w.route
               /\ toRenderer = w.toRenderer /\ toHost = w.toHost
               /\ listening = w.listening /\ shown = w.shown
               /\ stopCommand = w.stopCommand /\ bounds = w.bounds
  BY <1>1 DEF Init
<1>3. PICK idle : idle = [reads |-> [r \in Reads |-> NoRead], facade |-> IdleFacade,
                          streams |-> [r \in Reads |-> "none"],
                          clients |-> [c \in Clients |-> NoClient],
                          route |-> [NoRoute EXCEPT !.transport = transport],
                          toRenderer |-> <<>>, toHost |-> <<>>,
                          listening |-> transport = "desktop",
                          shown |-> [c \in Clients |-> NothingShown], stopCommand |-> NoCommand,
                          bounds |-> some]
  OBVIOUS
<1>4. PICK w : /\ w = (IF transport = "desktop" THEN Subscribed(idle) ELSE idle)
               /\ reads = w.reads /\ facade = w.facade /\ streams = w.streams
               /\ clients = w.clients /\ route = w.route
               /\ toRenderer = w.toRenderer /\ toHost = w.toHost
               /\ listening = w.listening /\ shown = w.shown
               /\ stopCommand = w.stopCommand /\ bounds = w.bounds
  BY <1>2, <1>3
<1>5. /\ HasFields(idle) /\ idle.reads = [r \in Reads |-> NoRead] /\ idle.facade = IdleFacade
      /\ idle.clients = [c \in Clients |-> NoClient]
      /\ idle.route = [NoRoute EXCEPT !.transport = transport]
      /\ idle.toRenderer = <<>> /\ idle.toHost = <<>>
  BY <1>3 DEF HasFields
<1>6. IsWorld(idle) /\ FacadeTyped(idle.facade)
  <2>1. IsRead(NoRead) /\ IsFacade(IdleFacade)
    BY DEF IsRead, NoRead, IsFacade, IdleFacade
  <2>2. NoStop \in Stop /\ 0 \in 0 .. MaxReads /\ 0 \in Nat /\ {} \subseteq Stop
    BY PresentationAssumption DEF NoStop, Stop
  <2>3. FacadeTyped(IdleFacade)
    BY <2>2 DEF FacadeTyped, IdleFacade
  <2>. QED
    BY <1>5, <2>1, <2>3 DEF IsWorld
<1>7. PICK k : k = [transport |-> transport, toHost |-> <<>>, answering |-> {}]
  OBVIOUS
<1>8. k.transport = transport /\ k.toHost = <<>> /\ k.answering = {}
  BY <1>7
<1>9. Good(idle, k, 0)
  BY <1>5, <1>6, <1>8, IdleGood
<1>10. Good(w, k, 0)
  BY <1>4, <1>8, <1>9, SubscribedGood
<1>11. DeliveryInv(w)
  BY <1>8, <1>10, HostOf
<1>12. w = World
  BY <1>4, <1>10 DEF World, Good, Usable, IsWorld, HasFields
<1>. QED
  BY <1>11, <1>12

LEMMA NextGood ==
    ASSUME DeliveryInv(World), PresentationInv(World), [Next]_vars
    PROVE  DeliveryInv(World)'
<1>1. CASE UNCHANGED vars
  <2>1. World' = World
    BY <1>1 DEF World, vars
  <2>2. PICK w : w = World
    OBVIOUS
  <2>3. DeliveryInv(w) /\ w = World'
    BY <2>1, <2>2
  <2>. QED
    BY <2>3
<1>2. CASE Next
  BY <1>2, RendererGood, ClientNextGood, CommandGood, SessionGood, TimerGood DEF Next, Passes
<1>. QED
  BY <1>1, <1>2

\* The queues, the numbers of the events and what the reads have to show are
\* sound, in every state.
THEOREM DeliveryInvariant == Spec => []DeliveryInv(World)
<1>1. PresentationInv(World) /\ DeliveryInv(World) /\ [Next]_vars => DeliveryInv(World)'
  BY NextGood
<1>. QED
  BY <1>1, InitGood, PresentationInvariant, PTL DEF Spec

---------------------------------------------------------------------------
(* What the delivery promises.                                             *)

\* The costs of entries are those of their events.
LEMMA CostIs ==
    ASSUME NEW entries \in Seq(Entry), NEW drops, \A i \in 1 .. Len(entries) : EntryFits(entries[i], drops)
    PROVE  /\ Cost(ByteCost, entries) = SumOf([i \in 1 .. Len(entries) |-> EventBytes(entries[i].event)])
           /\ Cost(CountCost, entries) = SumOf([i \in 1 .. Len(entries) |-> Len(entries[i].event.records)])
           /\ Cost(SizeCost, entries) = SumOf([i \in 1 .. Len(entries) |-> SizeOf(entries[i].event.records)])
<1>1. \A i \in 1 .. Len(entries) :
         /\ entries[i] \in Entry /\ ByteCost[entries[i]] = EventBytes(entries[i].event)
         /\ CountCost[entries[i]] = Len(entries[i].event.records)
         /\ SizeCost[entries[i]] = SizeOf(entries[i].event.records)
  <2>1. SUFFICES ASSUME NEW i \in 1 .. Len(entries), NEW entry, entry = entries[i]
                 PROVE  /\ entry \in Entry /\ ByteCost[entry] = EventBytes(entry.event)
                        /\ CountCost[entry] = Len(entry.event.records)
                        /\ SizeCost[entry] = SizeOf(entry.event.records)
    OBVIOUS
  <2>2. entry \in Entry
    BY <2>1
  <2>3. entry.bytes = EventBytes(entry.event)
    BY <2>1 DEF EntryFits
  <2>. QED
    BY <2>2, <2>3, CostsTyped
<1>2. [i \in 1 .. Len(entries) |-> ByteCost[entries[i]]]
         = [i \in 1 .. Len(entries) |-> EventBytes(entries[i].event)]
  BY <1>1
<1>3. [i \in 1 .. Len(entries) |-> CountCost[entries[i]]]
         = [i \in 1 .. Len(entries) |-> Len(entries[i].event.records)]
  BY <1>1
<1>4. [i \in 1 .. Len(entries) |-> SizeCost[entries[i]]]
         = [i \in 1 .. Len(entries) |-> SizeOf(entries[i].event.records)]
  BY <1>1
<1>. QED
  BY <1>2, <1>3, <1>4 DEF Cost

\* What is in two sequences is in one of them.
LEMMA JoinedFrom ==
    ASSUME NEW S, NEW p \in Seq(S), NEW q \in Seq(S), NEW i \in 1 .. Len(p \o q)
    PROVE  \/ \E j \in 1 .. Len(p) : (p \o q)[i] = p[j]
           \/ \E j \in 1 .. Len(q) : (p \o q)[i] = q[j]
<1>1. CASE i <= Len(p)
  BY <1>1
<1>2. CASE ~(i <= Len(p))
  <2>1. PICK n \in Nat, m \in Nat : n = Len(p) /\ m = Len(q)
    OBVIOUS
  <2>2. i \in 1 .. n + m /\ ~(i <= n)
    BY <1>2, <2>1
  <2>3. PICK j : j = i - n
    OBVIOUS
  <2>4. j \in 1 .. m /\ i = n + j
    <3>1. n \in Nat /\ m \in Nat
      BY <2>1
    <3>. QED
      BY <2>2, <2>3, <3>1
  <2>5. (p \o q)[i] = q[i - Len(p)]
    BY <1>2
  <2>. QED
    BY <2>1, <2>3, <2>4, <2>5
<1>. QED
  BY <1>1, <1>2

\* What is being written and what waits cost what they cost together.
LEMMA CostsJoin ==
    ASSUME NEW f \in [Entry -> Nat], NEW p \in Seq(Entry), NEW q \in Seq(Entry)
    PROVE  Cost(f, p \o q) = Cost(f, p) + Cost(f, q)
<1>1. PICK a, b, c : /\ a = [i \in 1 .. Len(p) |-> f[p[i]]] /\ b = [i \in 1 .. Len(q) |-> f[q[i]]]
                     /\ c = [i \in 1 .. Len(p \o q) |-> f[(p \o q)[i]]]
  OBVIOUS
<1>2. p \o q \in Seq(Entry) /\ Len(p \o q) = Len(p) + Len(q)
  OBVIOUS
<1>3. a \in Seq(Nat) /\ b \in Seq(Nat) /\ c \in Seq(Nat)
  BY <1>1, <1>2, CostTyped
<1>4. Len(a) = Len(p) /\ Len(b) = Len(q) /\ Len(c) = Len(p) + Len(q)
  BY <1>1, <1>2
<1>5. \A i \in 1 .. Len(p) : c[i] = a[i]
  BY <1>1, <1>2
<1>6. \A i \in 1 .. Len(q) : c[Len(p) + i] = b[i]
  BY <1>1, <1>2
<1>7. SumOf(c) = SumOf(a) + SumOf(b)
  <2>1. /\ Len(c) = Len(a) + Len(b) /\ (\A i \in 1 .. Len(a) : c[i] = a[i])
        /\ \A i \in 1 .. Len(b) : c[Len(a) + i] = b[i]
    BY <1>4, <1>5, <1>6
  <2>. QED
    BY <1>3, <2>1, SumSplit
<1>. QED
  BY <1>1, <1>7 DEF Cost

\* The costs of a queue are those of what waits and of what is being written,
\* through replacement, eviction, trimming and completion, and they stay
\* within the limits: for any number of events, records and event streams,
\* and for any limits.
THEOREM CostsAlwaysAddUp == Spec => []CostsAddUp
<1>1. DeliveryInv(World) => CostsAddUp
  <2>1. SUFFICES ASSUME DeliveryInv(World), NEW c \in Clients, clients[c].open
                 PROVE  LET q == clients[c].queue
                        IN  /\ q.bytes = Total(q, EventBytes)
                            /\ q.records = Total(q, LAMBDA event : Len(event.records))
                            /\ q.recordBytes = Total(q, LAMBDA event : SizeOf(event.records))
                            /\ LimitFailure(q) = "none"
    BY DEF CostsAddUp
  <2>2. PICK q : q = clients[c].queue
    OBVIOUS
  <2>3. QueueFits(q) /\ LimitFailure(q) = "none"
    <3>1. World.clients = clients
      BY DEF World
    <3>. QED
      BY <2>1, <2>2, <3>1 DEF DeliveryInv, Good, Delivering, ClientFits
  <2>4. q.pending \in Seq(Entry) /\ q.inflight \in Seq(Entry)
    BY <2>3, QueueTyped
  <2>5. PICK entries : entries = q.inflight \o q.pending
    OBVIOUS
  <2>6. entries \in Seq(Entry) /\ \A i \in 1 .. Len(entries) : EntryFits(entries[i], q.drops)
    <3>1. entries \in Seq(Entry) /\ Len(entries) = Len(q.inflight) + Len(q.pending)
      BY <2>4, <2>5
    <3>2. ASSUME NEW i \in 1 .. Len(entries) PROVE EntryFits(entries[i], q.drops)
      <4>0. PICK p, o : p = q.inflight /\ o = q.pending
        OBVIOUS
      <4>1. \/ \E j \in 1 .. Len(p) : entries[i] = p[j]
            \/ \E j \in 1 .. Len(o) : entries[i] = o[j]
        <5>1. p \in Seq(Entry) /\ o \in Seq(Entry) /\ entries = p \o o /\ i \in 1 .. Len(p \o o)
          BY <2>4, <2>5, <3>2, <4>0
        <5>2. \/ \E j \in 1 .. Len(p) : (p \o o)[i] = p[j]
              \/ \E j \in 1 .. Len(o) : (p \o o)[i] = o[j]
          BY <5>1, JoinedFrom
        <5>. QED
          BY <5>1, <5>2
      <4>. QED
        BY <2>3, <4>0, <4>1 DEF QueueFits
    <3>. QED
      BY <3>1, <3>2
  <2>7. /\ q.bytes = Cost(ByteCost, entries) /\ q.records = Cost(CountCost, entries)
        /\ q.recordBytes = Cost(SizeCost, entries)
    BY <2>3, <2>4, <2>5, CostsJoin, CostsTyped DEF QueueFits, Paid
  <2>8. /\ q.bytes = SumOf([i \in 1 .. Len(entries) |-> EventBytes(entries[i].event)])
        /\ q.records = SumOf([i \in 1 .. Len(entries) |-> Len(entries[i].event.records)])
        /\ q.recordBytes = SumOf([i \in 1 .. Len(entries) |-> SizeOf(entries[i].event.records)])
    BY <2>6, <2>7, CostIs
  <2>9. Entries(q) = entries
    BY <2>5 DEF Entries
  <2>. QED
    BY <2>2, <2>3, <2>8, <2>9 DEF Total
<1>. QED
  BY <1>1, DeliveryInvariant, PTL

\* Nothing waits for good: events wait only for a write, an acknowledgement
\* or the socket, a route that refuses everyone for a stop that runs, and the
\* records of the active read for a flush or for an acknowledgement.
THEOREM NothingGetsStuck == Spec => []NothingIsStuck
<1>1. DeliveryInv(World) => NothingIsStuck
  <2>1. SUFFICES ASSUME DeliveryInv(World) PROVE NothingIsStuck
    OBVIOUS
  <2>2. PICK w : w = World
    OBVIOUS
  <2>3. /\ w.clients = clients /\ w.route = route /\ w.facade = facade /\ w.reads = reads
    BY <2>2 DEF World
  <2>4. PICK k : Good(w, k, 0) /\ k.answering = {} /\ k.transport \in {"desktop", "web"}
    BY <2>1, <2>2, WorldGood
  <2>5. NothingWaitsUnsent
    BY <2>3, <2>4 DEF NothingWaitsUnsent, Good, Delivering, ClientFits, Sends
  <2>6. RecoveryIsAnswered
    BY <2>3, <2>4 DEF RecoveryIsAnswered, Good, Answered
  <2>7. facade.paused => /\ clients[Desktop].open /\ clients[Desktop].paused
                         /\ clients[Desktop].queue.inflight # <<>>
    <3>1. SUFFICES ASSUME facade.paused PROVE /\ clients[Desktop].open /\ clients[Desktop].paused
                                              /\ clients[Desktop].queue.inflight # <<>>
      OBVIOUS
    <3>2. k.transport = "desktop"
      BY <2>3, <2>4, <3>1, WebHas DEF WebFits
    <3>3. DesktopFits(w) /\ ClientFits(w.clients[Desktop])
      BY <2>4, <3>2, DesktopHas
    <3>4. clients[Desktop].paused = facade.paused
      BY <2>3, <3>3 DEF DesktopFits
    <3>5. clients[Desktop] # NoClient
      <4>1. SUFFICES ASSUME clients[Desktop] = NoClient PROVE FALSE
        OBVIOUS
      <4>2. clients[Desktop].paused = FALSE
        BY <4>1 DEF NoClient
      <4>. QED
        BY <3>1, <3>4, <4>2
    <3>. QED
      BY <2>3, <3>1, <3>3, <3>4, <3>5 DEF DesktopFits, ClientFits
  <2>8. facade.active # 0 /\ reads[facade.active].queue # <<>> => facade.paused \/ reads[facade.active].flush
    BY <2>3, <2>4 DEF Good, Flows
  <2>. QED
    BY <2>5, <2>6, <2>7, <2>8 DEF NothingIsStuck, PressureIsReleased
<1>. QED
  BY <1>1, DeliveryInvariant, PTL

---------------------------------------------------------------------------
(* No event under way loses its lease to a late acknowledgement.           *)

\* Every step but the renderer's and the host's leaves what is under way to
\* the host.
LEMMA OthersPass ==
    ASSUME DeliveryInv(World), PresentationInv(World), ClientNext \/ CommandNext \/ SessionNext \/ TimerNext
    PROVE  toHost' = toHost
  BY ClientNextGood, CommandGood, SessionGood, TimerGood DEF Passes

LEMMA TailIsShorter ==
    ASSUME NEW s \in Seq(Nat), s # <<>>
    PROVE  Tail(s) # s /\ \A x : Tail(s) # Append(s, x)
<1>1. PICK n \in Nat : n = Len(s)
  OBVIOUS
<1>2. Len(Tail(s)) = n - 1 /\ n > 0
  BY <1>1
<1>3. ASSUME NEW x PROVE Len(Append(s, x)) = n + 1
  BY <1>1
<1>. QED
  BY <1>1, <1>2, <1>3

\* What the renderer has acknowledged precedes what is under way to it.
LEMMA ShownPrecedes ==
    ASSUME DeliveryInv(World), toHost # <<>>
    PROVE  /\ toHost \in Seq(Nat)
           /\ \A i \in 1 .. Len(toRenderer) : toRenderer[i].seq # Head(toHost)
<1>1. PICK k : Good(World, k, 0)
  BY WorldGood
<1>2. PICK w : w = World
  OBVIOUS
<1>3. w.toHost = toHost /\ w.toRenderer = toRenderer /\ Good(w, k, 0)
  BY <1>1, <1>2 DEF World
<1>4. DesktopFits(w) /\ w.route.lastSequence \in Nat
  BY <1>3, UnderWayIs, DesktopHas
<1>5. PICK events, acknowledged, pending, last :
         /\ events = w.toRenderer /\ acknowledged = w.toHost
         /\ pending = w.clients[Desktop].queue.pending /\ last = w.route.lastSequence
  OBVIOUS
<1>6. Ordered(events, acknowledged, pending, last)
  BY <1>4, <1>5, SMTT(20) DEF DesktopFits
<1>7. acknowledged \in Seq(Nat) /\ acknowledged # <<>> /\ last \in Nat
  BY <1>3, <1>4, <1>5, <1>6 DEF Ordered
<1>8. 1 \in 1 .. Len(acknowledged) /\ Head(acknowledged) = acknowledged[1]
  BY <1>7
<1>9. ASSUME NEW i \in 1 .. Len(events) PROVE events[i].seq # Head(acknowledged)
  <2>1. PICK a, b : a = acknowledged[1] /\ b = events[i].seq
    OBVIOUS
  <2>2. a < b
    BY <1>6, <1>8, <2>1 DEF Ordered
  <2>3. a \in Nat /\ b \in 1 .. last
    BY <1>6, <1>7, <1>8, <2>1 DEF Ordered
  <2>4. a # b
    BY <1>7, <2>2, <2>3
  <2>. QED
    BY <1>8, <2>1, <2>4
<1>. QED
  BY <1>3, <1>5, <1>7, <1>9

\* An acknowledgement takes the lease of the event that it is for, and no
\* other.
LEMMA LeaseIsTaken ==
    ASSUME AcknowledgementArrives, clients'[Desktop].queue.inflight # clients[Desktop].queue.inflight
    PROVE  clients[Desktop].queue.inflight[1].event.seq = Head(toHost)
<1>1. PICK w : w = [World EXCEPT !.toHost = Tail(@)]
  OBVIOUS
<1>2. w.clients = clients
  BY <1>1 DEF World
<1>3. SUFFICES ASSUME w.clients[Desktop].queue.inflight[1].event.seq # Head(toHost) PROVE FALSE
  BY <1>2
<1>4. Acknowledged(w, Head(toHost)) = w
  BY <1>3 DEF Acknowledged
<1>5. Becomes(w)
  BY <1>1, <1>4 DEF AcknowledgementArrives
<1>6. clients' = w.clients
  BY <1>5 DEF Becomes
<1>. QED
  BY <1>2, <1>6

\* No event under way loses its lease: an acknowledgement completes only the
\* lease of the event that it is for, and that event has arrived. For any
\* number of subscriptions, recoveries and late acknowledgements.
THEOREM LeaseIsAlwaysShownFirst == Spec => LeaseIsShownFirst
<1>1. ASSUME PresentationInv(World), DeliveryInv(World), [Next]_vars
      PROVE  [LET lease == clients[Desktop].queue.inflight IN
              /\ lease # <<>> /\ toHost # <<>> /\ toHost' = Tail(toHost) /\ Head(toHost) # Subscription
              /\ clients'[Desktop].queue.inflight # lease
              => \A i \in 1 .. Len(toRenderer) : toRenderer[i].seq # lease[1].event.seq]_vars
  <2>1. SUFFICES ASSUME /\ toHost # <<>> /\ toHost' = Tail(toHost) /\ Head(toHost) # Subscription
                        /\ clients'[Desktop].queue.inflight # clients[Desktop].queue.inflight
                 PROVE  \A i \in 1 .. Len(toRenderer) :
                            toRenderer[i].seq # clients[Desktop].queue.inflight[1].event.seq
    OBVIOUS
  <2>2. toHost \in Seq(Nat) /\ \A i \in 1 .. Len(toRenderer) : toRenderer[i].seq # Head(toHost)
    BY <1>1, <2>1, ShownPrecedes
  <2>3. toHost' # toHost /\ \A x : toHost' # Append(toHost, x)
    BY <2>1, <2>2, TailIsShorter
  <2>4. CASE AcknowledgementArrives
    BY <2>1, <2>2, <2>4, LeaseIsTaken
  <2>5. CASE Listen
    <3>1. toHost' = Append(toHost, Subscription)
      BY <2>5 DEF Listen, Becomes, World
    <3>. QED
      BY <2>3, <3>1
  <2>6. CASE Leave
    <3>1. toHost' = toHost
      BY <2>6 DEF Leave, Becomes, Turned, World
    <3>. QED
      BY <2>3, <3>1
  <2>7. CASE Receive
    <3>1. PICK rest, full : /\ rest = [World EXCEPT !.toRenderer = Tail(@)]
                            /\ full = [rest EXCEPT !.shown[Desktop] = Shown(@, Head(toRenderer)),
                                                   !.toHost = Append(@, Head(toRenderer).seq)]
      OBVIOUS
    <3>2. rest.toHost = toHost /\ full.toHost = Append(toHost, Head(toRenderer).seq)
      BY <3>1 DEF World
    <3>3. Becomes(rest) \/ Becomes(full)
      BY <2>7, <3>1 DEF Receive
    <3>. QED
      BY <2>3, <3>2, <3>3 DEF Becomes
  <2>8. CASE SubscriptionArrives
    BY <2>1, <2>8 DEF SubscriptionArrives
  <2>9. CASE AcknowledgementTimesOut
    BY <1>1, <2>3, <2>9, TimesOutGood DEF Passes
  <2>10. CASE ClientNext \/ CommandNext \/ SessionNext \/ TimerNext
    BY <1>1, <2>3, <2>10, OthersPass
  <2>11. CASE UNCHANGED vars
    BY <2>3, <2>11 DEF vars
  <2>. QED
    BY <1>1, <2>4, <2>5, <2>6, <2>7, <2>8, <2>9, <2>10, <2>11 DEF Next, RendererNext
<1>. QED
  BY <1>1, PresentationInvariant, DeliveryInvariant, PTL DEF Spec, LeaseIsShownFirst
=============================================================================
