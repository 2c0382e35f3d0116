------------------------ MODULE PluginRuntimeProofs ------------------------
(***************************************************************************)
(* Whichever hooks, loads and commits fail, and whenever the host closes:  *)
(* every backend has an owner, none is left with its requests, and what    *)
(* changes leave is current. Proved for any number of plugins, changes,    *)
(* backends and requests.                                                  *)
(***************************************************************************)
EXTENDS PluginRuntime, TLAPS

---------------------------------------------------------------------------
(* The inductive invariant.                                                *)

Updates == {"install", "retry"}

\* The phases that a change of each kind goes through.
PhasesOf(kind) ==
    CASE kind \in Updates ->
           {"acquiring", "queued", "preparing", "connections", "reviewing", "loading", "unloading",
            "draining", "committing", "retiring", "rejecting"}
      [] kind = "remove" ->
           {"acquiring", "queued", "connections", "reviewing", "unloading", "draining", "committing",
            "retiring"}
      [] kind = "recovery" ->
           {"queued", "connections", "reviewing", "unloading", "draining", "committing", "retiring",
            "reloading"}
      [] kind = "startup" -> {"queued", "loading", "committing", "reloading"}
      [] kind = "resolve" -> {"queued", "resolving"}
      [] OTHER -> {"queued", "reviewing"}

Candidates == {"unloading", "draining", "committing", "retiring", "rejecting"}
IsIdle(change) == change.phase \in {"unused", "settled"}

\* What a change is in its phase.
Fits(k) ==
    /\ k.phase = "unused" => k = NoChange
    /\ k.phase = "settled" => k = Gone
    /\ ~IsIdle(k) =>
          /\ k.phase \in PhasesOf(k.kind)
          /\ k.kind # "exit" => \E p \in Plugins : k.plugins = {p}
          /\ k.candidate # None <=> k.kind \in Updates /\ k.phase \in Candidates
          /\ k.phase = "queued" /\ k.kind # "recovery" => k.previous = None
          /\ k.phase = "acquiring" => k.previous = None
          /\ k.phase \in {"unloading", "draining", "retiring"} => k.previous # None
          /\ k.kind = "recovery" => k.previous # None
          /\ k.kind \in ReviewKinds \cup {"resolve"} /\ k.phase # "queued" => k.previous # None

\* The queue holds the changes that were admitted and have not settled, each
\* once, and its head is the only one that runs.
QueueFits ==
    /\ \A i, j \in 1 .. Len(tail) : tail[i] = tail[j] => i = j
    /\ \A c \in ChangeIds : Owns(c) <=> changes[c].phase \notin {"unused", "acquiring", "settled"}
    /\ \A c \in ChangeIds : Running(c) => c = tail[1]

\* Until the start has resolved nothing but the start changes a plugin.
StartupFits ==
    /\ \A p \in unstarted : modules[p] = None
    /\ \A c \in ChangeIds : Owns(c) /\ changes[c].kind # "startup" => Started
    /\ \A c, d \in ChangeIds :
          Owns(c) /\ Owns(d) /\ changes[c].kind = "startup" /\ changes[d].kind = "startup" => c = d
    /\ \A c \in ChangeIds, p \in Plugins :
          Owns(c) /\ changes[c].kind = "startup" /\ changes[c].plugins = {p} =>
              modules[p] = None /\ p \notin unstarted

IntentsFit ==
    ~Closing =>
        \A c \in ChangeIds, p \in Plugins :
            Owns(c) /\ changes[c].kind \in IntentKinds /\ changes[c].plugins = {p} => intents[p] = c

QueueTyped ==
    /\ changes \in [ChangeIds -> Change]
    /\ tail \in Seq(ChangeIds)
    /\ intents \in [Plugins -> ChangeIds \cup {None}]
    /\ host \in {"open", "closing", "stopping", "closed"}

QueueInv ==
    /\ QueueTyped /\ QueueFits /\ IntentsFit
    /\ \A c \in ChangeIds : Fits(changes[c])
    /\ host \in {"stopping", "closed"} => tail = <<>>

\* What a backend is that serves, that is a candidate, or that is being closed.
BackendsFit ==
    /\ \A b \in BackendIds :
        /\ backends[b].state = "none" => backends[b] = NoBackend
        /\ backends[b].state # "none" => backends[b].plugin \in Plugins
        /\ backends[b].state = "idle" => \E c \in ChangeIds : Running(c) /\ changes[c].candidate = b
        /\ backends[b].state = "closing" =>
              \/ \E c \in ChangeIds : Running(c) /\ changes[c].phase = "retiring" /\ changes[c].previous = b
              \/ host = "stopping" /\ modules[backends[b].plugin] = b
    /\ \A p \in Plugins : modules[p] # None =>
          backends[modules[p]].plugin = p /\ backends[modules[p]].state \notin {"none", "idle"}

\* What the change that runs has found, has loaded, and has selected.
RunFits(c) ==
    LET k == changes[c]
    IN  \A p \in Plugins : k.kind # "exit" /\ k.plugins = {p} =>
            /\ k.phase \notin {"retiring", "reloading"} => modules[p] = k.previous
            /\ k.phase = "reloading" => modules[p] = None
            /\ k.phase = "retiring" =>
                  /\ backends[k.previous].plugin = p /\ backends[k.previous].state = "closing"
                  /\ modules[p] = IF k.kind \in Updates THEN k.previous ELSE None
                  /\ k.kind \in Updates => selected[p] = k.candidate
            /\ k.candidate # None =>
                  backends[k.candidate].plugin = p /\ backends[k.candidate].state = "idle"

IsReplacing(p) ==
    \E c \in ChangeIds : Running(c) /\ changes[c].phase = "retiring" /\ changes[c].plugins = {p}

ServingInv ==
    /\ StartupFits /\ BackendsFit /\ OneBackendServes /\ ExitIsCurrent
    /\ \A c \in ChangeIds : Running(c) => RunFits(c)
    /\ \A p \in Plugins : ~IsReplacing(p) /\ modules[p] # None => selected[p] = modules[p]
    /\ host = "closed" => \A b \in BackendIds : backends[b].state \in {"none", "retired"}

\* What a change drained, or found idle, stays so, as nothing is admitted.
StaysQuiet(c) ==
    LET k == changes[c]
    IN  /\ k.phase \in {"committing", "retiring"} /\ k.previous # None => Tracked(k.previous) = {}
        /\ k.phase \in {"loading", "unloading"} /\ k.consent = None /\ k.previous # None =>
              ~IsBusy(k.previous)

RequestInv ==
    /\ \A r \in RequestIds : requests[r].phase \in {"admitted", "running"} =>
          /\ requests[r].backend \in BackendIds
          /\ backends[requests[r].backend].state \notin {"none", "idle"}
    /\ \A b \in BackendIds : backends[b].state = "retired" => Begun(b) = {}
    /\ \A c \in ChangeIds : Running(c) => StaysQuiet(c)

RuntimeInv == TypeOK /\ QueueInv /\ ServingInv /\ RequestInv

USE RuntimeAssumption

---------------------------------------------------------------------------
(* The queue.                                                              *)

LEMMA Ids ==
    /\ ChangeIds \subseteq Nat /\ BackendIds \subseteq Nat /\ RequestIds \subseteq Nat
    /\ None \notin ChangeIds /\ None \notin BackendIds
  BY DEF ChangeIds, BackendIds, RequestIds

LEMMA GoneTyped == Gone \in Change /\ NoChange \in Change /\ Gone.phase = "settled"
  BY DEF Gone, NoChange, Change, Kinds, Phases, MaybeBackend, MaybeConsent

LEMMA NewChangeTyped ==
    ASSUME NEW kind \in Kinds, NEW ps \in SUBSET Plugins, NEW phase \in Phases
    PROVE  LET k == NewChange(kind, ps, phase)
           IN  /\ k \in Change /\ k.kind = kind /\ k.plugins = ps /\ k.phase = phase
               /\ k.previous = None /\ k.candidate = None /\ k.consent = None
  BY GoneTyped DEF NewChange, NoChange, Change

\* A change of one plugin is of that plugin.
LEMMA PluginIsOne ==
    ASSUME NEW c \in ChangeIds, NEW p \in Plugins, changes[c].plugins = {p}
    PROVE  PluginOf(c) = p
  BY DEF PluginOf

LEMMA TailShrinks ==
    ASSUME NEW s \in Seq(ChangeIds), s # <<>>, \A i, j \in 1 .. Len(s) : s[i] = s[j] => i = j
    PROVE  /\ Tail(s) \in Seq(ChangeIds) /\ Head(s) = s[1] /\ s[1] \in ChangeIds
           /\ \A i, j \in 1 .. Len(Tail(s)) : Tail(s)[i] = Tail(s)[j] => i = j
           /\ \A d \in ChangeIds :
                 (\E i \in 1 .. Len(Tail(s)) : Tail(s)[i] = d)
                 <=> (\E i \in 1 .. Len(s) : s[i] = d) /\ d # s[1]
<1>1. /\ Tail(s) \in Seq(ChangeIds) /\ Head(s) = s[1] /\ s[1] \in ChangeIds
      /\ Len(s) \in Nat /\ Len(s) >= 1 /\ Len(Tail(s)) = Len(s) - 1
      /\ \A i \in 1 .. Len(Tail(s)) : Tail(s)[i] = s[i + 1]
  OBVIOUS
<1>2. \A i, j \in 1 .. Len(Tail(s)) : Tail(s)[i] = Tail(s)[j] => i = j
  <2> SUFFICES ASSUME NEW i \in 1 .. Len(Tail(s)), NEW j \in 1 .. Len(Tail(s)), Tail(s)[i] = Tail(s)[j]
               PROVE  i = j
    OBVIOUS
  <2>1. i + 1 \in 1 .. Len(s) /\ j + 1 \in 1 .. Len(s) /\ s[i + 1] = s[j + 1]
    BY <1>1
  <2>2. i + 1 = j + 1
    BY <2>1
  <2>. QED
    BY <2>2
<1>3. ASSUME NEW d \in ChangeIds, NEW i \in 1 .. Len(Tail(s)), Tail(s)[i] = d
      PROVE  (\E j \in 1 .. Len(s) : s[j] = d) /\ d # s[1]
  <2>1. i + 1 \in 1 .. Len(s) /\ s[i + 1] = d /\ 1 \in 1 .. Len(s)
    BY <1>1, <1>3
  <2>2. i + 1 # 1
    BY <1>1
  <2>. QED
    BY <2>1, <2>2
<1>4. ASSUME NEW d \in ChangeIds, NEW i \in 1 .. Len(s), s[i] = d, d # s[1]
      PROVE  \E j \in 1 .. Len(Tail(s)) : Tail(s)[j] = d
  <2>1. i - 1 \in 1 .. Len(Tail(s)) /\ Tail(s)[i - 1] = s[i]
    BY <1>1, <1>4
  <2>. QED
    BY <1>4, <2>1
<1>. QED
  BY <1>1, <1>2, <1>3, <1>4

LEMMA TailGrows ==
    ASSUME NEW s \in Seq(ChangeIds), NEW c \in ChangeIds, \A i \in 1 .. Len(s) : s[i] # c,
           \A i, j \in 1 .. Len(s) : s[i] = s[j] => i = j
    PROVE  /\ Append(s, c) \in Seq(ChangeIds)
           /\ \A i, j \in 1 .. Len(Append(s, c)) : Append(s, c)[i] = Append(s, c)[j] => i = j
           /\ \A d \in ChangeIds :
                 (\E i \in 1 .. Len(Append(s, c)) : Append(s, c)[i] = d)
                 <=> (\E i \in 1 .. Len(s) : s[i] = d) \/ d = c
           /\ s # <<>> => Append(s, c)[1] = s[1]
<1>1. /\ Append(s, c) \in Seq(ChangeIds) /\ Len(Append(s, c)) = Len(s) + 1 /\ Len(s) \in Nat
      /\ \A i \in 1 .. Len(s) : Append(s, c)[i] = s[i]
      /\ Append(s, c)[Len(s) + 1] = c
  OBVIOUS
<1>2. \A i \in 1 .. Len(s) + 1 : i \in 1 .. Len(s) \/ i = Len(s) + 1
  BY <1>1
<1>. QED
  BY <1>1, <1>2

\* A change that runs is the head of the queue.
LEMMA HeadRuns ==
    ASSUME QueueInv, NEW c \in ChangeIds, Running(c)
    PROVE  /\ tail # <<>> /\ c = tail[1] /\ c = Head(tail) /\ Owns(c) /\ ~IsIdle(changes[c])
           /\ changes[c].phase \notin {"unused", "acquiring", "queued", "settled"}
           /\ Fits(changes[c])
           /\ host \in {"open", "closing"}
           /\ \A d \in ChangeIds \ {c} : ~Running(d)
<1>1. /\ tail \in Seq(ChangeIds) /\ Owns(c) /\ changes[c].phase # "queued" /\ c = tail[1]
      /\ changes[c].phase \notin {"unused", "acquiring", "settled"}
  BY DEF QueueInv, QueueTyped, QueueFits, Running
<1>2. tail # <<>>
  BY <1>1 DEF Owns
<1>. QED
  BY <1>1, <1>2, Ids DEF QueueInv, QueueTyped, QueueFits, IsIdle

LEMMA IsInRuns ==
    ASSUME NEW c \in ChangeIds, NEW phase, IsIn(c, phase), phase # "queued"
    PROVE  Running(c)
  BY DEF IsIn, Running

\* The head moves on.
LEMMA HeadMoves ==
    ASSUME QueueInv, NEW c \in ChangeIds, tail # <<>>, c = tail[1], Owns(c),
           NEW k \in Change, Goes(c, k), Fits(k), host' = host,
           k.phase \notin {"unused", "acquiring", "queued", "settled"},
           k.kind = changes[c].kind, k.plugins = changes[c].plugins
    PROVE  /\ QueueInv' /\ changes'[c] = k /\ \A d \in ChangeIds \ {c} : changes'[d] = changes[d]
           /\ \A d \in ChangeIds : (Owns(d)' <=> Owns(d)) /\ (Running(d)' <=> d = c)
           /\ (Closing' <=> Closing)
<1>1. /\ changes' = [changes EXCEPT ![c] = k] /\ tail' = tail /\ intents' = intents
      /\ changes \in [ChangeIds -> Change]
  BY DEF Goes, QueueInv, QueueTyped
<1>2. /\ changes' \in [ChangeIds -> Change] /\ changes'[c] = k
      /\ \A d \in ChangeIds \ {c} : changes'[d] = changes[d]
  BY <1>1
<1>3. \A d \in ChangeIds : Owns(d)' <=> Owns(d)
  BY <1>1 DEF Owns
<1>4. \A d \in ChangeIds : Running(d)' <=> d = c
  BY <1>2, <1>3 DEF Running, QueueInv, QueueFits
<1>5. QueueTyped' /\ QueueFits'
  BY <1>1, <1>2, <1>3, <1>4 DEF QueueTyped, QueueFits, QueueInv
<1>6. IntentsFit'
  BY <1>1, <1>2, <1>3 DEF IntentsFit, QueueInv, Closing
<1>. QED
  BY <1>1, <1>2, <1>3, <1>4, <1>5, <1>6 DEF QueueInv, Closing

\* The head settles.
LEMMA HeadSettles ==
    ASSUME QueueInv, NEW c \in ChangeIds, tail # <<>>, c = tail[1], Settles(c), host' = host
    PROVE  /\ QueueInv' /\ changes'[c] = Gone /\ \A d \in ChangeIds \ {c} : changes'[d] = changes[d]
           /\ \A d \in ChangeIds : (Owns(d)' <=> Owns(d) /\ d # c) /\ ~Running(d)'
           /\ (Closing' <=> Closing)
<1>1. /\ changes' = [changes EXCEPT ![c] = Gone] /\ tail' = Tail(tail)
      /\ intents' = [p \in Plugins |-> IF intents[p] = c THEN None ELSE intents[p]]
      /\ changes \in [ChangeIds -> Change] /\ tail \in Seq(ChangeIds)
      /\ intents \in [Plugins -> ChangeIds \cup {None}]
  BY DEF Settles, ForgetIntent, QueueInv, QueueTyped
<1>2. /\ changes' \in [ChangeIds -> Change] /\ changes'[c] = Gone /\ changes'[c].phase = "settled"
      /\ \A d \in ChangeIds \ {c} : changes'[d] = changes[d]
  BY <1>1, GoneTyped
<1>3. /\ tail' \in Seq(ChangeIds)
      /\ \A i, j \in 1 .. Len(tail') : tail'[i] = tail'[j] => i = j
      /\ \A d \in ChangeIds : Owns(d)' <=> Owns(d) /\ d # c
  <2>1. \A i, j \in 1 .. Len(tail) : tail[i] = tail[j] => i = j
    BY DEF QueueInv, QueueFits
  <2>2. /\ Tail(tail) \in Seq(ChangeIds)
        /\ \A i, j \in 1 .. Len(Tail(tail)) : Tail(tail)[i] = Tail(tail)[j] => i = j
        /\ \A d \in ChangeIds :
              (\E i \in 1 .. Len(Tail(tail)) : Tail(tail)[i] = d)
              <=> (\E i \in 1 .. Len(tail) : tail[i] = d) /\ d # tail[1]
    BY <1>1, <2>1, TailShrinks
  <2>3. \A d \in ChangeIds : Owns(d)' <=> \E i \in 1 .. Len(Tail(tail)) : Tail(tail)[i] = d
    BY <1>1 DEF Owns
  <2>. QED
    BY <1>1, <2>2, <2>3 DEF Owns
<1>4. \A d \in ChangeIds : ~Running(d)'
  BY <1>2, <1>3 DEF Running, QueueInv, QueueFits
<1>5. QueueTyped' /\ QueueFits'
  BY <1>1, <1>2, <1>3, <1>4 DEF QueueTyped, QueueFits, QueueInv
<1>6. IntentsFit'
  <2> SUFFICES ASSUME ~Closing', NEW d \in ChangeIds, NEW p \in Plugins, Owns(d)',
                      changes'[d].kind \in IntentKinds, changes'[d].plugins = {p}
               PROVE  intents'[p] = d
    BY DEF IntentsFit
  <2>1. Owns(d) /\ d # c /\ changes[d].kind \in IntentKinds /\ changes[d].plugins = {p}
    BY <1>2, <1>3
  <2>2. intents[p] = d
    BY <2>1 DEF QueueInv, IntentsFit, Closing
  <2>. QED
    BY <1>1, <2>1, <2>2
<1>7. \A d \in ChangeIds : Fits(changes'[d])
  BY <1>2 DEF QueueInv, Fits, IsIdle
<1>8. host' \in {"stopping", "closed"} => tail' = <<>>
  BY DEF QueueInv
<1>. QED
  BY <1>2, <1>3, <1>4, <1>5, <1>6, <1>7, <1>8 DEF QueueInv, Closing

\* A change that was asked for waits, before it is admitted or behind the tail.
LEMMA ChangeWaits ==
    ASSUME QueueInv, NEW c \in ChangeIds, ~Owns(c), NEW k \in Change, Fits(k), host' = host,
           changes' = [changes EXCEPT ![c] = k],
           \/ k.phase = "queued" /\ tail' = Append(tail, c) /\ host \in {"open", "closing"}
           \/ k.phase \in {"acquiring", "settled"} /\ tail' = tail,
           intents' \in [Plugins -> ChangeIds \cup {None}], IntentsFit'
    PROVE  /\ QueueInv' /\ changes'[c] = k /\ \A d \in ChangeIds \ {c} : changes'[d] = changes[d]
           /\ \A d \in ChangeIds : /\ Owns(d)' <=> Owns(d) \/ (d = c /\ k.phase = "queued")
                                   /\ Running(d)' <=> Running(d)
           /\ (Closing' <=> Closing)
<1>1. changes \in [ChangeIds -> Change] /\ tail \in Seq(ChangeIds)
  BY DEF QueueInv, QueueTyped
<1>2. /\ changes' \in [ChangeIds -> Change] /\ changes'[c] = k
      /\ \A d \in ChangeIds \ {c} : changes'[d] = changes[d]
  BY <1>1
<1>3. /\ tail' \in Seq(ChangeIds)
      /\ \A i, j \in 1 .. Len(tail') : tail'[i] = tail'[j] => i = j
      /\ \A d \in ChangeIds : Owns(d)' <=> Owns(d) \/ (d = c /\ k.phase = "queued")
      /\ tail # <<>> => tail'[1] = tail[1]
  <2>1. CASE k.phase = "queued" /\ tail' = Append(tail, c)
    BY <1>1, <2>1, TailGrows DEF QueueInv, QueueFits, Owns
  <2>2. CASE k.phase \in {"acquiring", "settled"} /\ tail' = tail
    BY <1>1, <2>2 DEF QueueInv, QueueFits, Owns
  <2>. QED
    BY <2>1, <2>2
<1>4. \A d \in ChangeIds : Running(d)' <=> Running(d)
  BY <1>2, <1>3 DEF Running
<1>5. QueueFits'
  <2>1. \A d \in ChangeIds : Owns(d)' <=> changes'[d].phase \notin {"unused", "acquiring", "settled"}
    BY <1>2, <1>3 DEF QueueInv, QueueFits
  <2>2. \A d \in ChangeIds : Running(d) => tail # <<>> /\ d = tail[1]
    BY HeadRuns
  <2>. QED
    BY <1>3, <1>4, <2>1, <2>2 DEF QueueFits
<1>6. QueueTyped' /\ \A d \in ChangeIds : Fits(changes'[d])
  BY <1>2, <1>3 DEF QueueTyped, QueueInv
<1>7. host' \in {"stopping", "closed"} => tail' = <<>>
  BY DEF QueueInv
<1>. QED
  BY <1>2, <1>3, <1>4, <1>5, <1>6, <1>7 DEF QueueInv, Closing

---------------------------------------------------------------------------
(* What serves, when a change moves on or settles.                         *)

LEMMA StartupStays ==
    ASSUME StartupFits, unstarted \subseteq Plugins, unstarted' = unstarted,
           \A d \in ChangeIds : Owns(d)' =>
              Owns(d) /\ changes'[d].kind = changes[d].kind /\ changes'[d].plugins = changes[d].plugins,
           \A p \in Plugins :
              \/ modules'[p] = modules[p]
              \/ /\ p \notin unstarted
                 /\ \A d \in ChangeIds : ~(Owns(d)' /\ changes[d].kind = "startup" /\ changes[d].plugins = {p})
    PROVE  StartupFits'
<1>1. Started => Started'
  BY DEF Started
<1>2. ASSUME NEW p \in unstarted' PROVE modules'[p] = None
  BY <1>2 DEF StartupFits
<1>. QED
  BY <1>1, <1>2 DEF StartupFits

LEMMA ServingMoves ==
    ASSUME RuntimeInv, NEW c \in ChangeIds, tail # <<>>, c = tail[1], Owns(c),
           NEW k \in Change, Goes(c, k), Fits(k), UNCHANGED <<serving, unstarted, host>>,
           k.phase \notin {"unused", "acquiring", "queued", "settled", "retiring"},
           k.kind = changes[c].kind, k.plugins = changes[c].plugins,
           k.candidate = changes[c].candidate, changes[c].phase # "retiring",
           \A p \in Plugins : k.kind # "exit" /\ k.plugins = {p} =>
              modules[p] = IF k.phase = "reloading" THEN None ELSE k.previous,
           ExitIsCurrent'
    PROVE  /\ QueueInv' /\ ServingInv'
           /\ changes'[c] = k /\ \A d \in ChangeIds : Running(d)' <=> d = c
<1>1. /\ QueueInv' /\ changes'[c] = k /\ \A d \in ChangeIds \ {c} : changes'[d] = changes[d]
      /\ \A d \in ChangeIds : (Owns(d)' <=> Owns(d)) /\ (Running(d)' <=> d = c)
  BY HeadMoves DEF RuntimeInv
<1>2. /\ modules' = modules /\ selected' = selected /\ backends' = backends
      /\ unstarted' = unstarted /\ host' = host
  BY DEF serving
<1>3. \A d \in ChangeIds : Running(d) => d = c
  BY HeadRuns DEF RuntimeInv
<1>4. ServingInv /\ Fits(changes[c]) /\ unstarted \subseteq Plugins
  BY DEF RuntimeInv, QueueInv, TypeOK
<1>5. ASSUME k.candidate # None PROVE Running(c)
  BY <1>4, <1>5 DEF Fits, IsIdle, Candidates, Running, RuntimeInv, QueueInv, QueueFits
<1>6. StartupFits' /\ OneBackendServes'
  BY <1>1, <1>2, <1>4, StartupStays DEF ServingInv, OneBackendServes
<1>7. BackendsFit'
  <2>1. \A b \in BackendIds : backends[b].state = "idle" =>
           \E d \in ChangeIds : Running(d)' /\ changes'[d].candidate = b
    BY <1>1, <1>3, <1>4 DEF ServingInv, BackendsFit
  <2>2. \A b \in BackendIds : backends[b].state = "closing" =>
           host = "stopping" /\ modules[backends[b].plugin] = b
    BY <1>3, <1>4 DEF ServingInv, BackendsFit
  <2>. QED
    BY <1>2, <1>4, <2>1, <2>2 DEF ServingInv, BackendsFit
<1>8. RunFits(c)'
  <2> SUFFICES ASSUME NEW p \in Plugins, k.kind # "exit", k.plugins = {p}
               PROVE  /\ k.phase # "reloading" => modules[p] = k.previous
                      /\ k.phase = "reloading" => modules[p] = None
                      /\ k.candidate # None =>
                            backends[k.candidate].plugin = p /\ backends[k.candidate].state = "idle"
    BY <1>1, <1>2 DEF RunFits
  <2>1. ASSUME k.candidate # None
        PROVE  backends[k.candidate].plugin = p /\ backends[k.candidate].state = "idle"
    <3>1. RunFits(c)
      BY <1>4, <1>5, <2>1 DEF ServingInv
    <3>2. changes[c].kind # "exit" /\ changes[c].plugins = {p} /\ changes[c].candidate = k.candidate
      OBVIOUS
    <3>. QED
      BY <2>1, <3>1, <3>2 DEF RunFits
  <2>. QED
    BY <2>1
<1>9. \A p \in Plugins : ~IsReplacing(p)
  BY <1>3 DEF IsReplacing
<1>. QED
  BY <1>1, <1>2, <1>4, <1>6, <1>7, <1>8, <1>9 DEF ServingInv

LEMMA ServingSettles ==
    ASSUME RuntimeInv, NEW c \in ChangeIds, tail # <<>>, c = tail[1], Owns(c),
           Settles(c), UNCHANGED <<serving, unstarted, host>>,
           changes[c].candidate = None, changes[c].phase # "retiring", ExitIsCurrent'
    PROVE  /\ QueueInv' /\ ServingInv' /\ \A d \in ChangeIds : ~Running(d)'
<1>1. /\ QueueInv' /\ changes'[c] = Gone /\ \A d \in ChangeIds \ {c} : changes'[d] = changes[d]
      /\ \A d \in ChangeIds : (Owns(d)' <=> Owns(d) /\ d # c) /\ ~Running(d)'
  BY HeadSettles DEF RuntimeInv
<1>2. /\ modules' = modules /\ selected' = selected /\ backends' = backends
      /\ unstarted' = unstarted /\ host' = host
  BY DEF serving
<1>3. \A d \in ChangeIds : Running(d) => d = c
  BY HeadRuns DEF RuntimeInv
<1>4. ServingInv /\ unstarted \subseteq Plugins
  BY DEF RuntimeInv, TypeOK
<1>5. StartupFits' /\ OneBackendServes'
  BY <1>1, <1>2, <1>4, StartupStays DEF ServingInv, OneBackendServes
<1>6. BackendsFit'
  <2>1. \A b \in BackendIds : backends[b].state # "idle"
    BY <1>3, <1>4, Ids DEF ServingInv, BackendsFit
  <2>2. \A b \in BackendIds : backends[b].state = "closing" =>
           host = "stopping" /\ modules[backends[b].plugin] = b
    BY <1>3, <1>4 DEF ServingInv, BackendsFit
  <2>. QED
    BY <1>2, <1>4, <2>1, <2>2 DEF ServingInv, BackendsFit
<1>7. \A p \in Plugins : ~IsReplacing(p)
  BY <1>3 DEF IsReplacing
<1>. QED
  BY <1>1, <1>2, <1>4, <1>5, <1>6, <1>7 DEF ServingInv

\* The requests, when no backend changes and no request begins.
LEMMA RequestsStay ==
    ASSUME RuntimeInv, UNCHANGED <<backends, requests>>,
           \A d \in ChangeIds : Running(d)' => StaysQuiet(d)'
    PROVE  RequestInv'
  BY DEF RuntimeInv, RequestInv, Begun

\* How many requests and how much work a backend has only shrinks.
LEMMA StaysIdle ==
    ASSUME NEW b, UNCHANGED requests, works' \subseteq works
    PROVE  (Tracked(b) = {} => Tracked(b)' = {}) /\ (~IsBusy(b) => ~IsBusy(b)')
  BY DEF Tracked, IsBusy, Begun

\* Everything else of the types.
OtherTypes ==
    /\ modules \in [Plugins -> MaybeBackend]
    /\ selected \in [Plugins -> MaybeBackend]
    /\ backends \in [BackendIds -> Backend]
    /\ works \subseteq BackendIds
    /\ errors \subseteq Plugins
    /\ requests \in [RequestIds -> Request]
    /\ confirmations \in [Plugins -> MaybeConsent]
    /\ exits \in [Plugins -> MaybeBackend]
    /\ prompts \in [Plugins -> MaybeBackend]
    /\ unstarted \subseteq Plugins

LEMMA TypesFit == (TypeOK <=> QueueTyped /\ OtherTypes) /\ (TypeOK' <=> QueueTyped' /\ OtherTypes')
  BY DEF TypeOK, QueueTyped, OtherTypes

\* What is known of the change that is in a phase.
LEMMA HeadIs ==
    ASSUME RuntimeInv, NEW c \in ChangeIds, NEW phase, IsIn(c, phase), phase # "queued"
    PROVE  /\ Running(c) /\ tail # <<>> /\ c = tail[1] /\ Owns(c)
           /\ changes[c] \in Change /\ Fits(changes[c]) /\ changes[c].phase = phase
           /\ ~IsIdle(changes[c]) /\ host \in {"open", "closing"}
           /\ RunFits(c) /\ StaysQuiet(c)
           /\ \A d \in ChangeIds : Running(d) => d = c
           /\ changes[c].kind # "exit" =>
                 PluginOf(c) \in Plugins /\ changes[c].plugins = {PluginOf(c)}
<1>1. Running(c)
  BY IsInRuns
<1>2. /\ tail # <<>> /\ c = tail[1] /\ Owns(c) /\ Fits(changes[c]) /\ ~IsIdle(changes[c])
      /\ host \in {"open", "closing"}
      /\ \A d \in ChangeIds : Running(d) => d = c
  BY <1>1, HeadRuns DEF RuntimeInv
<1>3. changes[c] \in Change /\ RunFits(c) /\ StaysQuiet(c) /\ changes[c].phase = phase
  BY <1>1 DEF RuntimeInv, QueueInv, QueueTyped, ServingInv, RequestInv, IsIn
<1>4. ASSUME changes[c].kind # "exit"
      PROVE  PluginOf(c) \in Plugins /\ changes[c].plugins = {PluginOf(c)}
  <2>1. PICK p \in Plugins : changes[c].plugins = {p}
    BY <1>2, <1>4 DEF Fits
  <2>. QED
    BY <2>1, PluginIsOne
<1>. QED
  BY <1>1, <1>2, <1>3, <1>4

LEMMA RunMoves ==
    ASSUME RuntimeInv, NEW c \in ChangeIds, tail # <<>>, c = tail[1], Owns(c),
           NEW k \in Change, Goes(c, k), Fits(k), UNCHANGED <<serving, requests, unstarted, host>>,
           k.phase \notin {"unused", "acquiring", "queued", "settled", "retiring"},
           k.kind = changes[c].kind, k.plugins = changes[c].plugins,
           k.candidate = changes[c].candidate, changes[c].phase # "retiring",
           \A p \in Plugins : k.kind # "exit" /\ k.plugins = {p} =>
              modules[p] = IF k.phase = "reloading" THEN None ELSE k.previous,
           ExitIsCurrent', OtherTypes', StaysQuiet(c)'
    PROVE  RuntimeInv'
<1>1. /\ QueueInv' /\ ServingInv'
      /\ changes'[c] = k /\ \A d \in ChangeIds : Running(d)' <=> d = c
  BY ServingMoves
<1>2. RequestInv'
  BY <1>1, RequestsStay DEF serving
<1>3. TypeOK'
  BY <1>1, TypesFit DEF QueueInv
<1>. QED
  BY <1>1, <1>2, <1>3 DEF RuntimeInv

LEMMA RunSettles ==
    ASSUME RuntimeInv, NEW c \in ChangeIds, tail # <<>>, c = tail[1], Owns(c),
           Settles(c), UNCHANGED <<serving, requests, unstarted, host>>,
           changes[c].candidate = None, changes[c].phase # "retiring", ExitIsCurrent', OtherTypes'
    PROVE  RuntimeInv'
<1>1. QueueInv' /\ ServingInv' /\ \A d \in ChangeIds : ~Running(d)'
  BY ServingSettles
<1>2. RequestInv'
  BY <1>1, RequestsStay DEF serving
<1>3. TypeOK'
  BY <1>1, TypesFit DEF QueueInv
<1>. QED
  BY <1>1, <1>2, <1>3 DEF RuntimeInv

LEMMA ExitsStay ==
    ASSUME ExitIsCurrent, UNCHANGED <<modules, exits>>
    PROVE  ExitIsCurrent'
  BY DEF ExitIsCurrent

\* A change that only goes to its next phase.
LEMMA RunEnters ==
    ASSUME RuntimeInv, NEW c \in ChangeIds, NEW from, IsIn(c, from), from \notin {"queued", "retiring"},
           NEW to \in Phases, Enters(c, to), UNCHANGED <<serving, requests, exits, unstarted, host>>,
           OtherTypes',
           to \notin {"unused", "acquiring", "queued", "settled", "retiring"},
           to \in PhasesOf(changes[c].kind),
           changes[c].candidate = None => (changes[c].kind \in Updates => to \notin Candidates),
           changes[c].candidate # None => to \in Candidates,
           to \in {"unloading", "draining"} => changes[c].previous # None,
           to = "reloading" =>
              \A p \in Plugins : changes[c].kind # "exit" /\ changes[c].plugins = {p} => modules[p] = None,
           from = "reloading" => to = "reloading",
           StaysQuiet(c)'
    PROVE  RuntimeInv'
<1>. PICK k : k = [changes[c] EXCEPT !.phase = to]
  OBVIOUS
<1>1. /\ tail # <<>> /\ c = tail[1] /\ Owns(c) /\ changes[c] \in Change /\ Fits(changes[c])
      /\ changes[c].phase = from /\ ~IsIdle(changes[c]) /\ RunFits(c)
  BY HeadIs
<1>2. /\ k \in Change /\ k.phase = to /\ k.kind = changes[c].kind /\ k.plugins = changes[c].plugins
      /\ k.previous = changes[c].previous /\ k.candidate = changes[c].candidate
      /\ k.consent = changes[c].consent /\ Goes(c, k)
  BY <1>1 DEF Enters, Change
<1>3. Fits(k)
  BY <1>1, <1>2 DEF Fits, IsIdle
<1>4. \A p \in Plugins : k.kind # "exit" /\ k.plugins = {p} =>
         modules[p] = IF k.phase = "reloading" THEN None ELSE k.previous
  BY <1>1, <1>2 DEF RunFits
<1>5. ExitIsCurrent'
  BY ExitsStay DEF RuntimeInv, ServingInv, serving
<1>. QED
  BY <1>1, <1>2, <1>3, <1>4, <1>5, RunMoves

LEMMA EnteredIs ==
    ASSUME RuntimeInv, NEW c \in ChangeIds, NEW to \in Phases, Enters(c, to)
    PROVE  /\ changes'[c] \in Change /\ changes'[c].phase = to
           /\ changes'[c].previous = changes[c].previous /\ changes'[c].consent = changes[c].consent
           /\ changes'[c].kind = changes[c].kind /\ changes'[c].plugins = changes[c].plugins
           /\ changes'[c].candidate = changes[c].candidate
  BY SMTT(20) DEF RuntimeInv, TypeOK, Enters, Goes, Change

\* A change that fails closes its candidate, if it has one, and settles.
LEMMA RunFails ==
    ASSUME RuntimeInv, NEW c \in ChangeIds, NEW from, IsIn(c, from),
           from \notin {"queued", "retiring", "reloading"}, Fails(c),
           UNCHANGED <<serving, requests, consents, unstarted, host>>, works' \subseteq works
    PROVE  RuntimeInv'
<1>1. /\ tail # <<>> /\ c = tail[1] /\ Owns(c) /\ changes[c] \in Change /\ Fits(changes[c])
      /\ changes[c].phase = from /\ ~IsIdle(changes[c])
      /\ changes[c].kind # "exit" => PluginOf(c) \in Plugins
  BY HeadIs
<1>2. OtherTypes'
  BY <1>1 DEF Fails, OtherTypes, RuntimeInv, TypeOK, serving, consents
<1>3. ExitIsCurrent'
  BY ExitsStay DEF RuntimeInv, ServingInv, serving, consents
<1>4. CASE changes[c].candidate = None
  BY <1>1, <1>2, <1>3, <1>4, RunSettles DEF Fails
<1>5. CASE changes[c].candidate # None
  <2>. PICK to \in Phases : to = "rejecting"
    BY DEF Phases
  <2>1. Enters(c, to)
    BY <1>5 DEF Fails
  <2>2. changes[c].kind \in Updates
    BY <1>1, <1>5 DEF Fits
  <2>3. to \in PhasesOf(changes[c].kind) /\ to \in Candidates
    BY <2>2 DEF PhasesOf, Candidates, Updates
  <2>4. StaysQuiet(c)'
    BY <2>1, EnteredIs DEF StaysQuiet
  <2>. QED
    BY <1>2, <1>5, <2>1, <2>3, <2>4, RunEnters DEF consents
<1>. QED
  BY <1>4, <1>5

LEMMA PrepareKeeps ==
    ASSUME RuntimeInv, NEW c \in ChangeIds, Prepare(c) \/ PrepareFails(c)
    PROVE  RuntimeInv'
<1>. PICK from : from = "preparing"
  OBVIOUS
<1>1. IsIn(c, from)
  BY DEF Prepare, PrepareFails
<1>2. /\ tail # <<>> /\ c = tail[1] /\ Owns(c) /\ changes[c] \in Change /\ Fits(changes[c])
      /\ changes[c].phase = from /\ ~IsIdle(changes[c])
  BY <1>1, HeadIs
<1>3. CASE PrepareFails(c)
  BY <1>1, <1>3, RunFails DEF PrepareFails
<1>4. CASE Prepare(c)
  <2>1. OtherTypes' /\ ExitIsCurrent'
    BY <1>4, ExitsStay DEF Prepare, OtherTypes, RuntimeInv, ServingInv, TypeOK, serving, consents
  <2>2. changes[c].candidate = None
    BY <1>2 DEF Fits, Candidates
  <2>3. CASE Settles(c)
    BY <1>2, <1>4, <2>1, <2>2, <2>3, RunSettles DEF Prepare
  <2>4. CASE Enters(c, "connections")
    <3>. PICK to \in Phases : to = "connections"
      BY DEF Phases
    <3>1. to \in PhasesOf(changes[c].kind) /\ to \notin Candidates
      BY <1>2 DEF Fits, IsIdle, PhasesOf, Candidates, Updates
    <3>2. StaysQuiet(c)'
      BY <2>4, EnteredIs DEF StaysQuiet
    <3>. QED
      BY <1>1, <1>4, <2>1, <2>2, <2>4, <3>1, <3>2, RunEnters DEF Prepare, consents
  <2>. QED
    BY <1>4, <2>3, <2>4 DEF Prepare
<1>. QED
  BY <1>3, <1>4

LEMMA ConnectedKeeps ==
    ASSUME RuntimeInv, NEW c \in ChangeIds, Connected(c)
    PROVE  RuntimeInv'
<1>. PICK from : from = "connections"
  OBVIOUS
<1>1. IsIn(c, from)
  BY DEF Connected
<1>2. /\ tail # <<>> /\ c = tail[1] /\ Owns(c) /\ changes[c] \in Change /\ Fits(changes[c])
      /\ changes[c].phase = from /\ ~IsIdle(changes[c]) /\ RunFits(c)
  BY <1>1, HeadIs
<1>. PICK k : /\ Goes(c, k)
              /\ \E held \in BOOLEAN :
                   k = [changes[c] EXCEPT !.phase = "reviewing",
                                          !.consent = IF held THEN @ ELSE None]
  <2>. PICK held \in BOOLEAN : held <=>
         changes[c].consent # None /\ changes[c].consent = confirmations[PluginOf(c)]
    OBVIOUS
  <2>. QED
    BY DEF Connected
<1>3. /\ k \in Change /\ k.phase = "reviewing" /\ k.kind = changes[c].kind
      /\ k.plugins = changes[c].plugins
      /\ k.previous = changes[c].previous /\ k.candidate = changes[c].candidate
  BY <1>2 DEF Change, Phases, MaybeConsent
<1>4. Fits(k)
  BY <1>2, <1>3 DEF Fits, IsIdle, PhasesOf, Candidates, Updates
<1>5. OtherTypes' /\ ExitIsCurrent'
  BY ExitsStay
     DEF Connected, OtherTypes, RuntimeInv, ServingInv, TypeOK, serving, MaybeConsent
<1>6. \A p \in Plugins : k.kind # "exit" /\ k.plugins = {p} =>
         modules[p] = IF k.phase = "reloading" THEN None ELSE k.previous
  BY <1>2, <1>3 DEF RunFits
<1>7. StaysQuiet(c)'
  <2>1. changes'[c] = k
    BY DEF Goes, RuntimeInv, TypeOK
  <2>. QED
    BY <1>3, <2>1 DEF StaysQuiet
<1>. QED
  BY <1>2, <1>3, <1>4, <1>5, <1>6, <1>7, RunMoves DEF Connected

LEMMA ReviewKeeps ==
    ASSUME RuntimeInv, NEW c \in ChangeIds, Reviewed(c) \/ ReviewStops(c)
    PROVE  RuntimeInv'
<1>. PICK from : from = "reviewing"
  OBVIOUS
<1>1. IsIn(c, from)
  BY DEF Reviewed, ReviewStops
<1>2. /\ tail # <<>> /\ c = tail[1] /\ Owns(c) /\ changes[c] \in Change /\ Fits(changes[c])
      /\ changes[c].phase = from /\ ~IsIdle(changes[c]) /\ changes[c].candidate = None
      /\ changes[c].kind # "exit" => PluginOf(c) \in Plugins
  BY <1>1, HeadIs DEF Fits, Candidates
<1>3. CASE Reviewed(c)
  <2>1. OtherTypes'
    BY <1>3 DEF Reviewed, OtherTypes, RuntimeInv, TypeOK, serving, consents
  <2>. PICK to \in Phases :
         to = IF changes[c].kind \in {"install", "retry"} THEN "loading"
              ELSE IF changes[c].previous = None THEN "committing"
              ELSE "unloading"
    BY DEF Phases
  <2>2. /\ Enters(c, to) /\ MayStop(c) /\ to \in {"loading", "committing", "unloading"}
        /\ changes[c].kind \in Updates => to = "loading"
        /\ changes[c].kind \notin Updates => to # "loading"
        /\ to = "unloading" => changes[c].previous # None
        /\ to = "committing" => changes[c].previous = None
        /\ changes[c].kind \in IntentKinds \cup {"recovery"}
    <3>1. Enters(c, to)
      BY <1>3 DEF Reviewed
    <3>2. MayStop(c) /\ changes[c].kind \in IntentKinds \cup {"recovery"}
      BY <1>3 DEF Reviewed
    <3>3. CASE changes[c].kind \in Updates
      BY <3>1, <3>2, <3>3 DEF Updates
    <3>4. CASE changes[c].kind \notin Updates /\ changes[c].previous = None
      BY <3>1, <3>2, <3>4 DEF Updates
    <3>5. CASE changes[c].kind \notin Updates /\ changes[c].previous # None
      BY <3>1, <3>2, <3>5 DEF Updates
    <3>. QED
      BY <3>3, <3>4, <3>5
  <2>3. to \in PhasesOf(changes[c].kind) /\ (changes[c].kind \in Updates => to \notin Candidates)
    <3>1. CASE changes[c].kind \in Updates
      BY <2>2, <3>1 DEF PhasesOf, Candidates, Updates
    <3>2. CASE changes[c].kind = "remove"
      BY <2>2, <3>2 DEF PhasesOf, Candidates, Updates
    <3>3. CASE changes[c].kind = "recovery"
      <4>1. changes[c].previous # None
        BY <1>2, <3>3 DEF Fits
      <4>. QED
        BY <2>2, <3>3, <4>1 DEF PhasesOf, Candidates, Updates
    <3>. QED
      BY <2>2, <3>1, <3>2, <3>3 DEF IntentKinds, Updates
  <2>4. StaysQuiet(c)'
    <3>1. /\ changes'[c].phase = to /\ changes'[c].previous = changes[c].previous
          /\ changes'[c].consent = changes[c].consent
      BY <2>2, EnteredIs
    <3>2. requests' = requests /\ works' = works
      BY <1>3 DEF Reviewed
    <3>. QED
      BY <2>2, <3>1, <3>2 DEF StaysQuiet, MayStop, IsConfirmed, IsBusy, Begun, Tracked
  <2>. QED
    BY <1>1, <1>2, <1>3, <2>1, <2>2, <2>3, <2>4, RunEnters DEF Reviewed, consents
<1>4. CASE ReviewStops(c)
  <2>1. CASE Fails(c)
    BY <1>1, <1>4, <2>1, RunFails DEF ReviewStops
  <2>2. CASE changes[c].kind = "recovery" /\ Settles(c)
    <3>1. OtherTypes' /\ ExitIsCurrent'
      BY <1>2, <1>4, <2>2, ExitsStay
         DEF ReviewStops, Fails, OtherTypes, RuntimeInv, ServingInv, TypeOK, serving, consents, IntentKinds
    <3>. QED
      BY <1>2, <1>4, <2>2, <3>1, RunSettles DEF ReviewStops
  <2>. QED
    BY <1>4, <2>1, <2>2 DEF ReviewStops
<1>. QED
  BY <1>3, <1>4

LEMMA GiveConsentKeeps ==
    ASSUME RuntimeInv, NEW c \in ChangeIds, GiveConsent(c)
    PROVE  RuntimeInv'
<1>. PICK from : from = "reviewing"
  OBVIOUS
<1>1. IsIn(c, from)
  BY DEF GiveConsent
<1>2. /\ tail # <<>> /\ c = tail[1] /\ Owns(c) /\ changes[c] \in Change /\ Fits(changes[c])
      /\ changes[c].phase = from /\ ~IsIdle(changes[c]) /\ changes[c].candidate = None
  BY <1>1, HeadIs DEF Fits, Candidates
<1>3. changes[c].previous \in BackendIds
  BY <1>2 DEF GiveConsent, Fits, Change, MaybeBackend
<1>4. ConsentOp(c) \in IntentKinds
  BY DEF GiveConsent, ReviewKinds, ConsentOp
<1>5. WarningOf(changes[c].previous) \in Warnings
  BY DEF WarningOf, Warnings, Begun
<1>6. confirmations' \in [Plugins -> MaybeConsent]
  BY <1>3, <1>4, <1>5 DEF GiveConsent, RuntimeInv, TypeOK, MaybeConsent, Consent
<1>7. OtherTypes' /\ ExitIsCurrent'
  BY <1>6, ExitsStay DEF GiveConsent, OtherTypes, RuntimeInv, ServingInv, TypeOK, serving
<1>. QED
  BY <1>2, <1>7, RunSettles DEF GiveConsent

LEMMA ExitReviewKeeps ==
    ASSUME RuntimeInv, NEW c \in ChangeIds, AnswerExit(c) \/ ResolveExit(c)
    PROVE  RuntimeInv'
<1>1. CASE AnswerExit(c)
  <2>. PICK from : from = "reviewing"
    OBVIOUS
  <2>1. IsIn(c, from)
    BY <1>1 DEF AnswerExit
  <2>2. /\ tail # <<>> /\ c = tail[1] /\ Owns(c) /\ Fits(changes[c])
        /\ changes[c].phase = from /\ ~IsIdle(changes[c]) /\ changes[c].candidate = None
    BY <2>1, HeadIs DEF Fits, Candidates
  <2>3. exits' \in {exits, [p \in Plugins |-> None]} /\ modules' = modules
    BY <1>1 DEF AnswerExit, serving
  <2>4. ExitIsCurrent'
    BY <2>3 DEF ExitIsCurrent, RuntimeInv, ServingInv
  <2>5. prompts' \in [Plugins -> MaybeBackend]
    BY <1>1 DEF AnswerExit, RuntimeInv, TypeOK
  <2>6. OtherTypes'
    BY <1>1, <2>3, <2>5 DEF AnswerExit, OtherTypes, RuntimeInv, TypeOK, serving, MaybeBackend
  <2>. QED
    BY <1>1, <2>2, <2>4, <2>6, RunSettles DEF AnswerExit
<1>2. CASE ResolveExit(c)
  <2>. PICK from : from = "resolving"
    OBVIOUS
  <2>1. IsIn(c, from)
    BY <1>2 DEF ResolveExit
  <2>2. /\ tail # <<>> /\ c = tail[1] /\ Owns(c) /\ Fits(changes[c]) /\ changes[c] \in Change
        /\ changes[c].phase = from /\ ~IsIdle(changes[c]) /\ changes[c].candidate = None
        /\ RunFits(c)
    BY <2>1, HeadIs DEF Fits, Candidates
  <2>3. changes[c].kind # "exit"
    BY <2>2 DEF Fits, PhasesOf, Updates
  <2>4. /\ PluginOf(c) \in Plugins /\ changes[c].plugins = {PluginOf(c)}
        /\ modules[PluginOf(c)] = changes[c].previous
    BY <2>1, <2>2, <2>3, HeadIs DEF RunFits
  <2>5. /\ modules' = modules /\ exits \in [Plugins -> MaybeBackend]
        /\ exits' \in {[exits EXCEPT ![PluginOf(c)] = changes[c].previous],
                       [p \in Plugins |-> None]}
    BY <1>2 DEF ResolveExit, serving, RuntimeInv, TypeOK
  <2>6. ExitIsCurrent'
    BY <2>4, <2>5 DEF ExitIsCurrent, RuntimeInv, ServingInv
  <2>7. exits' \in [Plugins -> MaybeBackend]
    BY <2>2, <2>5 DEF Change, MaybeBackend
  <2>8. OtherTypes'
    BY <1>2, <2>7 DEF ResolveExit, OtherTypes, RuntimeInv, TypeOK, serving
  <2>. QED
    BY <1>2, <2>2, <2>6, <2>8, RunSettles DEF ResolveExit
<1>. QED
  BY <1>1, <1>2

LEMMA LoadFailsKeeps ==
    ASSUME RuntimeInv, NEW c \in ChangeIds, LoadFails(c) \/ UnloadFails(c) \/ CommitFails(c)
    PROVE  RuntimeInv'
<1>. PICK from : from \in {"loading", "unloading", "committing"} /\ IsIn(c, from)
  BY DEF LoadFails, UnloadFails, CommitFails
<1>1. works' \subseteq works /\ Fails(c) /\ UNCHANGED <<serving, requests, consents, unstarted, host>>
  BY DEF LoadFails, UnloadFails, CommitFails
<1>. QED
  BY <1>1, RunFails

LEMMA StartupFailsKeeps ==
    ASSUME RuntimeInv, NEW c \in ChangeIds, StartupFails(c)
    PROVE  RuntimeInv'
<1>. PICK from : from = "loading"
  OBVIOUS
<1>1. IsIn(c, from)
  BY DEF StartupFails
<1>2. /\ tail # <<>> /\ c = tail[1] /\ Owns(c) /\ Fits(changes[c]) /\ RunFits(c)
      /\ changes[c].phase = from /\ ~IsIdle(changes[c]) /\ changes[c].candidate = None
      /\ changes[c].kind = "startup"
  BY <1>1, HeadIs DEF Fits, Candidates, StartupFails
<1>3. PluginOf(c) \in Plugins /\ changes[c].plugins = {PluginOf(c)}
  BY <1>1, <1>2, HeadIs
<1>4. OtherTypes' /\ ExitIsCurrent'
  BY <1>3, ExitsStay
     DEF StartupFails, OtherTypes, RuntimeInv, ServingInv, TypeOK, serving, consents
<1>5. CASE Settles(c)
  BY <1>2, <1>4, <1>5, RunSettles DEF StartupFails
<1>6. CASE Enters(c, "committing")
  <2>. PICK to \in Phases : to = "committing"
    BY DEF Phases
  <2>1. to \in PhasesOf(changes[c].kind) /\ changes[c].kind \notin Updates
    BY <1>2 DEF PhasesOf, Updates
  <2>2. changes[c].previous = None
    BY <1>2, <1>3 DEF RunFits, RuntimeInv, ServingInv, StartupFits
  <2>3. StaysQuiet(c)'
    BY <1>6, <2>2, EnteredIs DEF StaysQuiet
  <2>. QED
    BY <1>1, <1>2, <1>4, <1>6, <2>1, <2>3, RunEnters DEF StartupFails, consents
<1>. QED
  BY <1>5, <1>6 DEF StartupFails

LEMMA UnloadKeeps ==
    ASSUME RuntimeInv, NEW c \in ChangeIds, Unload(c)
    PROVE  RuntimeInv'
<1>. PICK from : from = "unloading"
  OBVIOUS
<1>. PICK to \in Phases : to = "draining"
  BY DEF Phases
<1>1. IsIn(c, from) /\ Enters(c, to)
  BY DEF Unload
<1>2. /\ Fits(changes[c]) /\ ~IsIdle(changes[c]) /\ changes[c].phase = from
  BY <1>1, HeadIs
<1>3. to \in PhasesOf(changes[c].kind) /\ to \in Candidates /\ changes[c].previous # None
  BY <1>2 DEF Fits, PhasesOf, Updates, Candidates
<1>4. changes[c].candidate = None => changes[c].kind \notin Updates
  BY <1>2 DEF Fits, Candidates
<1>5. OtherTypes'
  BY DEF Unload, OtherTypes, RuntimeInv, TypeOK, serving, consents
<1>6. StaysQuiet(c)'
  BY <1>1, EnteredIs DEF StaysQuiet
<1>. QED
  BY <1>1, <1>3, <1>4, <1>5, <1>6, RunEnters DEF Unload, consents

LEMMA DrainKeeps ==
    ASSUME RuntimeInv, NEW c \in ChangeIds, Drain(c)
    PROVE  RuntimeInv'
<1>. PICK from : from = "draining"
  OBVIOUS
<1>. PICK to \in Phases : to = "committing"
  BY DEF Phases
<1>1. IsIn(c, from)
  BY DEF Drain
<1>2. /\ Fits(changes[c]) /\ ~IsIdle(changes[c]) /\ changes[c].phase = from
  BY <1>1, HeadIs
<1>3. CASE Fails(c)
  BY <1>1, <1>3, RunFails DEF Drain
<1>4. CASE Enters(c, to) /\ UNCHANGED errors
  <2>1. to \in PhasesOf(changes[c].kind) /\ to \in Candidates
    BY <1>2 DEF Fits, PhasesOf, Updates, Candidates
  <2>2. changes[c].candidate = None => changes[c].kind \notin Updates
    BY <1>2 DEF Fits, Candidates
  <2>3. OtherTypes'
    BY <1>4 DEF Drain, OtherTypes, RuntimeInv, TypeOK, serving, consents
  <2>4. StaysQuiet(c)'
    <3>1. changes'[c].phase = to /\ changes'[c].previous = changes[c].previous
      BY <1>4, EnteredIs
    <3>. QED
      BY <3>1 DEF StaysQuiet, Drain, Tracked
  <2>. QED
    BY <1>1, <1>4, <2>1, <2>2, <2>3, <2>4, RunEnters DEF Drain, consents
<1>. QED
  BY <1>3, <1>4 DEF Drain

LEMMA RollbackStartupKeeps ==
    ASSUME RuntimeInv, NEW c \in ChangeIds, RollbackStartup(c)
    PROVE  RuntimeInv'
<1>. PICK from : from = "committing"
  OBVIOUS
<1>1. IsIn(c, from)
  BY DEF RollbackStartup
<1>2. /\ tail # <<>> /\ c = tail[1] /\ Owns(c) /\ Fits(changes[c])
      /\ changes[c].phase = from /\ ~IsIdle(changes[c])
      /\ changes[c].kind = "startup"
  BY <1>1, HeadIs DEF RollbackStartup
<1>3. changes[c].kind \notin Updates /\ changes[c].candidate = None
  BY <1>2 DEF Updates, Fits
<1>4. OtherTypes' /\ ExitIsCurrent'
  BY ExitsStay DEF RollbackStartup, OtherTypes, RuntimeInv, ServingInv, TypeOK, serving, consents
<1>5. CASE Settles(c)
  BY <1>2, <1>3, <1>4, <1>5, RunSettles DEF RollbackStartup
<1>6. CASE Enters(c, "reloading")
  <2>. PICK to \in Phases : to = "reloading"
    BY DEF Phases
  <2>1. to \in PhasesOf(changes[c].kind)
    BY <1>2 DEF PhasesOf, Updates
  <2>2. \A p \in Plugins : changes[c].plugins = {p} => modules[p] = None
    BY <1>2 DEF RuntimeInv, ServingInv, StartupFits
  <2>3. StaysQuiet(c)'
    BY <1>6, EnteredIs DEF StaysQuiet
  <2>. QED
    BY <1>1, <1>3, <1>4, <1>6, <2>1, <2>2, <2>3, RunEnters DEF RollbackStartup, consents
<1>. QED
  BY <1>5, <1>6 DEF RollbackStartup

LEMMA ReloadFailsKeeps ==
    ASSUME RuntimeInv, NEW c \in ChangeIds, ReloadFails(c)
    PROVE  RuntimeInv'
<1>. PICK from : from = "reloading"
  OBVIOUS
<1>1. IsIn(c, from)
  BY DEF ReloadFails
<1>2. /\ tail # <<>> /\ c = tail[1] /\ Owns(c) /\ Fits(changes[c])
      /\ changes[c].phase = from /\ ~IsIdle(changes[c]) /\ changes[c].candidate = None
  BY <1>1, HeadIs DEF Fits, Candidates
<1>3. OtherTypes' /\ ExitIsCurrent'
  BY ExitsStay DEF ReloadFails, OtherTypes, RuntimeInv, ServingInv, TypeOK, serving, consents
<1>. QED
  BY <1>2, <1>3, RunSettles DEF ReloadFails

LEMMA BeginKeeps ==
    ASSUME RuntimeInv, NEW c \in ChangeIds, Begin(c)
    PROVE  RuntimeInv'
<1>1. /\ tail # <<>> /\ changes[c].phase = "queued" /\ changes[c] \in Change
      /\ c = tail[1] /\ Owns(c) /\ Fits(changes[c]) /\ ~IsIdle(changes[c])
      /\ changes[c].candidate = None
  <2>1. tail # <<>> /\ tail \in Seq(ChangeIds) /\ Head(tail) = c /\ changes[c].phase = "queued"
    BY DEF Begin, RuntimeInv, TypeOK
  <2>2. changes[c] \in Change /\ Fits(changes[c]) /\ Owns(c)
    BY <2>1 DEF RuntimeInv, QueueInv, QueueTyped, QueueFits
  <2>. QED
    BY <2>1, <2>2 DEF Fits, IsIdle, Candidates
<1>2. UNCHANGED <<serving, works, errors, requests, confirmations, prompts, unstarted, host>>
  BY DEF Begin
<1>3. exits' \in {exits, [p \in Plugins |-> None]}
  BY DEF Begin
<1>4. OtherTypes' /\ ExitIsCurrent'
  BY <1>2, <1>3
     DEF OtherTypes, ExitIsCurrent, RuntimeInv, ServingInv, TypeOK, serving, MaybeBackend
<1>5. CASE Settles(c)
  BY <1>1, <1>2, <1>4, <1>5, RunSettles
<1>6. CASE ~EndsAtOnce(c)
  <2>1. ASSUME changes[c].kind # "exit"
        PROVE  PluginOf(c) \in Plugins /\ changes[c].plugins = {PluginOf(c)}
    <3>1. PICK p \in Plugins : changes[c].plugins = {p}
      BY <1>1, <2>1 DEF Fits
    <3>. QED
      BY <3>1, PluginIsOne
  <2>. PICK k : k = [changes[c] EXCEPT
              !.phase = FirstPhase(changes[c].kind),
              !.previous = IF changes[c].kind = "exit" THEN None ELSE modules[PluginOf(c)]]
    OBVIOUS
  <2>2. /\ FirstPhase(changes[c].kind) \in Phases /\ changes[c].kind \in Kinds
        /\ FirstPhase(changes[c].kind) \in PhasesOf(changes[c].kind)
        /\ FirstPhase(changes[c].kind) = "loading" => changes[c].kind = "startup"
        /\ FirstPhase(changes[c].kind) \in
             {"loading", "preparing", "connections", "reviewing", "resolving"}
    <3>1. changes[c].kind \in Kinds
      BY <1>1 DEF Change
    <3>2. changes[c].kind \in {"install", "retry", "remove", "startup", "recovery", "resolve", "exit"}
                         \cup ReviewKinds
      BY <3>1 DEF Kinds, IntentKinds
    <3>3. ReviewKinds = {"review-install", "review-retry", "review-remove"}
      BY DEF ReviewKinds, Reviews, IntentKinds
    <3>. QED
      BY <3>1, <3>2, <3>3 DEF FirstPhase, PhasesOf, Updates, Phases
  <2>3. /\ k \in Change /\ k.phase = FirstPhase(changes[c].kind) /\ k.kind = changes[c].kind
        /\ k.plugins = changes[c].plugins /\ k.candidate = None /\ k.consent = changes[c].consent
        /\ k.previous = IF changes[c].kind = "exit" THEN None ELSE modules[PluginOf(c)]
    BY <1>1, <2>1, <2>2, ZenonT(30) DEF Change, RuntimeInv, TypeOK, MaybeBackend
  <2>4. Goes(c, k)
    BY <1>6 DEF Begin
  <2>5. Fits(k)
    <3>1. k.kind = "recovery" => k.previous # None
      BY <1>1, <1>6, <2>3 DEF EndsAtOnce, Fits
    <3>2. k.kind \in ReviewKinds \cup {"resolve"} => k.previous # None
      BY <1>6, <2>3 DEF EndsAtOnce, ReviewKinds, Reviews, IntentKinds
    <3>. QED
      BY <1>1, <2>2, <2>3, <3>1, <3>2 DEF Fits, IsIdle, Candidates
  <2>6. \A p \in Plugins : k.kind # "exit" /\ k.plugins = {p} =>
           modules[p] = IF k.phase = "reloading" THEN None ELSE k.previous
    BY <2>1, <2>2, <2>3
  <2>7. StaysQuiet(c)'
    <3>1. changes'[c] = k
      BY <2>4 DEF Goes, RuntimeInv, TypeOK
    <3>2. ASSUME k.kind = "startup" PROVE k.previous = None
      BY <1>1, <2>1, <2>3, <3>2 DEF RuntimeInv, ServingInv, StartupFits
    <3>. QED
      BY <2>2, <2>3, <3>1, <3>2 DEF StaysQuiet
  <2>8. changes[c].candidate = k.candidate /\ k.phase \notin
           {"unused", "acquiring", "queued", "settled", "retiring"}
    BY <1>1, <2>2, <2>3
  <2>. QED
    BY <1>1, <1>2, <1>4, <2>3, <2>4, <2>5, <2>6, <2>7, <2>8, RunMoves, ZenonT(50)
<1>. QED
  BY <1>5, <1>6 DEF Begin

---------------------------------------------------------------------------
(* The admission of changes.                                               *)

LEMMA Waits ==
    ASSUME RuntimeInv, NEW c \in ChangeIds, ~Owns(c), NEW k \in Change, Fits(k),
           changes' = [changes EXCEPT ![c] = k],
           \/ k.phase = "queued" /\ tail' = Append(tail, c) /\ host \in {"open", "closing"}
           \/ k.phase \in {"acquiring", "settled"} /\ tail' = tail,
           intents' \in [Plugins -> ChangeIds \cup {None}], IntentsFit', StartupFits',
           unstarted' \subseteq Plugins,
           UNCHANGED <<serving, works, errors, requests, consents, host>>
    PROVE  RuntimeInv'
<1>1. QueueInv /\ ServingInv /\ RequestInv /\ TypeOK /\ host' = host
  BY DEF RuntimeInv
<1>2. /\ QueueInv' /\ changes'[c] = k /\ \A d \in ChangeIds \ {c} : changes'[d] = changes[d]
      /\ \A d \in ChangeIds : Running(d)' <=> Running(d)
  BY <1>1, ChangeWaits
<1>3. \A d \in ChangeIds : Running(d) => d # c
  BY DEF Running
<1>4. \A d \in ChangeIds : Running(d) => changes'[d] = changes[d]
  BY <1>2, <1>3
<1>5. /\ modules' = modules /\ selected' = selected /\ backends' = backends
      /\ works' = works /\ requests' = requests /\ exits' = exits
  BY DEF serving, consents
<1>6. BackendsFit' /\ OneBackendServes' /\ ExitIsCurrent'
  <2>1. BackendsFit'
    BY <1>1, <1>2, <1>4, <1>5 DEF ServingInv, BackendsFit
  <2>. QED
    BY <1>1, <1>5, <2>1 DEF ServingInv, OneBackendServes, ExitIsCurrent
<1>7. \A d \in ChangeIds : Running(d)' => RunFits(d)'
  BY <1>1, <1>2, <1>4, <1>5 DEF ServingInv, RunFits
<1>8. \A p \in Plugins : IsReplacing(p)' <=> IsReplacing(p)
  BY <1>2, <1>4 DEF IsReplacing
<1>9. ServingInv'
  BY <1>1, <1>5, <1>6, <1>7, <1>8 DEF ServingInv
<1>10. RequestInv'
  <2>1. \A d \in ChangeIds : Running(d)' => StaysQuiet(d)'
    BY <1>1, <1>2, <1>4, <1>5 DEF RequestInv, StaysQuiet, Tracked, IsBusy, Begun
  <2>. QED
    BY <1>5, <2>1, RequestsStay
<1>11. TypeOK'
  BY <1>1, <1>2 DEF TypeOK, QueueInv, QueueTyped, serving, consents
<1>. QED
  BY <1>2, <1>9, <1>10, <1>11 DEF RuntimeInv

\* A change that is admitted is not yet in the queue, and the host is open.
LEMMA NextIsFree ==
    ASSUME RuntimeInv, NEW c \in ChangeIds, changes[c].phase \in {"unused", "acquiring"}
    PROVE  ~Owns(c)
  BY DEF RuntimeInv, QueueInv, QueueFits

\* After the start every change may be asked for.
LEMMA StartedStays ==
    ASSUME Started, NEW c \in ChangeIds, changes \in [ChangeIds -> Change], NEW k \in Change,
           k.kind # "startup", changes' = [changes EXCEPT ![c] = k], unstarted' = unstarted,
           \A d \in ChangeIds : Owns(d)' => Owns(d) \/ d = c
    PROVE  StartupFits'
<1>1. changes'[c] = k /\ \A d \in ChangeIds \ {c} : changes'[d] = changes[d]
  OBVIOUS
<1>2. unstarted' = {} /\ \A d \in ChangeIds : Owns(d)' => changes'[d].kind # "startup"
  BY <1>1 DEF Started
<1>3. Started'
  BY <1>2 DEF Started
<1>. QED
  BY <1>2, <1>3 DEF StartupFits

LEMMA OwnsAdmitted ==
    ASSUME RuntimeInv, NEW c \in ChangeIds, tail' = Append(tail, c)
    PROVE  \A d \in ChangeIds : Owns(d)' => Owns(d) \/ d = c
<1>1. tail \in Seq(ChangeIds)
  BY DEF RuntimeInv, TypeOK
<1>. QED
  BY <1>1 DEF Owns

LEMMA StartupKeeps ==
    ASSUME RuntimeInv, NEW c \in ChangeIds, Startup(c)
    PROVE  RuntimeInv'
<1>. PICK q \in unstarted : unstarted' = unstarted \ {q} /\ Admits(c, NewChange("startup", {q}, "queued"))
  BY DEF Startup
<1>1. q \in Plugins /\ unstarted \subseteq Plugins /\ host = "open" /\ ~Owns(c)
  BY NextIsFree DEF RuntimeInv, TypeOK, Startup, IsNext, Closing
<1>. PICK k : k = NewChange("startup", {q}, "queued")
  OBVIOUS
<1>2. /\ k \in Change /\ k.kind = "startup" /\ k.plugins = {q} /\ k.phase = "queued"
      /\ k.previous = None /\ k.candidate = None
  <2>. PICK kind \in Kinds : kind = "startup"
    BY DEF Kinds
  <2>. PICK ps \in SUBSET Plugins : ps = {q}
    BY <1>1
  <2>. PICK phase \in Phases : phase = "queued"
    BY DEF Phases
  <2>. QED
    BY NewChangeTyped
<1>3. Fits(k)
  BY <1>1, <1>2 DEF Fits, IsIdle, PhasesOf, Updates, Candidates, ReviewKinds, Reviews, IntentKinds
<1>4. /\ changes' = [changes EXCEPT ![c] = k] /\ tail' = Append(tail, c)
      /\ UNCHANGED <<serving, works, errors, requests, intents, consents, host>>
  BY DEF Startup, Admits
<1>5. /\ changes \in [ChangeIds -> Change] /\ intents \in [Plugins -> ChangeIds \cup {None}]
      /\ \A d \in ChangeIds : Owns(d)' => Owns(d) \/ d = c
  BY <1>4, OwnsAdmitted DEF RuntimeInv, TypeOK
<1>6. changes'[c] = k /\ \A d \in ChangeIds \ {c} : changes'[d] = changes[d]
  BY <1>4, <1>5
<1>7. IntentsFit'
  BY <1>2, <1>4, <1>5, <1>6 DEF IntentsFit, RuntimeInv, QueueInv, Closing, IntentKinds
<1>8. StartupFits'
  <2>1. StartupFits /\ modules' = modules
    BY <1>4 DEF RuntimeInv, ServingInv, serving
  <2>2. \A d \in ChangeIds : ~Owns(d)
    <3>1. \A d \in ChangeIds : Owns(d) => changes[d].kind # "startup"
      BY DEF Startup
    <3>2. ~Started
      BY DEF Started
    <3>. QED
      BY <2>1, <3>1, <3>2 DEF StartupFits
  <2>3. \A d \in ChangeIds : Owns(d)' => d = c
    BY <1>5, <2>2
  <2>4. modules[q] = None
    BY <1>1, <2>1 DEF StartupFits
  <2>. QED
    BY <1>2, <1>6, <2>1, <2>3, <2>4 DEF StartupFits
<1>. QED
  BY <1>1, <1>2, <1>3, <1>4, <1>5, <1>7, <1>8, Waits

LEMMA IntentFits ==
    ASSUME NEW k \in Change, k.kind \in IntentKinds, k.phase = "acquiring",
           k.previous = None, k.candidate = None, NEW p \in Plugins, k.plugins = {p}
    PROVE  Fits(k)
<1>1. k.phase \in PhasesOf(k.kind) /\ k.phase \notin Candidates
  BY DEF PhasesOf, Updates, Candidates, IntentKinds
<1>2. k.kind \notin {"recovery", "resolve"} \cup ReviewKinds
  BY DEF IntentKinds, ReviewKinds, Reviews
<1>. QED
  BY <1>1, <1>2 DEF Fits, IsIdle

LEMMA IntendKeeps ==
    ASSUME RuntimeInv, NEW c \in ChangeIds, Intend(c)
    PROVE  RuntimeInv'
<1>. PICK kind \in IntentKinds \cap OfferedNow, q \in Plugins, withConsent \in BOOLEAN :
        /\ ~Owned(q)
        /\ changes' = [changes EXCEPT ![c] = [NewChange(kind, {q}, "acquiring") EXCEPT
             !.consent = IF withConsent THEN confirmations[q] ELSE None]]
        /\ intents' = [intents EXCEPT ![q] = c]
  BY DEF Intend
<1>. PICK k : k = [NewChange(kind, {q}, "acquiring") EXCEPT
             !.consent = IF withConsent THEN confirmations[q] ELSE None]
  OBVIOUS
<1>1. /\ k \in Change /\ k.kind = kind /\ k.plugins = {q} /\ k.phase = "acquiring"
      /\ k.previous = None /\ k.candidate = None
  <2>. PICK new : new = NewChange(kind, {q}, "acquiring")
    OBVIOUS
  <2>1. /\ new \in Change /\ new.kind = kind /\ new.plugins = {q} /\ new.phase = "acquiring"
        /\ new.previous = None /\ new.candidate = None
    <3>. PICK ps \in SUBSET Plugins : ps = {q}
      OBVIOUS
    <3>. PICK phase \in Phases : phase = "acquiring"
      BY DEF Phases
    <3>1. kind \in Kinds
      BY DEF Kinds
    <3>. QED
      BY <3>1, NewChangeTyped
  <2>2. (IF withConsent THEN confirmations[q] ELSE None) \in MaybeConsent
    BY DEF RuntimeInv, TypeOK, MaybeConsent
  <2>. QED
    BY <2>1, <2>2 DEF Change
<1>2. Fits(k)
  <2>1. k.kind \in IntentKinds
    BY <1>1
  <2>. QED
    BY <1>1, <2>1, IntentFits
<1>3. /\ ~Owns(c) /\ tail' = tail /\ changes' = [changes EXCEPT ![c] = k]
      /\ UNCHANGED <<serving, works, errors, requests, consents, unstarted, host>>
  BY NextIsFree DEF Intend, IsNext
<1>4. /\ intents \in [Plugins -> ChangeIds \cup {None}] /\ changes \in [ChangeIds -> Change]
      /\ unstarted \subseteq Plugins
  BY DEF RuntimeInv, TypeOK
<1>5. /\ intents' \in [Plugins -> ChangeIds \cup {None}]
      /\ \A d \in ChangeIds \ {c} : changes'[d] = changes[d]
      /\ \A d \in ChangeIds : Owns(d)' <=> Owns(d)
  BY <1>3, <1>4 DEF Owns
<1>6. IntentsFit'
  <2> SUFFICES ASSUME ~Closing', NEW d \in ChangeIds, NEW p \in Plugins, Owns(d)',
                      changes'[d].kind \in IntentKinds, changes'[d].plugins = {p}
               PROVE  intents'[p] = d
    BY DEF IntentsFit
  <2>1. Owns(d) /\ changes[d].kind \in IntentKinds /\ changes[d].plugins = {p} /\ ~Closing
    BY <1>3, <1>5 DEF Closing
  <2>2. intents[p] = d /\ p # q
    BY <2>1 DEF RuntimeInv, QueueInv, IntentsFit, Owned
  <2>. QED
    BY <1>4, <2>2
<1>7. StartupFits'
  <2>1. \A d \in ChangeIds : Owns(d)' => Owns(d) /\ changes'[d] = changes[d]
    BY <1>3, <1>5
  <2>. QED
    BY <1>3, <1>4, <2>1, StartupStays DEF RuntimeInv, ServingInv, serving
<1>. QED
  BY <1>1, <1>2, <1>3, <1>4, <1>5, <1>6, <1>7, Waits

LEMMA AcquiredKeeps ==
    ASSUME RuntimeInv, NEW c \in ChangeIds, Acquired(c)
    PROVE  RuntimeInv'
<1>. PICK k : k = [changes[c] EXCEPT !.phase = "queued"]
  OBVIOUS
<1>1. /\ changes[c].phase = "acquiring" /\ changes[c] \in Change /\ Fits(changes[c])
      /\ ~IsIdle(changes[c]) /\ ~Owns(c) /\ host = "open" /\ Started
  BY NextIsFree DEF Acquired, RuntimeInv, TypeOK, QueueInv, IsIdle, IsCurrent, Closing
<1>2. /\ k \in Change /\ k.phase = "queued" /\ k.kind = changes[c].kind
      /\ k.plugins = changes[c].plugins /\ k.previous = changes[c].previous
      /\ k.candidate = changes[c].candidate
  BY <1>1 DEF Change, Phases
<1>3. changes[c].kind \in IntentKinds /\ changes[c].kind # "startup" /\ changes[c].kind # "exit"
  BY <1>1 DEF Fits, PhasesOf, Updates, IntentKinds
<1>4. Fits(k)
  <2>1. k.phase \in PhasesOf(k.kind) /\ k.phase \notin Candidates /\ k.kind # "recovery"
    BY <1>2, <1>3 DEF PhasesOf, Updates, Candidates, IntentKinds
  <2>2. /\ k.previous = None /\ k.candidate = None
        /\ k.kind # "exit" => \E p \in Plugins : k.plugins = {p}
    BY <1>1, <1>2 DEF Fits, Candidates
  <2>. QED
    BY <1>2, <2>1, <2>2 DEF Fits, IsIdle
<1>5. /\ changes' = [changes EXCEPT ![c] = k] /\ tail' = Append(tail, c)
      /\ UNCHANGED <<serving, works, errors, requests, intents, consents, unstarted, host>>
  BY DEF Acquired, Admits
<1>6. /\ changes \in [ChangeIds -> Change] /\ intents \in [Plugins -> ChangeIds \cup {None}]
      /\ \A d \in ChangeIds : Owns(d)' => Owns(d) \/ d = c
      /\ unstarted \subseteq Plugins
  BY <1>5, OwnsAdmitted DEF RuntimeInv, TypeOK
<1>7. changes'[c] = k /\ \A d \in ChangeIds \ {c} : changes'[d] = changes[d]
  BY <1>5, <1>6
<1>8. IntentsFit'
  <2>1. \A p \in Plugins : changes[c].plugins = {p} => intents[p] = c
    BY <1>3, PluginIsOne DEF Acquired, IsCurrent, IsCurrentIntent
  <2>. QED
    BY <1>2, <1>5, <1>6, <1>7, <2>1 DEF IntentsFit, RuntimeInv, QueueInv, Closing
<1>9. StartupFits'
  BY <1>1, <1>2, <1>3, <1>5, <1>6, StartedStays
<1>. QED
  BY <1>1, <1>2, <1>4, <1>5, <1>6, <1>8, <1>9, Waits

LEMMA AcquireFailsKeeps ==
    ASSUME RuntimeInv, NEW c \in ChangeIds, AcquireFails(c)
    PROVE  RuntimeInv'
<1>1. /\ ~Owns(c) /\ changes' = [changes EXCEPT ![c] = Gone] /\ tail' = tail
      /\ intents' = [p \in Plugins |-> IF intents[p] = c THEN None ELSE intents[p]]
      /\ UNCHANGED <<serving, works, errors, requests, consents, unstarted, host>>
  BY NextIsFree DEF AcquireFails, ForgetIntent
<1>2. /\ changes \in [ChangeIds -> Change] /\ intents \in [Plugins -> ChangeIds \cup {None}]
      /\ unstarted \subseteq Plugins
  BY DEF RuntimeInv, TypeOK
<1>3. /\ Gone \in Change /\ Gone.phase = "settled" /\ Fits(Gone)
      /\ intents' \in [Plugins -> ChangeIds \cup {None}]
      /\ \A d \in ChangeIds : Owns(d)' => Owns(d) /\ changes'[d] = changes[d]
  BY <1>1, <1>2, GoneTyped DEF Fits, IsIdle, Owns
<1>4. IntentsFit'
  BY <1>1, <1>2, <1>3 DEF IntentsFit, RuntimeInv, QueueInv, Closing
<1>5. StartupFits'
  BY <1>1, <1>2, <1>3, StartupStays DEF RuntimeInv, ServingInv, serving
<1>. QED
  BY <1>1, <1>2, <1>3, <1>4, <1>5, Waits

LEMMA AskKeeps ==
    ASSUME RuntimeInv, NEW c \in ChangeIds, Ask(c) \/ ReviewExit(c)
    PROVE  RuntimeInv'
<1>. PICK k \in Change :
        /\ Admits(c, k) /\ Fits(k) /\ k.phase = "queued"
        /\ k.kind \notin IntentKinds \cup {"startup"}
  <2>1. CASE ReviewExit(c)
    <3>. PICK kind \in Kinds : kind = "exit"
      BY DEF Kinds
    <3>. PICK ps \in SUBSET Plugins : ps = {p \in Plugins : modules[p] # None}
      OBVIOUS
    <3>. PICK phase \in Phases : phase = "queued"
      BY DEF Phases
    <3>. PICK k : k = NewChange(kind, ps, phase)
      OBVIOUS
    <3>1. /\ k \in Change /\ k.kind = kind /\ k.phase = phase
          /\ k.previous = None /\ k.candidate = None
      BY NewChangeTyped
    <3>2. kind \notin IntentKinds \cup {"startup"}
      BY DEF IntentKinds
    <3>3. Fits(k)
      <4>1. k.phase \in PhasesOf(k.kind) /\ k.phase \notin Candidates
        BY <3>1 DEF PhasesOf, Updates, Candidates
      <4>. QED
        BY <3>1, <4>1 DEF Fits, IsIdle
    <3>. QED
      BY <2>1, <3>1, <3>2, <3>3 DEF ReviewExit
  <2>2. CASE Ask(c)
    <3>. PICK kind \in OfferedNow \ (IntentKinds \cup {"exit"}), p \in Plugins, b \in MaybeBackend :
        /\ kind = "recovery" => b # None
        /\ kind # "recovery" => b = None
        /\ Admits(c, [NewChange(kind, {p}, "queued") EXCEPT !.previous = b])
      BY <2>2 DEF Ask
    <3>1. kind \in Kinds /\ kind # "startup"
      BY DEF OfferedNow
    <3>. PICK ps \in SUBSET Plugins : ps = {p}
      OBVIOUS
    <3>. PICK phase \in Phases : phase = "queued"
      BY DEF Phases
    <3>. PICK new : new = NewChange(kind, ps, phase)
      OBVIOUS
    <3>2. /\ new \in Change /\ new.kind = kind /\ new.phase = phase /\ new.plugins = ps
          /\ new.previous = None /\ new.candidate = None
      BY <3>1, NewChangeTyped
    <3>. PICK k : k = [new EXCEPT !.previous = b]
      OBVIOUS
    <3>3. /\ k \in Change /\ k.kind = kind /\ k.phase = phase /\ k.plugins = ps
          /\ k.previous = b /\ k.candidate = None
      BY <3>2 DEF Change
    <3>4. k.phase \in PhasesOf(k.kind) /\ k.phase \notin Candidates
      BY <3>1, <3>3, SMTT(20) DEF PhasesOf, Updates, Candidates
    <3>5. Fits(k)
      BY <3>3, <3>4 DEF Fits, IsIdle
    <3>. QED
      BY <3>1, <3>3, <3>5
  <2>. QED
    BY <2>1, <2>2
<1>1. /\ changes[c].phase = "unused" /\ ~Owns(c) /\ host = "open" /\ Started
      /\ UNCHANGED <<serving, works, errors, requests, intents, consents, unstarted, host>>
  BY NextIsFree DEF Ask, ReviewExit, IsNext, RuntimeInv, TypeOK, Closing
<1>2. changes' = [changes EXCEPT ![c] = k] /\ tail' = Append(tail, c)
  BY DEF Admits
<1>3. /\ changes \in [ChangeIds -> Change] /\ intents \in [Plugins -> ChangeIds \cup {None}]
      /\ \A d \in ChangeIds : Owns(d)' => Owns(d) \/ d = c
      /\ unstarted \subseteq Plugins
  BY <1>2, OwnsAdmitted DEF RuntimeInv, TypeOK
<1>4. changes'[c] = k /\ \A d \in ChangeIds \ {c} : changes'[d] = changes[d]
  BY <1>2, <1>3
<1>5. IntentsFit'
  BY <1>1, <1>3, <1>4 DEF IntentsFit, RuntimeInv, QueueInv, Closing
<1>6. StartupFits'
  BY <1>1, <1>2, <1>3, StartedStays
<1>. QED
  BY <1>1, <1>2, <1>3, <1>5, <1>6, Waits

---------------------------------------------------------------------------
(* Requests and work.                                                      *)

\* While a change loads, unloads, commits or closes, its backend admits nothing.
LEMMA ChangeBlocks ==
    ASSUME RuntimeInv, NEW c \in ChangeIds, Running(c), changes[c].previous # None,
           changes[c].phase \in {"loading", "unloading", "committing", "retiring"}
    PROVE  /\ IsChanging(backends[changes[c].previous].plugin)
           /\ changes[c].previous \in BackendIds
<1>1. /\ changes[c] \in Change /\ Fits(changes[c]) /\ ~IsIdle(changes[c]) /\ RunFits(c)
  BY HeadRuns DEF RuntimeInv, QueueInv, QueueTyped, ServingInv
<1>2. changes[c].kind \in Updates \cup {"remove", "recovery", "startup"}
  BY <1>1 DEF Fits, PhasesOf
<1>3. Blocks(changes[c].kind) /\ changes[c].kind # "exit"
  BY <1>2 DEF Blocks, ReviewKinds, Reviews, IntentKinds, Updates
<1>. PICK p \in Plugins : changes[c].plugins = {p}
  BY <1>1, <1>3 DEF Fits
<1>4. changes[c].previous \in BackendIds
  BY <1>1 DEF Change, MaybeBackend
<1>5. backends[changes[c].previous].plugin = p
  BY <1>1, <1>3 DEF RunFits, RuntimeInv, ServingInv, BackendsFit
<1>. QED
  BY <1>3, <1>4, <1>5 DEF IsChanging

LEMMA RequestsMove ==
    ASSUME RuntimeInv, UNCHANGED <<serving, changes, tail, intents, unstarted, host>>,
           exits' \in {exits, [p \in Plugins |-> None]}, OtherTypes', RequestInv'
    PROVE  RuntimeInv'
<1>1. \A c \in ChangeIds : Owns(c)' <=> Owns(c)
  BY DEF Owns
<1>2. \A c \in ChangeIds : Running(c)' <=> Running(c)
  BY <1>1 DEF Running
<1>3. QueueInv'
  BY <1>1, <1>2 DEF RuntimeInv, QueueInv, QueueTyped, QueueFits, IntentsFit, Closing
<1>4. modules' = modules /\ selected' = selected /\ backends' = backends
  BY DEF serving
<1>5. StartupFits'
  BY <1>1, <1>4, StartupStays DEF RuntimeInv, ServingInv, TypeOK
<1>6. BackendsFit' /\ OneBackendServes' /\ ExitIsCurrent'
  BY <1>2, <1>4 DEF RuntimeInv, ServingInv, BackendsFit, OneBackendServes, ExitIsCurrent
<1>7. \A c \in ChangeIds : Running(c)' => RunFits(c)'
  BY <1>2, <1>4 DEF RuntimeInv, ServingInv, RunFits
<1>8. \A p \in Plugins : IsReplacing(p)' <=> IsReplacing(p)
  BY <1>2 DEF IsReplacing
<1>9. ServingInv'
  BY <1>4, <1>5, <1>6, <1>7, <1>8 DEF RuntimeInv, ServingInv
<1>10. TypeOK'
  BY <1>3, TypesFit DEF QueueInv
<1>. QED
  BY <1>3, <1>9, <1>10 DEF RuntimeInv

LEMMA AdmitKeeps ==
    ASSUME RuntimeInv, NEW r \in RequestIds, Admit(r)
    PROVE  RuntimeInv'
<1>. PICK p \in Plugins, connects \in BOOLEAN :
        /\ modules[p] # None
        /\ Dispatchable(modules[p])
        /\ requests' = [requests EXCEPT ![r] =
             [backend |-> modules[p], phase |-> "admitted", connects |-> connects]]
  BY DEF Admit
<1>1. /\ requests[r].phase = "unused" /\ requests \in [RequestIds -> Request]
      /\ UNCHANGED <<serving, works, errors, changes, tail, intents, consents, unstarted, host>>
      /\ modules[p] \in BackendIds
  BY DEF Admit, RuntimeInv, TypeOK, MaybeBackend
<1>2. /\ requests' \in [RequestIds -> Request]
      /\ requests'[r].phase = "admitted" /\ requests'[r].backend = modules[p]
      /\ \A i \in RequestIds \ {r} : requests'[i] = requests[i]
  BY <1>1 DEF Request, MaybeBackend
<1>3. backends' = backends /\ modules' = modules
  BY <1>1 DEF serving
<1>4. \A b : Begun(b)' = Begun(b)
  BY <1>1, <1>2 DEF Begun
<1>5. \A b : b # modules[p] => Tracked(b)' = Tracked(b)
  BY <1>1, <1>2 DEF Tracked
<1>6. backends[modules[p]].state \notin {"none", "idle"}
  BY <1>1 DEF RuntimeInv, ServingInv, BackendsFit
<1>7. \A c \in ChangeIds : Running(c)' => StaysQuiet(c)'
  <2> SUFFICES ASSUME NEW c \in ChangeIds, Running(c)
               PROVE  StaysQuiet(c)'
    BY <1>1 DEF Running, Owns
  <2>1. StaysQuiet(c) /\ changes' = changes /\ works' = works
    BY <1>1 DEF RuntimeInv, RequestInv
  <2>2. ASSUME changes[c].phase \in {"committing", "retiring"}, changes[c].previous # None
        PROVE  changes[c].previous # modules[p]
    BY <2>2, ChangeBlocks DEF Dispatchable
  <2>. QED
    BY <1>4, <1>5, <2>1, <2>2 DEF StaysQuiet, IsBusy
<1>8. RequestInv'
  <2>1. \A i \in RequestIds : requests'[i].phase \in {"admitted", "running"} =>
          /\ requests'[i].backend \in BackendIds
          /\ backends'[requests'[i].backend].state \notin {"none", "idle"}
    BY <1>1, <1>2, <1>3, <1>6 DEF RuntimeInv, RequestInv
  <2>2. \A b \in BackendIds : backends'[b].state = "retired" => Begun(b)' = {}
    BY <1>3, <1>4 DEF RuntimeInv, RequestInv
  <2>. QED
    BY <1>7, <2>1, <2>2 DEF RequestInv
<1>9. OtherTypes'
  BY <1>1, <1>2 DEF OtherTypes, RuntimeInv, TypeOK, serving, consents
<1>. QED
  BY <1>1, <1>8, <1>9, RequestsMove DEF consents

LEMMA DispatchKeeps ==
    ASSUME RuntimeInv, NEW r \in RequestIds, Dispatch(r)
    PROVE  RuntimeInv'
<1>. PICK to : to = IF Dispatchable(requests[r].backend) THEN "running" ELSE "done"
  OBVIOUS
<1>0. /\ requests' = [requests EXCEPT ![r].phase = to]
      /\ to \in {"running", "done"}
      /\ to = "running" => Dispatchable(requests[r].backend)
  BY DEF Dispatch
<1>1. /\ requests[r].phase = "admitted" /\ requests \in [RequestIds -> Request]
      /\ UNCHANGED <<serving, works, errors, changes, tail, intents, consents, unstarted, host>>
      /\ requests[r].backend \in BackendIds
  BY DEF Dispatch, RuntimeInv, TypeOK, RequestInv
<1>2. /\ requests' \in [RequestIds -> Request]
      /\ requests'[r].phase = to /\ requests'[r].backend = requests[r].backend
      /\ \A i \in RequestIds \ {r} : requests'[i] = requests[i]
  BY <1>0, <1>1 DEF Request
<1>3. backends' = backends /\ modules' = modules
  BY <1>1 DEF serving
<1>4. \A b : b # requests[r].backend \/ to # "running" => Begun(b)' \subseteq Begun(b)
  BY <1>0, <1>1, <1>2 DEF Begun
<1>5. \A b : Tracked(b)' \subseteq Tracked(b)
  BY <1>0, <1>1, <1>2 DEF Tracked
<1>6. \A c \in ChangeIds : Running(c)' => StaysQuiet(c)'
  <2> SUFFICES ASSUME NEW c \in ChangeIds, Running(c)
               PROVE  StaysQuiet(c)'
    BY <1>1 DEF Running, Owns
  <2>1. StaysQuiet(c) /\ changes' = changes /\ works' = works
    BY <1>1 DEF RuntimeInv, RequestInv
  <2>2. ASSUME changes[c].phase \in {"loading", "unloading"}, changes[c].previous # None
        PROVE  Begun(changes[c].previous)' \subseteq Begun(changes[c].previous)
    BY <1>0, <1>4, <2>1, <2>2, ChangeBlocks DEF Dispatchable
  <2>3. ASSUME changes[c].phase \in {"loading", "unloading"}, changes[c].consent = None,
               changes[c].previous # None
        PROVE  ~IsBusy(changes[c].previous)'
    BY <2>1, <2>2, <2>3 DEF StaysQuiet, IsBusy
  <2>4. ASSUME changes[c].phase \in {"committing", "retiring"}, changes[c].previous # None
        PROVE  Tracked(changes[c].previous)' = {}
    BY <1>5, <2>1, <2>4 DEF StaysQuiet
  <2>. QED
    BY <2>1, <2>3, <2>4 DEF StaysQuiet
<1>7. RequestInv'
  <2>1. \A i \in RequestIds : requests'[i].phase \in {"admitted", "running"} =>
          /\ requests'[i].backend \in BackendIds
          /\ backends'[requests'[i].backend].state \notin {"none", "idle"}
    BY <1>0, <1>1, <1>2, <1>3 DEF RuntimeInv, RequestInv
  <2>2. \A b \in BackendIds : backends'[b].state = "retired" => Begun(b)' = {}
    BY <1>0, <1>3, <1>4 DEF RuntimeInv, RequestInv, Dispatchable
  <2>. QED
    BY <1>6, <2>1, <2>2 DEF RequestInv
<1>8. OtherTypes'
  BY <1>1, <1>2 DEF OtherTypes, RuntimeInv, TypeOK, serving, consents
<1>. QED
  BY <1>1, <1>7, <1>8, RequestsMove DEF consents

\* Requests and work that end.
LEMMA EndsKeep ==
    ASSUME RuntimeInv, works' \subseteq works, OtherTypes',
           requests' \in [RequestIds -> Request],
           \A i \in RequestIds : requests'[i] = requests[i] \/ requests'[i].phase = "done",
           UNCHANGED <<serving, changes, tail, intents, exits, unstarted, host>>
    PROVE  RuntimeInv'
<1>1. \A b : Begun(b)' \subseteq Begun(b) /\ Tracked(b)' \subseteq Tracked(b)
  BY DEF Begun, Tracked
<1>2. backends' = backends
  BY DEF serving
<1>3. \A c \in ChangeIds : Running(c)' => StaysQuiet(c)'
  <2> SUFFICES ASSUME NEW c \in ChangeIds, Running(c)
               PROVE  StaysQuiet(c)'
    BY DEF Running, Owns
  <2>1. StaysQuiet(c)
    BY DEF RuntimeInv, RequestInv
  <2>. QED
    BY <1>1, <2>1 DEF StaysQuiet, IsBusy
<1>4. RequestInv'
  <2>1. \A i \in RequestIds : requests'[i].phase \in {"admitted", "running"} =>
          /\ requests'[i].backend \in BackendIds
          /\ backends'[requests'[i].backend].state \notin {"none", "idle"}
    BY <1>2 DEF RuntimeInv, RequestInv
  <2>2. \A b \in BackendIds : backends'[b].state = "retired" => Begun(b)' = {}
    BY <1>1, <1>2 DEF RuntimeInv, RequestInv
  <2>. QED
    BY <1>3, <2>1, <2>2 DEF RequestInv
<1>. QED
  BY <1>4, RequestsMove

LEMMA EndRequestKeeps ==
    ASSUME RuntimeInv, NEW r \in RequestIds, EndRequest(r)
    PROVE  RuntimeInv'
<1>1. /\ requests' \in [RequestIds -> Request]
      /\ \A i \in RequestIds : requests'[i] = requests[i] \/ requests'[i].phase = "done"
  BY DEF EndRequest, RuntimeInv, TypeOK, Request
<1>2. OtherTypes'
  BY <1>1 DEF EndRequest, OtherTypes, RuntimeInv, TypeOK, serving, consents
<1>. QED
  BY <1>1, <1>2, EndsKeep DEF EndRequest, consents

LEMMA EndWorkKeeps ==
    ASSUME RuntimeInv, (\E b \in BackendIds : EndWork(b)) \/ \E p \in Plugins : Expire(p)
    PROVE  RuntimeInv'
<1>1. /\ works' \subseteq works /\ requests' = requests
      /\ UNCHANGED <<serving, errors, changes, tail, intents, exits, prompts, unstarted, host>>
  BY DEF EndWork, Expire, consents
<1>2. confirmations' \in [Plugins -> MaybeConsent]
  BY DEF EndWork, Expire, consents, RuntimeInv, TypeOK, MaybeConsent
<1>3. OtherTypes' /\ requests' \in [RequestIds -> Request]
  BY <1>1, <1>2 DEF OtherTypes, RuntimeInv, TypeOK, serving
<1>. QED
  BY <1>1, <1>3, EndsKeep

LEMMA StartWorkKeeps ==
    ASSUME RuntimeInv, NEW r \in RequestIds, StartWork(r)
    PROVE  RuntimeInv'
<1>1. /\ requests[r].phase = "running" /\ works' = works \cup {requests[r].backend}
      /\ UNCHANGED <<serving, errors, requests, changes, tail, intents, consents, unstarted, host>>
      /\ requests[r].backend \in BackendIds
  BY DEF StartWork, RuntimeInv, RequestInv
<1>2. r \in Begun(requests[r].backend)
  BY <1>1 DEF Begun
<1>3. \A b : IsBusy(b)' <=> IsBusy(b)
  BY <1>1, <1>2 DEF IsBusy, Begun
<1>4. \A c \in ChangeIds : Running(c)' => StaysQuiet(c)'
  <2> SUFFICES ASSUME NEW c \in ChangeIds, Running(c)
               PROVE  StaysQuiet(c)'
    BY <1>1 DEF Running, Owns
  <2>1. StaysQuiet(c) /\ changes' = changes /\ requests' = requests
    BY <1>1 DEF RuntimeInv, RequestInv
  <2>. QED
    BY <1>3, <2>1 DEF StaysQuiet, Tracked
<1>5. RequestInv'
  BY <1>1, <1>4, RequestsStay DEF serving
<1>6. OtherTypes'
  BY <1>1 DEF OtherTypes, RuntimeInv, TypeOK, serving, consents
<1>. QED
  BY <1>1, <1>5, <1>6, RequestsMove DEF consents

LEMMA ExitIsBusyKeeps ==
    ASSUME RuntimeInv, ExitIsBusy
    PROVE  RuntimeInv'
<1>1. /\ exits' = [p \in Plugins |-> None]
      /\ UNCHANGED <<serving, works, errors, requests, changes, tail, intents, confirmations,
                     prompts, unstarted, host>>
  BY DEF ExitIsBusy
<1>2. OtherTypes'
  BY <1>1 DEF OtherTypes, RuntimeInv, TypeOK, serving, MaybeBackend
<1>3. \A c \in ChangeIds : Running(c)' => StaysQuiet(c)'
  BY <1>1 DEF RuntimeInv, RequestInv, Running, Owns, StaysQuiet, Tracked, IsBusy, Begun
<1>4. RequestInv'
  BY <1>1, <1>3, RequestsStay DEF serving
<1>. QED
  BY <1>1, <1>2, <1>4, RequestsMove

---------------------------------------------------------------------------
(* The end of the host.                                                    *)

LEMMA NoneIsLeft ==
    ASSUME RuntimeInv, tail = <<>>
    PROVE  \A c \in ChangeIds : ~Owns(c) /\ ~Running(c)
  BY DEF Owns, Running

LEMMA BeginCloseKeeps ==
    ASSUME RuntimeInv, BeginClose
    PROVE  RuntimeInv'
<1>1. /\ host = "open" /\ host' = "closing" /\ intents' = [p \in Plugins |-> None]
      /\ UNCHANGED <<serving, works, errors, requests, changes, tail, consents, unstarted>>
  BY DEF BeginClose
<1>2. \A c \in ChangeIds : (Owns(c)' <=> Owns(c)) /\ (Running(c)' <=> Running(c))
  BY <1>1 DEF Owns, Running
<1>3. QueueInv'
  BY <1>1, <1>2 DEF RuntimeInv, QueueInv, QueueTyped, QueueFits, IntentsFit, Closing
<1>4. modules' = modules /\ selected' = selected /\ backends' = backends /\ exits' = exits
  BY <1>1 DEF serving, consents
<1>5. StartupFits'
  BY <1>1, <1>2, <1>4, StartupStays DEF RuntimeInv, ServingInv, TypeOK
<1>6. BackendsFit' /\ OneBackendServes' /\ ExitIsCurrent'
  BY <1>1, <1>2, <1>4 DEF RuntimeInv, ServingInv, BackendsFit, OneBackendServes, ExitIsCurrent
<1>7. \A c \in ChangeIds : Running(c)' => RunFits(c)'
  BY <1>1, <1>2, <1>4 DEF RuntimeInv, ServingInv, RunFits
<1>8. \A p \in Plugins : IsReplacing(p)' <=> IsReplacing(p)
  BY <1>1, <1>2 DEF IsReplacing
<1>9. ServingInv'
  BY <1>1, <1>4, <1>5, <1>6, <1>7, <1>8 DEF RuntimeInv, ServingInv
<1>10. \A c \in ChangeIds : Running(c)' => StaysQuiet(c)'
  BY <1>1, <1>2 DEF RuntimeInv, RequestInv, StaysQuiet, Tracked, IsBusy, Begun
<1>11. RequestInv'
  BY <1>1, <1>4, <1>10, RequestsStay
<1>12. TypeOK'
  BY <1>1, <1>3 DEF RuntimeInv, TypeOK, QueueInv, QueueTyped, serving, consents
<1>. QED
  BY <1>3, <1>9, <1>11, <1>12 DEF RuntimeInv

\* The close of what serves, when no change is left.
LEMMA StopKeeps ==
    ASSUME RuntimeInv, tail = <<>>, OtherTypes',
           UNCHANGED <<selected, requests, changes, tail, intents, exits, unstarted>>,
           host' \in {"stopping", "closed"}, host \in {"closing", "stopping"},
           modules' \in {modules, [p \in Plugins |-> None]}, BackendsFit', OneBackendServes',
           host' = "closed" => \A b \in BackendIds : backends'[b].state \in {"none", "retired"},
           \A b \in BackendIds :
              /\ backends[b].state \notin {"none", "idle"} => backends'[b].state \notin {"none", "idle"}
              /\ backends'[b].state = "retired" => backends[b].state = "retired" \/ Tracked(b) = {}
    PROVE  RuntimeInv'
<1>1. \A c \in ChangeIds : ~Owns(c) /\ ~Running(c) /\ ~Owns(c)' /\ ~Running(c)'
  BY NoneIsLeft DEF Owns, Running
<1>2. QueueInv'
  <2>1. QueueTyped' /\ IntentsFit' /\ \A c \in ChangeIds : Fits(changes'[c])
    BY DEF RuntimeInv, QueueInv, QueueTyped, IntentsFit, Closing
  <2>2. QueueFits'
    BY <1>1 DEF RuntimeInv, QueueInv, QueueFits
  <2>. QED
    BY <2>1, <2>2 DEF QueueInv
<1>3. StartupFits' /\ ExitIsCurrent' /\ \A p \in Plugins : ~IsReplacing(p) /\ ~IsReplacing(p)'
  BY <1>1 DEF RuntimeInv, ServingInv, StartupFits, ExitIsCurrent, IsReplacing, TypeOK
<1>4. \A p \in Plugins : modules'[p] # None => modules'[p] = modules[p]
  OBVIOUS
<1>5. ServingInv'
  BY <1>1, <1>3, <1>4 DEF RuntimeInv, ServingInv
<1>6. RequestInv'
  <2>1. \A b \in BackendIds : Begun(b)' = Begun(b) /\ Begun(b) \subseteq Tracked(b)
    BY DEF Begun, Tracked
  <2>2. \A b \in BackendIds : backends'[b].state = "retired" => Begun(b)' = {}
    BY <2>1 DEF RuntimeInv, RequestInv
  <2>. QED
    BY <1>1, <2>2 DEF RuntimeInv, RequestInv
<1>7. TypeOK'
  BY <1>2, TypesFit DEF QueueInv
<1>. QED
  BY <1>2, <1>5, <1>6, <1>7 DEF RuntimeInv

LEMMA CloseBackendsKeeps ==
    ASSUME RuntimeInv, CloseBackends
    PROVE  RuntimeInv'
<1>1. /\ host = "closing" /\ tail = <<>> /\ host' = "stopping"
      /\ UNCHANGED <<modules, selected, works, errors, requests, changes, tail, intents, consents,
                     unstarted>>
      /\ backends \in [BackendIds -> Backend]
  BY DEF CloseBackends, RuntimeInv, TypeOK
<1>2. /\ backends' \in [BackendIds -> Backend]
      /\ \A b \in BackendIds :
           /\ backends'[b].plugin = backends[b].plugin
           /\ backends'[b] = backends[b]
              \/ (backends'[b].state = "closing" /\ \E p \in Plugins : modules[p] = b)
  BY <1>1 DEF CloseBackends, Backend
<1>3. BackendsFit /\ OneBackendServes /\ \A c \in ChangeIds : ~Running(c)
  BY <1>1, NoneIsLeft DEF RuntimeInv, ServingInv
<1>4. BackendsFit'
  <2>1. \A b \in BackendIds : backends'[b].state = "closing" =>
           modules[backends'[b].plugin] = b
    <3> SUFFICES ASSUME NEW b \in BackendIds, backends'[b].state = "closing"
                 PROVE  modules[backends[b].plugin] = b
      BY <1>2
    <3>1. CASE backends'[b] = backends[b]
      BY <1>3, <3>1 DEF BackendsFit
    <3>2. ASSUME NEW p \in Plugins, modules[p] = b PROVE backends[b].plugin = p
      BY <1>3, <3>2, Ids DEF BackendsFit
    <3>. QED
      BY <1>2, <3>1, <3>2
  <2>2. \A p \in Plugins : modules[p] # None =>
           /\ modules[p] \in BackendIds
           /\ backends'[modules[p]].plugin = p
           /\ backends'[modules[p]].state \notin {"none", "idle"}
    BY <1>2, <1>3 DEF BackendsFit, RuntimeInv, TypeOK, MaybeBackend
  <2>3. \A b \in BackendIds :
          /\ backends'[b].state = "none" => backends'[b] = NoBackend
          /\ backends'[b].state # "none" => backends'[b].plugin \in Plugins
          /\ backends'[b].state # "idle"
    <3> SUFFICES ASSUME NEW b \in BackendIds
                 PROVE  /\ backends'[b].state = "none" => backends'[b] = NoBackend
                        /\ backends'[b].state # "none" => backends'[b].plugin \in Plugins
                        /\ backends'[b].state # "idle"
      OBVIOUS
    <3>1. CASE backends'[b] = backends[b]
      BY <1>3, <3>1 DEF BackendsFit
    <3>2. CASE backends'[b].state = "closing" /\ \E p \in Plugins : modules[p] = b
      BY <1>2, <1>3, <3>2, Ids DEF BackendsFit
    <3>. QED
      BY <1>2, <3>1, <3>2
  <2>. QED
    BY <1>1, <2>1, <2>2, <2>3 DEF BackendsFit
<1>5. OneBackendServes'
  BY <1>1, <1>2, <1>3 DEF OneBackendServes
<1>6. OtherTypes'
  BY <1>1, <1>2 DEF OtherTypes, RuntimeInv, TypeOK, consents
<1>. QED
  BY <1>1, <1>2, <1>4, <1>5, <1>6, StopKeeps DEF consents

LEMMA CloseBackendKeeps ==
    ASSUME RuntimeInv, NEW p \in Plugins, CloseBackend(p)
    PROVE  RuntimeInv'
<1>1. /\ host = "stopping" /\ host' = "stopping" /\ modules[p] \in BackendIds
      /\ backends[modules[p]].state = "closing" /\ IsRetired(modules[p])
      /\ backends' = [backends EXCEPT ![modules[p]].state = "retired"]
      /\ UNCHANGED <<modules, selected, errors, requests, changes, tail, intents, consents, unstarted>>
      /\ backends \in [BackendIds -> Backend]
  BY DEF CloseBackend, RuntimeInv, TypeOK, MaybeBackend
<1>2. tail = <<>>
  BY <1>1 DEF RuntimeInv, QueueInv
<1>3. BackendsFit /\ OneBackendServes /\ \A c \in ChangeIds : ~Running(c)
  BY <1>2, NoneIsLeft DEF RuntimeInv, ServingInv
<1>4. /\ backends' \in [BackendIds -> Backend]
      /\ backends'[modules[p]].state = "retired"
      /\ backends'[modules[p]].plugin = backends[modules[p]].plugin
      /\ \A b \in BackendIds \ {modules[p]} : backends'[b] = backends[b]
  BY <1>1 DEF Backend
<1>5. BackendsFit' /\ OneBackendServes'
  <2>1. OneBackendServes'
    BY <1>1, <1>3, <1>4 DEF OneBackendServes
  <2>2. \A q \in Plugins : modules[q] # None =>
           /\ backends'[modules[q]].plugin = q
           /\ backends'[modules[q]].state \notin {"none", "idle"}
    BY <1>3, <1>4 DEF BackendsFit, RuntimeInv, TypeOK, MaybeBackend
  <2>3. \A b \in BackendIds :
          /\ backends'[b].state = "none" => backends'[b] = NoBackend
          /\ backends'[b].state # "none" => backends'[b].plugin \in Plugins
          /\ backends'[b].state # "idle"
          /\ backends'[b].state = "closing" => modules[backends'[b].plugin] = b
    BY <1>1, <1>3, <1>4 DEF BackendsFit
  <2>. QED
    BY <1>1, <2>1, <2>2, <2>3 DEF BackendsFit
<1>6. OtherTypes'
  BY <1>1, <1>4 DEF IsRetired, OtherTypes, RuntimeInv, TypeOK, consents
<1>7. Tracked(modules[p]) = {}
  BY <1>1 DEF IsRetired
<1>. QED
  BY <1>1, <1>2, <1>4, <1>5, <1>6, <1>7, StopKeeps DEF consents

LEMMA CloseKeeps ==
    ASSUME RuntimeInv, Close
    PROVE  RuntimeInv'
<1>1. /\ host = "stopping" /\ host' = "closed" /\ modules' = [p \in Plugins |-> None]
      /\ \A p \in Plugins : modules[p] # None => backends[modules[p]].state = "retired"
      /\ confirmations' = [p \in Plugins |-> None] /\ prompts' = [p \in Plugins |-> None]
      /\ UNCHANGED <<selected, backends, works, errors, requests, changes, tail, intents, exits,
                     unstarted>>
      /\ backends \in [BackendIds -> Backend]
  BY DEF Close, RuntimeInv, TypeOK
<1>2. tail = <<>>
  BY <1>1 DEF RuntimeInv, QueueInv
<1>3. BackendsFit /\ OneBackendServes /\ \A c \in ChangeIds : ~Running(c)
  BY <1>2, NoneIsLeft DEF RuntimeInv, ServingInv
<1>4. \A b \in BackendIds : backends[b].state \in {"none", "retired"}
  BY <1>1, <1>3, Ids DEF BackendsFit, OneBackendServes, Backend
<1>5. BackendsFit' /\ OneBackendServes'
  BY <1>1, <1>3, <1>4 DEF BackendsFit, OneBackendServes
<1>6. OtherTypes'
  BY <1>1 DEF OtherTypes, RuntimeInv, TypeOK, MaybeConsent, MaybeBackend
<1>. QED
  BY <1>1, <1>2, <1>4, <1>5, <1>6, StopKeeps

---------------------------------------------------------------------------
(* The steps that load, close and replace a backend.                       *)

\* What the backends of a plugin are while a change of it runs.
LEMMA BackendsOf ==
    ASSUME RuntimeInv, NEW c \in ChangeIds, Running(c), NEW p \in Plugins,
           changes[c].kind # "exit", changes[c].plugins = {p}
    PROVE  /\ \A b \in BackendIds : backends[b].plugin = p =>
                /\ backends[b].state \in {"idle", "active", "closing", "retired"}
                /\ backends[b].state = "active" => modules[p] = b
                /\ backends[b].state = "idle" => changes[c].candidate = b
                /\ backends[b].state = "closing" =>
                      changes[c].phase = "retiring" /\ changes[c].previous = b
           /\ modules[p] # None =>
                /\ modules[p] \in BackendIds
                /\ backends[modules[p]].plugin = p
                /\ backends[modules[p]].state \notin {"none", "idle"}
           /\ RunFits(c)
<1>1. host \in {"open", "closing"} /\ \A d \in ChangeIds : Running(d) => d = c
  BY HeadRuns DEF RuntimeInv
<1>2. BackendsFit /\ OneBackendServes /\ RunFits(c) /\ backends \in [BackendIds -> Backend]
      /\ modules \in [Plugins -> MaybeBackend]
  BY DEF RuntimeInv, ServingInv, TypeOK
<1>3. modules[p] # None =>
        /\ modules[p] \in BackendIds
        /\ backends[modules[p]].plugin = p
        /\ backends[modules[p]].state \notin {"none", "idle"}
  BY <1>2 DEF BackendsFit, MaybeBackend
<1>4. ASSUME NEW b \in BackendIds, backends[b].plugin = p
      PROVE  /\ backends[b].state \in {"idle", "active", "closing", "retired"}
             /\ backends[b].state = "active" => modules[p] = b
             /\ backends[b].state = "idle" => changes[c].candidate = b
             /\ backends[b].state = "closing" =>
                   changes[c].phase = "retiring" /\ changes[c].previous = b
  <2>1. backends[b].state \in {"idle", "active", "closing", "retired"}
    BY <1>2, <1>4 DEF BackendsFit, NoBackend, Backend
  <2>. QED
    BY <1>1, <1>2, <1>4, <2>1 DEF BackendsFit, OneBackendServes
<1>. QED
  BY <1>2, <1>3, <1>4

LEMMA HeadServes ==
    ASSUME RuntimeInv, NEW c \in ChangeIds, Running(c), NEW p \in Plugins,
           changes[c].kind # "exit", changes[c].plugins = {p},
           OtherTypes', UNCHANGED <<unstarted, host>>,
           \A d \in ChangeIds : Owns(d)' =>
              Owns(d) /\ changes'[d].kind = changes[d].kind /\ changes'[d].plugins = changes[d].plugins,
           \A d \in ChangeIds : Running(d)' => d = c,
           \A q \in Plugins \ {p} :
              modules'[q] = modules[q] /\ selected'[q] = selected[q] /\ exits'[q] = exits[q],
           \/ modules'[p] = modules[p] /\ exits'[p] = exits[p]
           \/ modules'[p] = None
           \/ exits'[p] = None,
           \/ modules'[p] = modules[p]
           \/ changes[c].kind # "startup"
           \/ ~Owns(c)',
           \A b \in BackendIds : backends'[b] = backends[b]
              \/ (backends'[b].plugin = p /\ backends'[b].state # "none"),
           \A b \in BackendIds : backends'[b].plugin = p =>
              /\ backends'[b].state = "active" => modules'[p] = b
              /\ backends'[b].state = "idle" => Running(c)' /\ changes'[c].candidate = b
              /\ backends'[b].state = "closing" =>
                    Running(c)' /\ changes'[c].phase = "retiring" /\ changes'[c].previous = b,
           \A b \in BackendIds : backends[b].plugin \in Plugins => backends'[b].plugin = backends[b].plugin,
           modules'[p] # None =>
              backends'[modules'[p]].plugin = p /\ backends'[modules'[p]].state \notin {"none", "idle"},
           Running(c)' => RunFits(c)',
           (Running(c)' /\ changes'[c].phase = "retiring") \/ modules'[p] = None \/ selected'[p] = modules'[p]
    PROVE  ServingInv'
<1>1. /\ host \in {"open", "closing"} /\ host' = host /\ Owns(c)
      /\ \A d \in ChangeIds : Running(d) => d = c
  BY HeadRuns DEF RuntimeInv
<1>2. /\ StartupFits /\ BackendsFit /\ OneBackendServes /\ ExitIsCurrent /\ unstarted \subseteq Plugins
      /\ modules \in [Plugins -> MaybeBackend] /\ backends \in [BackendIds -> Backend]
      /\ RunFits(c)
  BY DEF RuntimeInv, ServingInv, TypeOK
<1>3. StartupFits'
  <2>1. ASSUME modules'[p] # modules[p]
        PROVE  /\ p \notin unstarted
               /\ \A d \in ChangeIds :
                    ~(Owns(d)' /\ changes[d].kind = "startup" /\ changes[d].plugins = {p})
    <3>1. CASE changes[c].kind # "startup"
      BY <1>1, <1>2, <3>1 DEF StartupFits, Started
    <3>2. CASE changes[c].kind = "startup" /\ ~Owns(c)'
      BY <1>1, <1>2, <3>2 DEF StartupFits
    <3>. QED
      BY <2>1, <3>1, <3>2
  <2>2. \A q \in Plugins :
          \/ modules'[q] = modules[q]
          \/ /\ q \notin unstarted
             /\ \A d \in ChangeIds :
                  ~(Owns(d)' /\ changes[d].kind = "startup" /\ changes[d].plugins = {q})
    BY <2>1
  <2>. QED
    BY <1>2, <2>2, StartupStays
<1>4. BackendsFit'
  <2>1. ASSUME NEW q \in Plugins, modules'[q] # None
        PROVE  backends'[modules'[q]].plugin = q /\ backends'[modules'[q]].state \notin {"none", "idle"}
    <3>1. CASE q = p
      BY <2>1, <3>1
    <3>2. CASE q # p
      <4>1. /\ modules'[q] = modules[q] /\ modules[q] \in BackendIds
            /\ backends[modules[q]].plugin = q /\ backends[modules[q]].state \notin {"none", "idle"}
        BY <1>2, <2>1, <3>2 DEF BackendsFit, MaybeBackend
      <4>2. backends'[modules[q]] = backends[modules[q]]
        BY <3>2, <4>1
      <4>. QED
        BY <4>1, <4>2
    <3>. QED
      BY <3>1, <3>2
  <2>2. ASSUME NEW b \in BackendIds
        PROVE  /\ backends'[b].state = "none" => backends'[b] = NoBackend
               /\ backends'[b].state # "none" => backends'[b].plugin \in Plugins
               /\ backends'[b].state = "idle" => \E d \in ChangeIds : Running(d)' /\ changes'[d].candidate = b
               /\ backends'[b].state = "closing" =>
                    \E d \in ChangeIds : Running(d)' /\ changes'[d].phase = "retiring" /\ changes'[d].previous = b
    <3>1. CASE backends'[b].plugin = p /\ backends'[b].state # "none"
      BY <3>1
    <3>2. CASE backends'[b] = backends[b] /\ backends[b].plugin # p
      <4>1. backends[b].state # "idle"
        BY <1>1, <1>2, <3>2, Ids DEF BackendsFit, RunFits
      <4>2. backends[b].state # "closing"
        BY <1>1, <1>2, <3>2, Ids DEF BackendsFit, RunFits
      <4>. QED
        BY <1>2, <3>2, <4>1, <4>2 DEF BackendsFit
    <3>3. CASE backends'[b] = backends[b] /\ backends[b].state = "none"
      BY <1>2, <3>3 DEF BackendsFit
    <3>. QED
      BY <3>1, <3>2, <3>3
  <2>. QED
    BY <2>1, <2>2 DEF BackendsFit
<1>5. OneBackendServes'
  <2> SUFFICES ASSUME NEW b \in BackendIds, backends'[b].state = "active"
               PROVE  modules'[backends'[b].plugin] = b
    BY DEF OneBackendServes
  <2>1. CASE backends'[b].plugin = p
    BY <2>1
  <2>2. CASE backends'[b] = backends[b] /\ backends'[b].plugin # p
    <3>1. modules[backends[b].plugin] = b /\ backends[b].plugin \in Plugins
      BY <1>2, <2>2 DEF OneBackendServes, BackendsFit
    <3>. QED
      BY <2>2, <3>1
  <2>. QED
    BY <2>1, <2>2
<1>6. ExitIsCurrent'
  BY <1>2 DEF ExitIsCurrent
<1>7. \A d \in ChangeIds : Running(d)' => RunFits(d)'
  OBVIOUS
<1>8. \A q \in Plugins : ~IsReplacing(q)' /\ modules'[q] # None => selected'[q] = modules'[q]
  <2>1. ASSUME NEW q \in Plugins, q # p, modules'[q] # None
        PROVE  selected'[q] = modules'[q]
    <3>1. ~IsReplacing(q)
      BY <1>1, <2>1 DEF IsReplacing
    <3>. QED
      BY <2>1, <3>1 DEF RuntimeInv, ServingInv
  <2>2. ASSUME ~IsReplacing(p)', modules'[p] # None
        PROVE  selected'[p] = modules'[p]
    BY <2>2, <1>1 DEF IsReplacing, Running
  <2>. QED
    BY <2>1, <2>2
<1>. QED
  BY <1>1, <1>3, <1>4, <1>5, <1>6, <1>7, <1>8 DEF ServingInv

\* The requests, when backends change and no request begins.
LEMMA RequestsKept ==
    ASSUME RuntimeInv, requests' = requests,
           \A b \in BackendIds : backends[b].state \notin {"none", "idle"} =>
              backends'[b].state \notin {"none", "idle"},
           \A b \in BackendIds : backends'[b].state = "retired" =>
              backends[b].state \in {"retired", "idle"} \/ Tracked(b) = {},
           \A d \in ChangeIds : Running(d)' => StaysQuiet(d)'
    PROVE  RequestInv'
<1>1. ASSUME NEW b \in BackendIds
      PROVE  Begun(b)' = Begun(b) /\ Begun(b) \subseteq Tracked(b)
  BY DEF Begun, Tracked
<1>2. ASSUME NEW b \in BackendIds, backends'[b].state = "retired"
      PROVE  Begun(b)' = {}
  <2>1. backends[b].state = "idle" => Begun(b) = {}
    BY DEF Begun, RuntimeInv, RequestInv
  <2>. QED
    BY <1>1, <1>2, <2>1 DEF RuntimeInv, RequestInv
<1>. QED
  BY <1>2 DEF RuntimeInv, RequestInv

\* What a step may make of a backend: it closes it only when its requests have ended.
MayTouch(p, b) ==
    /\ backends'[b].plugin = p /\ backends'[b].state # "none"
    /\ backends[b].plugin = p \/ backends[b] = NoBackend
    /\ backends'[b].state = "idle" => backends[b] = NoBackend
    /\ backends'[b].state = "retired" => backends[b].state = "idle" \/ Tracked(b) = {}

\* A step of a change of one plugin leaves the others alone, and touches only its
\* own backends.
Touches(p) ==
    /\ OtherTypes' /\ requests' = requests /\ unstarted' = unstarted /\ host' = host
    /\ \A q \in Plugins \ {p} :
          modules'[q] = modules[q] /\ selected'[q] = selected[q] /\ exits'[q] = exits[q]
    /\ modules'[p] # None =>
          backends'[modules'[p]].plugin = p /\ backends'[modules'[p]].state \notin {"none", "idle"}
    /\ \A b \in BackendIds : backends'[b] = backends[b] \/ MayTouch(p, b)

LEMMA Touched ==
    ASSUME NEW p \in Plugins, Touches(p)
    PROVE  \A b \in BackendIds :
        /\ backends'[b] = backends[b] \/ (backends'[b].plugin = p /\ backends'[b].state # "none")
        /\ backends[b].plugin \in Plugins => backends'[b].plugin = backends[b].plugin
        /\ backends[b].state \notin {"none", "idle"} => backends'[b].state \notin {"none", "idle"}
        /\ backends'[b].state = "retired" =>
              backends[b].state \in {"retired", "idle"} \/ Tracked(b) = {}
  BY DEF Touches, MayTouch, NoBackend

\* A head that settles, when backends change.
LEMMA ServesAndSettles ==
    ASSUME RuntimeInv, NEW c \in ChangeIds, Running(c), Settles(c),
           NEW p \in Plugins, changes[c].kind # "exit", changes[c].plugins = {p}, Touches(p),
           \/ modules'[p] = modules[p] /\ exits'[p] = exits[p]
           \/ modules'[p] = None
           \/ exits'[p] = None,
           \A b \in BackendIds : backends'[b].plugin = p =>
              /\ backends'[b].state = "active" => modules'[p] = b
              /\ backends'[b].state \notin {"idle", "closing"},
           modules'[p] = None \/ selected'[p] = modules'[p]
    PROVE  RuntimeInv'
<1>1. tail # <<>> /\ c = tail[1] /\ host' = host
  BY HeadRuns DEF RuntimeInv, Touches
<1>2. /\ QueueInv' /\ \A d \in ChangeIds \ {c} : changes'[d] = changes[d]
      /\ \A d \in ChangeIds : (Owns(d)' <=> Owns(d) /\ d # c) /\ ~Running(d)'
  BY <1>1, HeadSettles DEF RuntimeInv
<1>3. /\ \A d \in ChangeIds : Owns(d)' =>
           Owns(d) /\ changes'[d].kind = changes[d].kind /\ changes'[d].plugins = changes[d].plugins
      /\ ~Owns(c)'
  BY <1>2
<1>4. ServingInv'
  BY <1>2, <1>3, Touched, HeadServes DEF Touches
<1>5. RequestInv'
  BY <1>2, Touched, RequestsKept DEF Touches
<1>6. TypeOK'
  BY <1>2, TypesFit DEF QueueInv, Touches
<1>. QED
  BY <1>2, <1>4, <1>5, <1>6 DEF RuntimeInv

\* What the backends of a plugin are for the change k of it.
Stands(k, p) ==
    /\ \A b \in BackendIds : backends'[b].plugin = p =>
        /\ backends'[b].state = "active" => modules'[p] = b
        /\ backends'[b].state = "idle" => k.candidate = b
        /\ backends'[b].state = "closing" => k.phase = "retiring" /\ k.previous = b
    /\ k.phase \notin {"retiring", "reloading"} => modules'[p] = k.previous
    /\ k.phase = "reloading" => modules'[p] = None
    /\ k.phase = "retiring" =>
        /\ backends'[k.previous].plugin = p /\ backends'[k.previous].state = "closing"
        /\ modules'[p] = IF k.kind \in Updates THEN k.previous ELSE None
        /\ k.kind \in Updates => selected'[p] = k.candidate
    /\ k.phase # "retiring" => modules'[p] = None \/ selected'[p] = modules'[p]
    /\ k.candidate # None =>
        backends'[k.candidate].plugin = p /\ backends'[k.candidate].state = "idle"

\* A head that moves on, when backends change.
LEMMA ServesAndMoves ==
    ASSUME RuntimeInv, NEW c \in ChangeIds, Running(c), NEW k \in Change, Goes(c, k), Fits(k),
           k.phase \notin {"unused", "acquiring", "queued", "settled"},
           k.kind = changes[c].kind, k.plugins = changes[c].plugins,
           NEW p \in Plugins, changes[c].kind # "exit", changes[c].plugins = {p},
           Touches(p), Stands(k, p),
           modules'[p] = modules[p] \/ (modules'[p] = None /\ changes[c].kind # "startup"),
           exits'[p] = exits[p], StaysQuiet(c)'
    PROVE  RuntimeInv'
<1>1. tail # <<>> /\ c = tail[1] /\ Owns(c) /\ host' = host
  BY HeadRuns DEF RuntimeInv, Touches
<1>2. /\ QueueInv' /\ changes'[c] = k /\ \A d \in ChangeIds \ {c} : changes'[d] = changes[d]
      /\ \A d \in ChangeIds : (Owns(d)' <=> Owns(d)) /\ (Running(d)' <=> d = c)
  BY <1>1, HeadMoves DEF RuntimeInv
<1>3. \A d \in ChangeIds : Owns(d)' =>
         Owns(d) /\ changes'[d].kind = changes[d].kind /\ changes'[d].plugins = changes[d].plugins
  BY <1>2
<1>4. RunFits(c)'
  BY <1>2 DEF RunFits, Stands
<1>5. /\ \A b \in BackendIds : backends'[b].plugin = p =>
            /\ backends'[b].state = "active" => modules'[p] = b
            /\ backends'[b].state = "idle" => Running(c)' /\ changes'[c].candidate = b
            /\ backends'[b].state = "closing" =>
                  Running(c)' /\ changes'[c].phase = "retiring" /\ changes'[c].previous = b
      /\ (Running(c)' /\ changes'[c].phase = "retiring") \/ modules'[p] = None \/ selected'[p] = modules'[p]
      /\ \A d \in ChangeIds : Running(d)' => d = c
  BY <1>2 DEF Stands
<1>6. ServingInv'
  BY <1>3, <1>4, <1>5, Touched, HeadServes DEF Touches
<1>7. RequestInv'
  BY <1>2, Touched, RequestsKept DEF Touches
<1>8. TypeOK'
  BY <1>2, TypesFit DEF QueueInv, Touches
<1>. QED
  BY <1>2, <1>6, <1>7, <1>8 DEF RuntimeInv

LEMMA UpdatePhases ==
    ASSUME NEW kind \in Updates, NEW phase \in Candidates
    PROVE  phase \in PhasesOf(kind)
  BY DEF PhasesOf, Updates, Candidates

LEMMA LoadKeeps ==
    ASSUME RuntimeInv, NEW c \in ChangeIds, Load(c)
    PROVE  RuntimeInv'
<1>. PICK from : from = "loading"
  OBVIOUS
<1>1. IsIn(c, from) /\ changes[c].kind # "startup"
  BY DEF Load
<1>2. /\ Running(c) /\ changes[c] \in Change /\ Fits(changes[c]) /\ changes[c].phase = "loading"
      /\ ~IsIdle(changes[c]) /\ StaysQuiet(c)
  BY <1>1, HeadIs
<1>3. changes[c].kind \in Updates /\ changes[c].kind # "exit" /\ changes[c].candidate = None
  BY <1>1, <1>2 DEF Fits, PhasesOf, Updates, Candidates
<1>. PICK p \in Plugins : p = PluginOf(c) /\ changes[c].plugins = {p}
  BY <1>1, <1>3, HeadIs
<1>4. /\ \A b \in BackendIds : backends[b].plugin = p =>
           /\ backends[b].state \in {"active", "retired"}
           /\ backends[b].state = "active" => modules[p] = b
      /\ modules[p] # None =>
           /\ modules[p] \in BackendIds
           /\ backends[modules[p]].plugin = p
           /\ backends[modules[p]].state \notin {"none", "idle"}
      /\ RunFits(c)
  BY <1>2, <1>3, BackendsOf, Ids
<1>. PICK b \in BackendIds, to \in {"rejecting", "unloading", "committing"} :
        /\ backends[b] = NoBackend
        /\ backends' = [backends EXCEPT ![b] = [plugin |-> p, state |-> "idle"]]
        /\ Goes(c, [changes[c] EXCEPT !.candidate = b, !.phase = to])
        /\ to = "unloading" => changes[c].previous # None
        /\ to = "committing" => changes[c].previous = None
  <2>. PICK b \in BackendIds :
        /\ IsNextBackend(b)
        /\ backends' = [backends EXCEPT ![b] = [plugin |-> PluginOf(c), state |-> "idle"]]
        /\ Goes(c, [changes[c] EXCEPT
             !.candidate = b,
             !.phase = IF ~IsCurrent(c) THEN "rejecting"
                       ELSE IF changes[c].previous # None THEN "unloading" ELSE "committing"])
    BY DEF Load
  <2>. PICK to : to = IF ~IsCurrent(c) THEN "rejecting"
                      ELSE IF changes[c].previous # None THEN "unloading" ELSE "committing"
    OBVIOUS
  <2>1. Goes(c, [changes[c] EXCEPT !.candidate = b, !.phase = to])
    OBVIOUS
  <2>2. /\ to \in {"rejecting", "unloading", "committing"}
        /\ to = "unloading" => changes[c].previous # None
        /\ to = "committing" => changes[c].previous = None
    OBVIOUS
  <2>. QED
    BY <2>1, <2>2 DEF IsNextBackend
<1>. PICK k : k = [changes[c] EXCEPT !.candidate = b, !.phase = to]
  OBVIOUS
<1>5. /\ k \in Change /\ k.phase = to /\ k.kind = changes[c].kind /\ k.plugins = changes[c].plugins
      /\ k.previous = changes[c].previous /\ k.candidate = b /\ k.consent = changes[c].consent
      /\ Goes(c, k)
  BY <1>2 DEF Change, Phases, MaybeBackend
<1>6. Fits(k)
  <2>1. k.phase \in PhasesOf(k.kind) /\ k.phase \in Candidates /\ k.kind \in Updates /\ k.candidate # None
    <3>1. k.phase \in Candidates /\ k.kind \in Updates /\ k.candidate # None
      BY <1>3, <1>5, Ids DEF Candidates
    <3>. QED
      BY <3>1, UpdatePhases
  <2>2. k.kind \notin {"recovery", "resolve"} \cup ReviewKinds
    BY <2>1 DEF Updates, IntentKinds, ReviewKinds, Reviews
  <2>3. k.phase # "retiring" /\ k.phase # "draining"
    BY <1>5
  <2>. QED
    BY <1>2, <1>3, <1>5, <2>1, <2>2, <2>3 DEF Fits, IsIdle
<1>7. /\ backends \in [BackendIds -> Backend] /\ backends' \in [BackendIds -> Backend]
      /\ backends'[b].plugin = p /\ backends'[b].state = "idle"
      /\ \A other \in BackendIds \ {b} : backends'[other] = backends[other]
      /\ backends[b].state = "none" /\ backends[b].plugin = None
  BY DEF RuntimeInv, TypeOK, Backend, MaybePlugin, NoBackend
<1>8. /\ UNCHANGED <<modules, selected, works, requests, consents, unstarted, host>>
      /\ errors' \subseteq Plugins
  BY DEF Load, RuntimeInv, TypeOK
<1>9. OtherTypes'
  BY <1>7, <1>8 DEF OtherTypes, RuntimeInv, TypeOK, consents
<1>10. StaysQuiet(c)'
  <2>1. changes'[c] = k
    BY <1>5 DEF Goes, RuntimeInv, TypeOK
  <2>. QED
    BY <1>2, <1>5, <1>8, <2>1 DEF StaysQuiet, IsBusy, Begun, Tracked
<1>11. modules[p] = k.previous
  BY <1>2, <1>3, <1>4, <1>5 DEF RunFits
<1>12. modules[p] = None \/ selected[p] = modules[p]
  <2>1. ~IsReplacing(p)
    BY <1>2, HeadRuns DEF IsReplacing, RuntimeInv
  <2>. QED
    BY <2>1 DEF RuntimeInv, ServingInv
<1>13. Touches(p)
  <2>1. \A other \in BackendIds : backends'[other] = backends[other] \/ MayTouch(p, other)
    BY <1>7 DEF MayTouch
  <2>2. modules'[p] # None =>
           backends'[modules'[p]].plugin = p /\ backends'[modules'[p]].state \notin {"none", "idle"}
    BY <1>4, <1>7, <1>8
  <2>. QED
    BY <1>8, <1>9, <2>1, <2>2 DEF Touches, consents
<1>14. Stands(k, p)
  <2>1. \A other \in BackendIds : backends'[other].plugin = p =>
          /\ backends'[other].state = "active" => modules'[p] = other
          /\ backends'[other].state = "idle" => k.candidate = other
          /\ backends'[other].state # "closing"
    BY <1>4, <1>5, <1>7, <1>8
  <2>. QED
    BY <1>5, <1>7, <1>8, <1>11, <1>12, <2>1 DEF Stands
<1>15. k.phase \notin {"unused", "acquiring", "queued", "settled"}
  BY <1>5
<1>. QED
  BY <1>2, <1>3, <1>5, <1>6, <1>8, <1>10, <1>13, <1>14, <1>15, ServesAndMoves DEF consents

LEMMA LoadSelectedKeeps ==
    ASSUME RuntimeInv, NEW c \in ChangeIds, LoadSelected(c)
    PROVE  RuntimeInv'
<1>. PICK from : /\ from \in {"loading", "reloading"} /\ IsIn(c, from)
                 /\ from = "loading" => changes[c].kind = "startup"
  BY DEF LoadSelected
<1>1. /\ Running(c) /\ changes[c] \in Change /\ Fits(changes[c]) /\ changes[c].phase = from
      /\ ~IsIdle(changes[c]) /\ Owns(c)
  BY HeadIs
<1>2. changes[c].kind \notin Updates /\ changes[c].kind # "exit" /\ changes[c].candidate = None
  BY <1>1 DEF Fits, PhasesOf, Updates, Candidates
<1>. PICK p \in Plugins : p = PluginOf(c) /\ changes[c].plugins = {p}
  BY <1>2, HeadIs
<1>3. modules[p] = None
  <2>1. RunFits(c) /\ StartupFits
    BY <1>1, HeadIs DEF RuntimeInv, ServingInv
  <2>2. CASE from = "reloading"
    BY <1>1, <1>2, <2>1, <2>2 DEF RunFits
  <2>3. CASE changes[c].kind = "startup"
    BY <1>1, <2>1, <2>3 DEF StartupFits
  <2>. QED
    BY <2>2, <2>3
<1>4. \A b \in BackendIds : backends[b].plugin = p => backends[b].state = "retired"
  BY <1>1, <1>2, <1>3, BackendsOf, Ids
<1>. PICK b \in BackendIds :
        /\ IsNextBackend(b)
        /\ backends' = [backends EXCEPT ![b] = [plugin |-> p, state |-> "active"]]
        /\ selected' = [selected EXCEPT ![p] = b]
        /\ Activates(p, b)
  BY DEF LoadSelected
<1>5. /\ backends \in [BackendIds -> Backend] /\ backends' \in [BackendIds -> Backend]
      /\ backends'[b].plugin = p /\ backends'[b].state = "active"
      /\ \A other \in BackendIds \ {b} : backends'[other] = backends[other]
      /\ backends[b].state = "none" /\ backends[b] = NoBackend
  BY DEF RuntimeInv, TypeOK, Backend, MaybePlugin, NoBackend, IsNextBackend
<1>6. /\ modules' = [modules EXCEPT ![p] = b] /\ exits' = [exits EXCEPT ![p] = None]
      /\ prompts' = [prompts EXCEPT ![p] = None] /\ selected' = [selected EXCEPT ![p] = b]
      /\ UNCHANGED <<works, errors, requests, confirmations, unstarted, host>>
      /\ modules \in [Plugins -> MaybeBackend] /\ exits \in [Plugins -> MaybeBackend]
      /\ prompts \in [Plugins -> MaybeBackend] /\ selected \in [Plugins -> MaybeBackend]
  BY DEF Activates, LoadSelected, RuntimeInv, TypeOK
<1>7. OtherTypes'
  BY <1>5, <1>6 DEF OtherTypes, RuntimeInv, TypeOK, MaybeBackend
<1>8. Touches(p)
  <2>1. \A other \in BackendIds : backends'[other] = backends[other] \/ MayTouch(p, other)
    BY <1>5 DEF MayTouch
  <2>. QED
    BY <1>5, <1>6, <1>7, <2>1 DEF Touches
<1>9. \A other \in BackendIds : backends'[other].plugin = p =>
          /\ backends'[other].state = "active" => modules'[p] = other
          /\ backends'[other].state \notin {"idle", "closing"}
  BY <1>4, <1>5, <1>6
<1>10. Settles(c)
  BY DEF LoadSelected
<1>. QED
  BY <1>1, <1>2, <1>6, <1>8, <1>9, <1>10, ServesAndSettles

\* A change of a kind moves on to close the backend it replaces.
LEMMA RetiringFits ==
    ASSUME NEW k \in Change, Fits(k), k.phase = "committing", k.previous # None,
           NEW next \in Change, next = [k EXCEPT !.phase = "retiring"],
           k.kind \in Updates \cup {"remove", "recovery"}
    PROVE  Fits(next) /\ next.phase = "retiring" /\ next.kind = k.kind /\ next.plugins = k.plugins
           /\ next.previous = k.previous /\ next.candidate = k.candidate
<1>1. next.phase = "retiring" /\ next.kind = k.kind /\ next.plugins = k.plugins
      /\ next.previous = k.previous /\ next.candidate = k.candidate
  BY DEF Change
<1>2. next.phase \in PhasesOf(next.kind) /\ next.phase \in Candidates /\ k.phase \in Candidates
  BY <1>1 DEF PhasesOf, Updates, Candidates
<1>. QED
  BY <1>1, <1>2 DEF Fits, IsIdle

LEMMA CommitInstallKeeps ==
    ASSUME RuntimeInv, NEW c \in ChangeIds, CommitInstall(c)
    PROVE  RuntimeInv'
<1>. PICK from : from = "committing"
  OBVIOUS
<1>0. IsIn(c, from) /\ changes[c].kind \in Updates
  BY DEF CommitInstall, Updates
<1>1. /\ Running(c) /\ changes[c] \in Change /\ Fits(changes[c]) /\ changes[c].phase = "committing"
      /\ ~IsIdle(changes[c]) /\ Owns(c) /\ StaysQuiet(c)
  BY <1>0, HeadIs
<1>2. changes[c].kind # "exit" /\ changes[c].candidate # None /\ changes[c].candidate \in BackendIds
  BY <1>0, <1>1 DEF Fits, Updates, Candidates, Change, MaybeBackend
<1>. PICK p \in Plugins : p = PluginOf(c) /\ changes[c].plugins = {p}
  BY <1>0, <1>2, HeadIs
<1>. PICK b \in BackendIds : b = changes[c].candidate
  BY <1>2
<1>3. /\ \A other \in BackendIds : backends[other].plugin = p =>
           /\ backends[other].state \in {"idle", "active", "retired"}
           /\ backends[other].state = "active" => modules[p] = other
           /\ backends[other].state = "idle" => other = b
      /\ modules[p] # None =>
           /\ modules[p] \in BackendIds
           /\ backends[modules[p]].plugin = p
           /\ backends[modules[p]].state \notin {"none", "idle"}
      /\ modules[p] = changes[c].previous
      /\ backends[b].plugin = p /\ backends[b].state = "idle"
  <2>1. /\ \A other \in BackendIds : backends[other].plugin = p =>
             /\ backends[other].state \in {"idle", "active", "closing", "retired"}
             /\ backends[other].state = "active" => modules[p] = other
             /\ backends[other].state = "idle" => changes[c].candidate = other
             /\ backends[other].state = "closing" =>
                   changes[c].phase = "retiring" /\ changes[c].previous = other
        /\ modules[p] # None =>
             /\ modules[p] \in BackendIds
             /\ backends[modules[p]].plugin = p
             /\ backends[modules[p]].state \notin {"none", "idle"}
        /\ RunFits(c)
    BY <1>1, <1>2, BackendsOf
  <2>2. /\ modules[p] = changes[c].previous
        /\ backends[b].plugin = p /\ backends[b].state = "idle"
    BY <1>1, <1>2, <2>1 DEF RunFits
  <2>. QED
    BY <1>1, <2>1, <2>2
<1>4. /\ selected' = [selected EXCEPT ![p] = b] /\ errors' \subseteq Plugins
      /\ UNCHANGED <<works, requests, confirmations, unstarted, host>>
      /\ modules \in [Plugins -> MaybeBackend] /\ exits \in [Plugins -> MaybeBackend]
      /\ prompts \in [Plugins -> MaybeBackend] /\ selected \in [Plugins -> MaybeBackend]
      /\ backends \in [BackendIds -> Backend]
  BY DEF CommitInstall, RuntimeInv, TypeOK
<1>5. CASE changes[c].previous # None
  <2>. PICK old \in BackendIds : old = changes[c].previous
    BY <1>3, <1>5
  <2>1. /\ backends' = [backends EXCEPT ![old].state = "closing"]
        /\ Enters(c, "retiring") /\ UNCHANGED <<modules, exits, prompts>>
    BY <1>5 DEF CommitInstall, Retires
  <2>2. /\ backends' \in [BackendIds -> Backend]
        /\ backends'[old].plugin = p /\ backends'[old].state = "closing"
        /\ \A other \in BackendIds \ {old} : backends'[other] = backends[other]
        /\ old # b
    BY <1>3, <1>4, <1>5, <2>1 DEF Backend
  <2>. PICK k \in Change : k = [changes[c] EXCEPT !.phase = "retiring"]
    BY <1>1 DEF Change, Phases
  <2>3. /\ Fits(k) /\ k.phase = "retiring" /\ k.kind = changes[c].kind /\ k.plugins = changes[c].plugins
        /\ k.previous = old /\ k.candidate = b
    BY <1>0, <1>1, <1>5, RetiringFits
  <2>4. Goes(c, k)
    BY <2>1 DEF Enters
  <2>5. OtherTypes'
    BY <1>4, <2>1, <2>2 DEF OtherTypes, RuntimeInv, TypeOK, MaybeBackend
  <2>6. Touches(p)
    <3>1. \A other \in BackendIds : backends'[other] = backends[other] \/ MayTouch(p, other)
      BY <1>3, <1>5, <2>2 DEF MayTouch
    <3>. QED
      BY <1>3, <1>4, <2>1, <2>2, <2>5, <3>1 DEF Touches
  <2>7. Stands(k, p)
    <3>1. \A other \in BackendIds : backends'[other].plugin = p =>
            /\ backends'[other].state = "active" => modules'[p] = other
            /\ backends'[other].state = "idle" => k.candidate = other
            /\ backends'[other].state = "closing" => other = old
      BY <1>3, <2>1, <2>2, <2>3
    <3>2. selected'[p] = b /\ modules'[p] = old /\ k.kind \in Updates
      BY <1>0, <1>3, <1>4, <2>1, <2>3
    <3>3. backends'[b].plugin = p /\ backends'[b].state = "idle"
      BY <1>3, <2>2
    <3>. QED
      BY <2>2, <2>3, <3>1, <3>2, <3>3 DEF Stands
  <2>8. StaysQuiet(c)'
    <3>1. changes'[c] = k
      BY <2>4 DEF Goes, RuntimeInv, TypeOK
    <3>2. Tracked(old)' = {}
      BY <1>1, <1>4, <1>5 DEF StaysQuiet, Tracked
    <3>. QED
      BY <2>3, <3>1, <3>2 DEF StaysQuiet
  <2>9. k.phase \notin {"unused", "acquiring", "queued", "settled"} /\ modules'[p] = modules[p]
        /\ exits'[p] = exits[p]
    BY <2>1, <2>3
  <2>. QED
    BY <1>1, <1>2, <2>3, <2>4, <2>6, <2>7, <2>8, <2>9, ServesAndMoves
<1>6. CASE changes[c].previous = None
  <2>1. /\ backends' = [backends EXCEPT ![b].state = "active"]
        /\ modules' = [modules EXCEPT ![p] = b] /\ exits' = [exits EXCEPT ![p] = None]
        /\ prompts' = [prompts EXCEPT ![p] = None] /\ Settles(c)
    BY <1>6 DEF CommitInstall, Activates
  <2>2. /\ backends' \in [BackendIds -> Backend]
        /\ backends'[b].plugin = p /\ backends'[b].state = "active"
        /\ \A other \in BackendIds \ {b} : backends'[other] = backends[other]
    BY <1>3, <1>4, <2>1 DEF Backend
  <2>3. OtherTypes'
    BY <1>4, <2>1, <2>2 DEF OtherTypes, RuntimeInv, TypeOK, MaybeBackend
  <2>4. Touches(p)
    <3>1. \A other \in BackendIds : backends'[other] = backends[other] \/ MayTouch(p, other)
      BY <1>3, <2>2 DEF MayTouch
    <3>. QED
      BY <1>4, <2>1, <2>2, <2>3, <3>1 DEF Touches
  <2>5. \A other \in BackendIds : backends'[other].plugin = p =>
            /\ backends'[other].state = "active" => modules'[p] = other
            /\ backends'[other].state \notin {"idle", "closing"}
    BY <1>3, <1>4, <1>6, <2>1, <2>2, Ids
  <2>6. exits'[p] = None /\ selected'[p] = modules'[p]
    BY <1>4, <2>1
  <2>. QED
    BY <1>1, <1>2, <2>1, <2>4, <2>5, <2>6, ServesAndSettles
<1>. QED
  BY <1>5, <1>6

\* A removal or a rollback that revokes the backend that serves.
LEMMA RevokeKeeps ==
    ASSUME RuntimeInv, NEW c \in ChangeIds, IsIn(c, "committing"),
           changes[c].kind \in {"remove", "recovery"}, changes[c].previous # None,
           selected' = [selected EXCEPT ![PluginOf(c)] = None],
           modules' = [modules EXCEPT ![PluginOf(c)] = None],
           Retires(changes[c].previous), Enters(c, "retiring"), errors' \subseteq Plugins,
           UNCHANGED <<works, requests, consents, unstarted, host>>
    PROVE  RuntimeInv'
<1>. PICK from : from = "committing"
  OBVIOUS
<1>1. /\ Running(c) /\ changes[c] \in Change /\ Fits(changes[c]) /\ changes[c].phase = "committing"
      /\ ~IsIdle(changes[c]) /\ Owns(c) /\ StaysQuiet(c)
  BY HeadIs
<1>2. /\ changes[c].kind # "exit" /\ changes[c].kind # "startup" /\ changes[c].kind \notin Updates
      /\ changes[c].candidate = None /\ changes[c].previous \in BackendIds
  BY <1>1 DEF Fits, Updates, Change, MaybeBackend
<1>. PICK p \in Plugins : p = PluginOf(c) /\ changes[c].plugins = {p}
  BY <1>2, HeadIs
<1>. PICK old \in BackendIds : old = changes[c].previous
  BY <1>2
<1>3. /\ \A other \in BackendIds : backends[other].plugin = p =>
           /\ backends[other].state \in {"active", "retired"}
           /\ backends[other].state = "active" => modules[p] = other
      /\ modules[p] = old /\ backends[old].plugin = p
  <2>1. /\ \A other \in BackendIds : backends[other].plugin = p =>
             /\ backends[other].state \in {"idle", "active", "closing", "retired"}
             /\ backends[other].state = "active" => modules[p] = other
             /\ backends[other].state = "idle" => changes[c].candidate = other
             /\ backends[other].state = "closing" => changes[c].phase = "retiring"
        /\ modules[p] # None => backends[modules[p]].plugin = p
        /\ RunFits(c)
    BY <1>1, <1>2, BackendsOf
  <2>2. modules[p] = old
    BY <1>1, <1>2, <2>1 DEF RunFits
  <2>. QED
    BY <1>1, <1>2, <2>1, <2>2, Ids
<1>4. /\ selected' = [selected EXCEPT ![p] = None] /\ modules' = [modules EXCEPT ![p] = None]
      /\ modules \in [Plugins -> MaybeBackend] /\ selected \in [Plugins -> MaybeBackend]
      /\ backends \in [BackendIds -> Backend]
      /\ backends' = [backends EXCEPT ![old].state = "closing"]
  BY DEF Retires, RuntimeInv, TypeOK
<1>5. /\ backends' \in [BackendIds -> Backend]
      /\ backends'[old].plugin = p /\ backends'[old].state = "closing"
      /\ \A other \in BackendIds \ {old} : backends'[other] = backends[other]
  BY <1>3, <1>4 DEF Backend
<1>. PICK k \in Change : k = [changes[c] EXCEPT !.phase = "retiring"]
  BY <1>1 DEF Change, Phases
<1>6. /\ Fits(k) /\ k.phase = "retiring" /\ k.kind = changes[c].kind /\ k.plugins = changes[c].plugins
      /\ k.previous = old /\ k.candidate = None
  BY <1>1, <1>2, RetiringFits
<1>7. Goes(c, k)
  BY DEF Enters
<1>8. OtherTypes'
  BY <1>4, <1>5 DEF OtherTypes, RuntimeInv, TypeOK, MaybeBackend, consents
<1>9. Touches(p)
  <2>1. \A other \in BackendIds : backends'[other] = backends[other] \/ MayTouch(p, other)
    BY <1>3, <1>5 DEF MayTouch
  <2>. QED
    BY <1>4, <1>8, <2>1 DEF Touches, consents
<1>10. Stands(k, p)
  <2>1. \A other \in BackendIds : backends'[other].plugin = p =>
          /\ backends'[other].state \notin {"active", "idle"}
          /\ backends'[other].state = "closing" => other = old
    BY <1>3, <1>5
  <2>2. modules'[p] = None /\ k.kind \notin Updates
    BY <1>2, <1>4, <1>6
  <2>. QED
    BY <1>5, <1>6, <2>1, <2>2 DEF Stands
<1>11. StaysQuiet(c)'
  <2>1. changes'[c] = k
    BY <1>7 DEF Goes, RuntimeInv, TypeOK
  <2>2. Tracked(old)' = {}
    BY <1>1 DEF StaysQuiet, Tracked
  <2>. QED
    BY <1>6, <2>1, <2>2 DEF StaysQuiet
<1>12. /\ k.phase \notin {"unused", "acquiring", "queued", "settled"} /\ modules'[p] = None
       /\ exits'[p] = exits[p]
  BY <1>4, <1>6 DEF consents
<1>. QED
  BY <1>1, <1>2, <1>6, <1>7, <1>9, <1>10, <1>11, <1>12, ServesAndMoves

LEMMA CommitRemoveKeeps ==
    ASSUME RuntimeInv, NEW c \in ChangeIds, CommitRemove(c) \/ CommitRollback(c)
    PROVE  RuntimeInv'
<1>. PICK from : from = "committing"
  OBVIOUS
<1>0. IsIn(c, from) /\ changes[c].kind \in {"remove", "recovery"}
  BY DEF CommitRemove, CommitRollback
<1>1. /\ Running(c) /\ changes[c] \in Change /\ Fits(changes[c]) /\ changes[c].phase = "committing"
      /\ ~IsIdle(changes[c])
  BY <1>0, HeadIs
<1>2. changes[c].kind # "exit" /\ changes[c].candidate = None
  BY <1>0, <1>1 DEF Fits, Updates
<1>. PICK p \in Plugins : p = PluginOf(c) /\ changes[c].plugins = {p}
  BY <1>0, <1>2, HeadIs
<1>3. errors' \subseteq Plugins
  BY DEF CommitRemove, CommitRollback, RuntimeInv, TypeOK
<1>4. CASE CommitRollback(c)
  <2>1. changes[c].previous # None
    BY <1>1, <1>4 DEF CommitRollback, Fits
  <2>. QED
    BY <1>0, <1>3, <1>4, <2>1, RevokeKeeps DEF CommitRollback
<1>5. CASE CommitRemove(c) /\ changes[c].previous # None
  BY <1>0, <1>3, <1>5, RevokeKeeps DEF CommitRemove, consents
<1>6. CASE CommitRemove(c) /\ changes[c].previous = None
  <2>1. /\ Settles(c) /\ backends' = backends
        /\ selected' = [selected EXCEPT ![p] = None] /\ modules' = [modules EXCEPT ![p] = None]
        /\ exits' = [exits EXCEPT ![p] = None] /\ prompts' = [prompts EXCEPT ![p] = None]
        /\ UNCHANGED <<works, requests, confirmations, unstarted, host>>
        /\ modules \in [Plugins -> MaybeBackend] /\ selected \in [Plugins -> MaybeBackend]
        /\ exits \in [Plugins -> MaybeBackend]
    BY <1>6 DEF CommitRemove, ForgetExit, RuntimeInv, TypeOK
  <2>2. OtherTypes'
    BY <1>3, <2>1 DEF OtherTypes, RuntimeInv, TypeOK, MaybeBackend
  <2>3. Touches(p)
    BY <2>1, <2>2 DEF Touches
  <2>4. \A other \in BackendIds : backends'[other].plugin = p => backends'[other].state = "retired"
    <3>1. modules[p] = None
      BY <1>1, <1>2, <1>6, BackendsOf DEF RunFits
    <3>. QED
      BY <1>1, <1>2, <2>1, <3>1, BackendsOf, Ids
  <2>5. modules'[p] = None
    BY <2>1, SMTT(20)
  <2>. QED
    BY <1>1, <1>2, <2>1, <2>3, <2>4, <2>5, ServesAndSettles
<1>. QED
  BY <1>4, <1>5, <1>6

LEMMA RetirePreviousKeeps ==
    ASSUME RuntimeInv, NEW c \in ChangeIds, RetirePrevious(c)
    PROVE  RuntimeInv'
<1>. PICK from : from = "retiring"
  OBVIOUS
<1>0. IsIn(c, from) /\ changes[c].kind \in Updates
  BY DEF RetirePrevious, Updates
<1>1. /\ Running(c) /\ changes[c] \in Change /\ Fits(changes[c]) /\ changes[c].phase = "retiring"
      /\ ~IsIdle(changes[c])
  BY <1>0, HeadIs
<1>2. /\ changes[c].kind # "exit" /\ changes[c].candidate \in BackendIds
      /\ changes[c].previous \in BackendIds
  BY <1>0, <1>1 DEF Fits, Updates, Candidates, Change, MaybeBackend
<1>. PICK p \in Plugins : p = PluginOf(c) /\ changes[c].plugins = {p}
  BY <1>0, <1>2, HeadIs
<1>. PICK b \in BackendIds, old \in BackendIds : b = changes[c].candidate /\ old = changes[c].previous
  BY <1>2
<1>3. /\ \A other \in BackendIds : backends[other].plugin = p =>
           /\ backends[other].state \in {"idle", "active", "closing", "retired"}
           /\ backends[other].state = "active" => old = other
           /\ backends[other].state = "idle" => other = b
           /\ backends[other].state = "closing" => other = old
      /\ backends[b].plugin = p /\ backends[b].state = "idle"
      /\ backends[old].plugin = p /\ backends[old].state = "closing"
      /\ selected[p] = b
  <2>1. /\ \A other \in BackendIds : backends[other].plugin = p =>
             /\ backends[other].state \in {"idle", "active", "closing", "retired"}
             /\ backends[other].state = "active" => modules[p] = other
             /\ backends[other].state = "idle" => changes[c].candidate = other
             /\ backends[other].state = "closing" => changes[c].previous = other
        /\ RunFits(c)
    BY <1>1, <1>2, BackendsOf
  <2>2. /\ modules[p] = old /\ backends[b].plugin = p /\ backends[b].state = "idle"
        /\ backends[old].plugin = p /\ backends[old].state = "closing"
        /\ selected[p] = b
    BY <1>0, <1>1, <1>2, <2>1, Ids DEF RunFits
  <2>. QED
    BY <2>1, <2>2
<1>4. /\ backends' = [backends EXCEPT ![old].state = "retired", ![b].state = "active"]
      /\ modules' = [modules EXCEPT ![p] = b] /\ exits' = [exits EXCEPT ![p] = None]
      /\ prompts' = [prompts EXCEPT ![p] = None] /\ Settles(c) /\ Tracked(old) = {}
      /\ errors' \subseteq Plugins /\ works' \subseteq works
      /\ UNCHANGED <<selected, requests, confirmations, unstarted, host>>
      /\ modules \in [Plugins -> MaybeBackend] /\ backends \in [BackendIds -> Backend]
      /\ exits \in [Plugins -> MaybeBackend]
  BY SMTT(20) DEF RetirePrevious, IsRetired, Activates, RuntimeInv, TypeOK
<1>5. /\ backends' \in [BackendIds -> Backend] /\ old # b
      /\ backends'[old].plugin = p /\ backends'[old].state = "retired"
      /\ backends'[b].plugin = p /\ backends'[b].state = "active"
      /\ \A other \in BackendIds \ {old, b} : backends'[other] = backends[other]
  BY <1>3, <1>4, SMTT(20) DEF Backend
<1>6. OtherTypes'
  BY <1>4, <1>5 DEF OtherTypes, RuntimeInv, TypeOK, MaybeBackend
<1>7. Touches(p)
  <2>1. \A other \in BackendIds : backends'[other] = backends[other] \/ MayTouch(p, other)
    <3>1. Tracked(old) = {}
      BY <1>4
    <3>2. MayTouch(p, b)
      BY <1>3, <1>5, Zenon DEF MayTouch
    <3>3. MayTouch(p, old)
      BY <1>3, <1>5, <3>1, Zenon DEF MayTouch
    <3>. QED
      BY <1>5, <3>2, <3>3, Zenon
  <2>2. /\ requests' = requests /\ unstarted' = unstarted /\ host' = host /\ selected' = selected
        /\ modules'[p] = b
    BY <1>4, SMTT(20)
  <2>3. \A q \in Plugins \ {p} : modules'[q] = modules[q] /\ exits'[q] = exits[q]
    BY <1>4, SMTT(20)
  <2>4. backends'[b].plugin = p /\ backends'[b].state \notin {"none", "idle"}
    BY <1>5, Zenon
  <2>. QED
    BY <1>6, <2>1, <2>2, <2>3, <2>4, Zenon DEF Touches
<1>8. \A other \in BackendIds : backends'[other].plugin = p =>
          /\ backends'[other].state = "active" => modules'[p] = other
          /\ backends'[other].state \notin {"idle", "closing"}
  BY <1>3, <1>4, <1>5, SMTT(20)
<1>9. exits'[p] = None /\ selected'[p] = modules'[p]
  BY <1>3, <1>4
<1>. QED
  BY <1>1, <1>2, <1>4, <1>7, <1>8, <1>9, ServesAndSettles

LEMMA RetireRemovedKeeps ==
    ASSUME RuntimeInv, NEW c \in ChangeIds, RetireRemoved(c) \/ RetireFailed(c)
    PROVE  RuntimeInv'
<1>. PICK from : from = "retiring"
  OBVIOUS
<1>0. IsIn(c, from) /\ changes[c].kind \in {"remove", "recovery"}
  BY DEF RetireRemoved, RetireFailed
<1>1. /\ Running(c) /\ changes[c] \in Change /\ Fits(changes[c]) /\ changes[c].phase = "retiring"
      /\ ~IsIdle(changes[c])
  BY <1>0, HeadIs
<1>2. /\ changes[c].kind \notin Updates \cup {"exit", "startup"} /\ changes[c].candidate = None
      /\ changes[c].previous \in BackendIds
  BY <1>0, <1>1 DEF Fits, Updates, Candidates, Change, MaybeBackend
<1>. PICK p \in Plugins : p = PluginOf(c) /\ changes[c].plugins = {p}
  BY <1>0, <1>2, HeadIs
<1>. PICK old \in BackendIds : old = changes[c].previous
  BY <1>2
<1>3. /\ \A other \in BackendIds : backends[other].plugin = p =>
           /\ backends[other].state \in {"closing", "retired"}
           /\ backends[other].state = "closing" => other = old
      /\ backends[old].plugin = p /\ backends[old].state = "closing"
      /\ modules[p] = None
  <2>1. /\ \A other \in BackendIds : backends[other].plugin = p =>
             /\ backends[other].state \in {"idle", "active", "closing", "retired"}
             /\ backends[other].state = "active" => modules[p] = other
             /\ backends[other].state = "idle" => changes[c].candidate = other
             /\ backends[other].state = "closing" => changes[c].previous = other
        /\ RunFits(c)
    BY <1>1, <1>2, BackendsOf
  <2>2. /\ modules[p] = None
        /\ backends[old].plugin = p /\ backends[old].state = "closing"
    BY <1>0, <1>1, <1>2, <2>1 DEF RunFits
  <2>. QED
    BY <1>2, <2>1, <2>2, Ids
<1>4. /\ backends' = [backends EXCEPT ![old].state = "retired"] /\ Tracked(old) = {}
      /\ modules' = modules /\ selected' = selected
      /\ exits' \in {exits, [exits EXCEPT ![p] = None]}
      /\ prompts' \in {prompts, [prompts EXCEPT ![p] = None]}
      /\ errors' \subseteq Plugins /\ works' \subseteq works
      /\ UNCHANGED <<requests, confirmations, unstarted, host>>
      /\ modules \in [Plugins -> MaybeBackend] /\ backends \in [BackendIds -> Backend]
      /\ exits \in [Plugins -> MaybeBackend] /\ prompts \in [Plugins -> MaybeBackend]
  BY DEF RetireRemoved, RetireFailed, ForgetExit, IsRetired, RuntimeInv, TypeOK, consents
<1>5. /\ backends' \in [BackendIds -> Backend]
      /\ backends'[old].plugin = p /\ backends'[old].state = "retired"
      /\ \A other \in BackendIds \ {old} : backends'[other] = backends[other]
  BY <1>3, <1>4 DEF Backend
<1>6. OtherTypes'
  <2>1. exits' \in [Plugins -> MaybeBackend] /\ prompts' \in [Plugins -> MaybeBackend]
    BY <1>4 DEF MaybeBackend
  <2>. QED
    BY <1>4, <1>5, <2>1 DEF OtherTypes, RuntimeInv, TypeOK
<1>7. Touches(p)
  <2>1. \A other \in BackendIds : backends'[other] = backends[other] \/ MayTouch(p, other)
    BY <1>3, <1>4, <1>5 DEF MayTouch
  <2>2. \A q \in Plugins \ {p} : exits'[q] = exits[q]
    BY <1>4
  <2>. QED
    BY <1>3, <1>4, <1>5, <1>6, <2>1, <2>2 DEF Touches
<1>8. \A other \in BackendIds : backends'[other].plugin = p => backends'[other].state = "retired"
  BY <1>3, <1>5
<1>9. modules'[p] = None
  BY <1>3, <1>4
<1>10. CASE Settles(c)
  BY <1>1, <1>2, <1>7, <1>8, <1>9, <1>10, ServesAndSettles
<1>11. CASE RetireFailed(c) /\ Enters(c, "reloading")
  <2>. PICK k \in Change : k = [changes[c] EXCEPT !.phase = "reloading"]
    BY <1>1 DEF Change, Phases
  <2>1. /\ k.phase = "reloading" /\ k.kind = "recovery" /\ k.kind = changes[c].kind
        /\ k.plugins = changes[c].plugins /\ k.previous = old /\ k.candidate = None /\ Goes(c, k)
    BY <1>1, <1>2, <1>11 DEF Change, Enters, RetireFailed
  <2>2. Fits(k)
    <3>1. k.phase \in PhasesOf(k.kind) /\ k.kind \notin Updates
      BY <2>1 DEF PhasesOf, Updates
    <3>. QED
      BY <2>1, <3>1, Ids DEF Fits, IsIdle
  <2>3. Stands(k, p)
    BY <1>8, <1>9, <2>1 DEF Stands
  <2>4. StaysQuiet(c)'
    <3>1. changes'[c] = k
      BY <2>1 DEF Goes, RuntimeInv, TypeOK
    <3>. QED
      BY <2>1, <3>1 DEF StaysQuiet
  <2>5. exits'[p] = exits[p]
    BY <1>11 DEF RetireFailed, consents
  <2>. QED
    BY <1>1, <1>2, <1>7, <1>9, <2>1, <2>2, <2>3, <2>4, <2>5, ServesAndMoves
<1>. QED
  BY <1>10, <1>11 DEF RetireRemoved, RetireFailed

LEMMA RejectKeeps ==
    ASSUME RuntimeInv, NEW c \in ChangeIds, Reject(c)
    PROVE  RuntimeInv'
<1>. PICK from : from = "rejecting"
  OBVIOUS
<1>0. IsIn(c, from)
  BY DEF Reject
<1>1. /\ Running(c) /\ changes[c] \in Change /\ Fits(changes[c]) /\ changes[c].phase = "rejecting"
      /\ ~IsIdle(changes[c])
  BY <1>0, HeadIs
<1>2. changes[c].kind \in Updates /\ changes[c].kind # "exit"
  BY <1>1 DEF Fits, PhasesOf, Updates
<1>3. changes[c].candidate \in BackendIds
  BY <1>1, <1>2 DEF Fits, Candidates, Change, MaybeBackend
<1>. PICK p \in Plugins : p = PluginOf(c) /\ changes[c].plugins = {p}
  BY <1>0, <1>2, HeadIs
<1>. PICK b \in BackendIds : b = changes[c].candidate
  BY <1>3
<1>4. /\ \A other \in BackendIds : backends[other].plugin = p =>
           /\ backends[other].state \in {"idle", "active", "retired"}
           /\ backends[other].state = "active" => modules[p] = other
           /\ backends[other].state = "idle" => other = b
      /\ modules[p] # None =>
           backends[modules[p]].plugin = p /\ backends[modules[p]].state \notin {"none", "idle"}
      /\ backends[b].plugin = p /\ backends[b].state = "idle"
  <2>1. /\ \A other \in BackendIds : backends[other].plugin = p =>
             /\ backends[other].state \in {"idle", "active", "closing", "retired"}
             /\ backends[other].state = "active" => modules[p] = other
             /\ backends[other].state = "idle" => changes[c].candidate = other
             /\ backends[other].state = "closing" => changes[c].phase = "retiring"
        /\ modules[p] # None =>
             backends[modules[p]].plugin = p /\ backends[modules[p]].state \notin {"none", "idle"}
        /\ RunFits(c)
    BY <1>1, <1>2, BackendsOf
  <2>2. backends[b].plugin = p /\ backends[b].state = "idle"
    BY <1>2, <2>1, Ids DEF RunFits
  <2>. QED
    BY <1>1, <2>1, <2>2
<1>5. /\ backends' = [backends EXCEPT ![b].state = "retired"] /\ Settles(c)
      /\ UNCHANGED <<modules, selected, works, errors, requests, consents, unstarted, host>>
      /\ backends \in [BackendIds -> Backend] /\ modules \in [Plugins -> MaybeBackend]
  BY DEF Reject, RuntimeInv, TypeOK
<1>6. /\ backends' \in [BackendIds -> Backend]
      /\ backends'[b].plugin = p /\ backends'[b].state = "retired"
      /\ \A other \in BackendIds \ {b} : backends'[other] = backends[other]
  BY <1>4, <1>5 DEF Backend
<1>7. OtherTypes'
  BY <1>5, <1>6 DEF OtherTypes, RuntimeInv, TypeOK, consents
<1>8. Touches(p)
  <2>1. \A other \in BackendIds : backends'[other] = backends[other] \/ MayTouch(p, other)
    BY <1>4, <1>6 DEF MayTouch
  <2>2. modules[p] # None =>
          backends'[modules[p]].plugin = p /\ backends'[modules[p]].state \notin {"none", "idle"}
    <3>1. modules[p] # None => modules[p] \in BackendIds \ {b}
      BY <1>4, <1>5 DEF MaybeBackend
    <3>. QED
      BY <1>4, <1>6, <3>1
  <2>. QED
    BY <1>5, <1>7, <2>1, <2>2 DEF Touches, consents
<1>9. \A other \in BackendIds : backends'[other].plugin = p =>
          /\ backends'[other].state = "active" => modules'[p] = other
          /\ backends'[other].state \notin {"idle", "closing"}
  BY <1>4, <1>5, <1>6
<1>10. modules'[p] = modules[p] /\ exits'[p] = exits[p] /\ (modules'[p] = None \/ selected'[p] = modules'[p])
  <2>1. ~IsReplacing(p)
    BY <1>1, HeadRuns DEF IsReplacing, RuntimeInv
  <2>. QED
    BY <1>5, <2>1 DEF RuntimeInv, ServingInv, consents
<1>. QED
  BY <1>1, <1>2, <1>5, <1>8, <1>9, <1>10, ServesAndSettles

---------------------------------------------------------------------------
(* The invariant.                                                          *)

LEMMA InitFits == Init => RuntimeInv
<1> SUFFICES ASSUME Init PROVE RuntimeInv
  OBVIOUS
<1>1. TypeOK
  BY GoneTyped DEF Init, TypeOK, MaybeBackend, MaybeConsent, NoBackend, Backend, MaybePlugin, NoRequest, Request
<1>2. \A c \in ChangeIds : ~Owns(c) /\ ~Running(c) /\ changes[c] = NoChange /\ changes[c].phase = "unused"
  BY DEF Init, Owns, Running, NoChange
<1>3. QueueInv
  BY <1>1, <1>2 DEF Init, QueueInv, QueueTyped, TypeOK, QueueFits, IntentsFit, Fits, IsIdle
<1>4. /\ \A p \in Plugins : modules[p] = None
      /\ \A b \in BackendIds : backends[b] = NoBackend /\ backends[b].state = "none"
      /\ \A r \in RequestIds : requests[r].phase = "unused"
      /\ host = "open"
  BY DEF Init, NoBackend, NoRequest
<1>5. ServingInv
  BY <1>1, <1>2, <1>4 DEF ServingInv, StartupFits, BackendsFit, OneBackendServes, ExitIsCurrent, TypeOK
<1>6. RequestInv
  BY <1>2, <1>4 DEF RequestInv
<1>. QED
  BY <1>1, <1>3, <1>5, <1>6 DEF RuntimeInv

LEMMA StuttersKeep ==
    ASSUME RuntimeInv, UNCHANGED vars
    PROVE  RuntimeInv'
<1>1. UNCHANGED <<serving, works, errors, requests, changes, tail, intents, consents, unstarted, host>>
  BY DEF vars
<1>2. OtherTypes' /\ requests' \in [RequestIds -> Request]
  BY <1>1 DEF OtherTypes, RuntimeInv, TypeOK, serving, consents
<1>. QED
  BY <1>1, <1>2, EndsKeep DEF consents

LEMMA StepsKeep ==
    ASSUME RuntimeInv, [Next]_vars
    PROVE  RuntimeInv'
<1>1. ASSUME NEW c \in ChangeIds, Asked(c)
      PROVE  RuntimeInv'
  BY <1>1, StartupKeeps, IntendKeeps, AcquiredKeeps, AcquireFailsKeeps, AskKeeps DEF Asked
<1>2. ASSUME NEW c \in ChangeIds, Begin(c)
      PROVE  RuntimeInv'
  BY <1>2, BeginKeeps
<1>3. ASSUME NEW c \in ChangeIds, Reviewing(c)
      PROVE  RuntimeInv'
  BY <1>3, PrepareKeeps, ConnectedKeeps, ReviewKeeps, GiveConsentKeeps, ExitReviewKeeps DEF Reviewing
<1>4. ASSUME NEW c \in ChangeIds, Changing(c)
      PROVE  RuntimeInv'
  BY <1>4, LoadFailsKeeps, StartupFailsKeeps, LoadKeeps, LoadSelectedKeeps, ReloadFailsKeeps,
     UnloadKeeps, DrainKeeps, CommitInstallKeeps, CommitRemoveKeeps, RollbackStartupKeeps,
     RetirePreviousKeeps, RetireRemovedKeeps, RejectKeeps DEF Changing
<1>5. ASSUME NEW r \in RequestIds, Requesting(r)
      PROVE  RuntimeInv'
  BY <1>5, AdmitKeeps, DispatchKeeps, EndRequestKeeps, StartWorkKeeps DEF Requesting
<1>6. ASSUME (\E b \in BackendIds : EndWork(b)) \/ \E p \in Plugins : Expire(p)
      PROVE  RuntimeInv'
  BY <1>6, EndWorkKeeps
<1>7. CASE ExitIsBusy \/ BeginClose
  BY <1>7, ExitIsBusyKeeps, BeginCloseKeeps
<1>8. CASE Stopping
  BY <1>8, CloseBackendsKeeps, CloseBackendKeeps, CloseKeeps DEF Stopping
<1>9. CASE UNCHANGED vars
  BY <1>9, StuttersKeep
<1>. QED
  BY <1>1, <1>2, <1>3, <1>4, <1>5, <1>6, <1>7, <1>8, <1>9 DEF Next

\* In every state of the runtime the types hold, the queue and its changes fit, what serves
\* is owned, and no request outlives what a change drained.
THEOREM RuntimeInvariant == Spec => []RuntimeInv
<1>1. Init => RuntimeInv
  BY InitFits
<1>2. RuntimeInv /\ [Next]_vars => RuntimeInv'
  BY StepsKeep
<1>. QED
  BY <1>1, <1>2, PTL DEF Spec

\* A plugin has one backend with authority, and every other one has an owner that will close it.
THEOREM BackendsStayOwned == Spec => []BackendsAreOwned
<1>1. RuntimeInv => BackendsAreOwned
  <2> SUFFICES ASSUME RuntimeInv PROVE BackendsAreOwned
    OBVIOUS
  <2>1. BackendsFit /\ OneBackendServes /\ backends \in [BackendIds -> Backend]
    BY DEF RuntimeInv, ServingInv, TypeOK
  <2>2. ASSUME NEW b \in BackendIds, backends[b].state \in {"idle", "active", "closing"}
        PROVE  \/ \E p \in Plugins : modules[p] = b
               \/ \E c \in ChangeIds : Owns(c) /\ b \in {changes[c].previous, changes[c].candidate}
    BY <2>1, <2>2 DEF BackendsFit, OneBackendServes, Running
  <2>. QED
    BY <2>1, <2>2 DEF BackendsAreOwned, NoBackendIsLost
<1>. QED
  BY <1>1, RuntimeInvariant, PTL

\* A backend is retired, and one is closed while the host is open, only when none of its
\* requests still runs.
THEOREM RequestsEndFirst == Spec => []NoRequestOutlivesItsBackend
<1>1. RuntimeInv => NoRequestOutlivesItsBackend
  <2> SUFFICES ASSUME RuntimeInv, NEW b \in BackendIds
               PROVE  /\ backends[b].state = "retired" => Begun(b) = {}
                      /\ ~Closing /\ backends[b].state = "closing" => Begun(b) = {}
    BY DEF NoRequestOutlivesItsBackend
  <2>1. ASSUME ~Closing, backends[b].state = "closing"
        PROVE  Begun(b) = {}
    <3>1. PICK c \in ChangeIds : Running(c) /\ changes[c].phase = "retiring" /\ changes[c].previous = b
      BY <2>1 DEF RuntimeInv, ServingInv, BackendsFit, Closing
    <3>2. Tracked(b) = {}
      BY <3>1, Ids DEF RuntimeInv, RequestInv, StaysQuiet
    <3>. QED
      BY <3>2 DEF Tracked, Begun
  <2>. QED
    BY <2>1 DEF RuntimeInv, RequestInv
<1>. QED
  BY <1>1, RuntimeInvariant, PTL

---------------------------------------------------------------------------
(* The consent to stop work.                                               *)

\* From the answer of beforeChange() to the end of the unloading.
Watched == {"reviewing", "loading", "unloading"}

\* What runs on the backend that a change stops is what its consent allows.
Warned(c) ==
    LET k == changes[c]
    IN  /\ k.consent # None /\ k.consent.op = k.kind /\ k.consent.backend = k.previous
        /\ Begun(k.previous) \subseteq k.consent.warning.running
        /\ k.previous \in works =>
              \/ k.consent.warning.work
              \/ k.kind \in Updates /\ k.consent.warning.running # {}

ConsentFits(c) ==
    LET k == changes[c]
    IN  /\ k.phase \in Watched /\ k.kind \in IntentKinds \cup {"recovery"} /\ k.consent # None =>
              confirmations[PluginOf(c)] = None
        /\ k.phase \in {"loading", "unloading"} /\ k.previous # None /\ IsBusy(k.previous) => Warned(c)

ConsentInv == \A c \in ChangeIds : ConsentFits(c)

\* The change that runs is the only one that is watched.
LEMMA WatchedRuns ==
    ASSUME RuntimeInv, NEW c \in ChangeIds, changes[c].phase \in Watched
    PROVE  Owns(c) /\ Running(c) /\ \A d \in ChangeIds : Running(d) => d = c
<1>1. Owns(c) /\ Running(c)
  BY DEF Watched, RuntimeInv, QueueInv, QueueFits, Running
<1>. QED
  BY <1>1, HeadRuns DEF RuntimeInv

LEMMA StoppedPlugin ==
    ASSUME RuntimeInv, NEW c \in ChangeIds, changes[c].phase \in Watched,
           changes[c].kind \in IntentKinds \cup {"recovery"}
    PROVE  PluginOf(c) \in Plugins /\ changes[c].plugins = {PluginOf(c)}
<1>1. Fits(changes[c]) /\ ~IsIdle(changes[c]) /\ changes[c].kind # "exit"
  BY DEF Watched, RuntimeInv, QueueInv, IsIdle, IntentKinds
<1>2. PICK p \in Plugins : changes[c].plugins = {p}
  BY <1>1 DEF Fits
<1>. QED
  BY <1>2, PluginIsOne

\* What ends, and what leaves the watched phases, needs no other consent.
LEMMA ConsentPasses ==
    ASSUME RuntimeInv, ConsentInv, works' \subseteq works,
           \A d \in ChangeIds : changes'[d] = changes[d] \/ changes'[d].phase \notin Watched,
           \A b : Begun(b)' \subseteq Begun(b),
           \A p \in Plugins : confirmations'[p] \in {confirmations[p], None}
    PROVE  ConsentInv'
<1> SUFFICES ASSUME NEW d \in ChangeIds, changes'[d] = changes[d], changes[d].phase \in Watched
             PROVE  ConsentFits(d)'
  BY DEF ConsentInv, ConsentFits, Watched
<1>1. ConsentFits(d) /\ PluginOf(d)' = PluginOf(d)
  BY DEF ConsentInv, PluginOf
<1>2. ASSUME changes[d].kind \in IntentKinds \cup {"recovery"}, changes[d].consent # None
      PROVE  confirmations'[PluginOf(d)] = None
  BY <1>1, <1>2, StoppedPlugin DEF ConsentFits
<1>3. ASSUME changes[d].phase \in {"loading", "unloading"}, changes[d].previous # None,
             IsBusy(changes[d].previous)'
      PROVE  Warned(d)'
  <2>1. IsBusy(changes[d].previous)
    BY <1>3 DEF IsBusy
  <2>2. Warned(d)
    BY <1>1, <1>3, <2>1 DEF ConsentFits
  <2>. QED
    BY <2>2 DEF Warned
<1>. QED
  BY <1>1, <1>2, <1>3 DEF ConsentFits

\* A step of the change that runs leaves only that change to be looked at.
LEMMA ConsentOfRun ==
    ASSUME RuntimeInv, NEW c \in ChangeIds, c = tail[1],
           \A d \in ChangeIds \ {c} : changes'[d] = changes[d], ConsentFits(c)'
    PROVE  ConsentInv'
<1> SUFFICES ASSUME NEW d \in ChangeIds \ {c}
             PROVE  changes'[d].phase \notin Watched
  BY DEF ConsentInv, ConsentFits, Watched
<1>. QED
  BY WatchedRuns, HeadRuns DEF RuntimeInv

Leaves(c) ==
    /\ changes'[c].phase \notin Watched
    /\ \A d \in ChangeIds : changes'[d] = changes[d] \/ changes'[d].phase \notin Watched

LEMMA LeavesWatched ==
    ASSUME RuntimeInv, NEW c \in ChangeIds
    PROVE  /\ Settles(c) => Leaves(c)
           /\ \A to \in Phases \ Watched : Enters(c, to) => Leaves(c)
           /\ Fails(c) => Leaves(c)
<1>1. ASSUME Settles(c) PROVE Leaves(c)
  BY <1>1, GoneTyped DEF Settles, Leaves, Watched, RuntimeInv, TypeOK
<1>2. ASSUME NEW to \in Phases \ Watched, Enters(c, to) PROVE Leaves(c)
  <2>1. changes'[c].phase = to
    BY <1>2, EnteredIs
  <2>2. \A d \in ChangeIds \ {c} : changes'[d] = changes[d]
    BY <1>2 DEF Enters, Goes, RuntimeInv, TypeOK
  <2>. QED
    BY <2>1, <2>2 DEF Leaves
<1>3. "rejecting" \in Phases \ Watched
  BY DEF Phases, Watched
<1>. QED
  BY <1>1, <1>2, <1>3 DEF Fails

\* A change that was just asked for.
LEMMA WaitingIs ==
    ASSUME NEW kind, NEW ps, NEW phase \in {"acquiring", "queued"}
    PROVE  /\ NewChange(kind, ps, phase).phase \notin Watched
           /\ \A consent : [NewChange(kind, ps, phase) EXCEPT !.consent = consent].phase \notin Watched
           /\ \A b : [NewChange(kind, ps, phase) EXCEPT !.previous = b].phase \notin Watched
<1>. PICK k : k = NewChange(kind, ps, phase)
  OBVIOUS
<1>1. k.phase = phase
  BY DEF NewChange, NoChange
<1>2. ASSUME NEW consent PROVE [k EXCEPT !.consent = consent].phase = phase
  BY DEF NewChange, NoChange
<1>3. ASSUME NEW b PROVE [k EXCEPT !.previous = b].phase = phase
  BY DEF NewChange, NoChange
<1>. QED
  BY <1>1, <1>2, <1>3 DEF Watched

LEMMA AskedConsents ==
    ASSUME RuntimeInv, ConsentInv, NEW c \in ChangeIds, Asked(c)
    PROVE  ConsentInv'
<1>1. UNCHANGED <<works, requests, consents>>
  BY DEF Asked, Startup, Intend, Acquired, AcquireFails, Ask, ReviewExit
<1>2. PICK k : changes' = [changes EXCEPT ![c] = k] /\ k.phase \notin Watched
  <2>1. CASE Startup(c)
    <3>1. PICK p \in Plugins : changes' = [changes EXCEPT ![c] = NewChange("startup", {p}, "queued")]
      BY <2>1 DEF Startup, Admits, RuntimeInv, TypeOK
    <3>. QED
      BY <3>1, WaitingIs
  <2>2. CASE Intend(c)
    <3>1. PICK kind \in IntentKinds \cap OfferedNow, p \in Plugins, withConsent \in BOOLEAN :
             /\ ~Owned(p)
             /\ changes' = [changes EXCEPT ![c] = [NewChange(kind, {p}, "acquiring") EXCEPT
                  !.consent = IF withConsent THEN confirmations[p] ELSE None]]
             /\ intents' = [intents EXCEPT ![p] = c]
      BY <2>2 DEF Intend
    <3>. QED
      BY <3>1, WaitingIs
  <2>3. CASE Acquired(c)
    <3>. PICK k : k = [changes[c] EXCEPT !.phase = "queued"]
      OBVIOUS
    <3>1. changes' = [changes EXCEPT ![c] = k]
      BY <2>3 DEF Acquired, Admits
    <3>2. changes[c] \in Change
      BY DEF RuntimeInv, TypeOK
    <3>3. k.phase = "queued"
      BY <3>2 DEF Change
    <3>. QED
      BY <3>1, <3>3 DEF Watched
  <2>4. CASE AcquireFails(c)
    BY <2>4, GoneTyped DEF AcquireFails, Watched
  <2>5. CASE Ask(c)
    <3>1. PICK kind \in OfferedNow \ (IntentKinds \cup {"exit"}), p \in Plugins, b \in MaybeBackend :
             Admits(c, [NewChange(kind, {p}, "queued") EXCEPT !.previous = b])
      BY <2>5 DEF Ask
    <3>. QED
      BY <3>1, WaitingIs DEF Admits
  <2>6. CASE ReviewExit(c)
    <3>1. PICK ps \in SUBSET Plugins : changes' = [changes EXCEPT ![c] = NewChange("exit", ps, "queued")]
      BY <2>6 DEF ReviewExit, Admits
    <3>. QED
      BY <3>1, WaitingIs
  <2>. QED
    BY <2>1, <2>2, <2>3, <2>4, <2>5, <2>6 DEF Asked
<1>3. \A d \in ChangeIds : changes'[d] = changes[d] \/ changes'[d].phase \notin Watched
  BY <1>2 DEF RuntimeInv, TypeOK
<1>4. \A b : Begun(b)' = Begun(b)
  BY <1>1 DEF Begun
<1>. QED
  BY <1>1, <1>3, <1>4, ConsentPasses DEF consents

LEMMA BeginConsents ==
    ASSUME RuntimeInv, NEW c \in ChangeIds, Begin(c), ConsentInv
    PROVE  ConsentInv'
<1>1. /\ c = tail[1] /\ Owns(c) /\ changes[c].phase = "queued" /\ changes[c] \in Change
      /\ UNCHANGED <<works, requests, confirmations>>
  <2>1. tail # <<>> /\ c = Head(tail) /\ tail \in Seq(ChangeIds) /\ changes[c].phase = "queued"
    BY DEF Begin, RuntimeInv, TypeOK
  <2>2. c = tail[1]
    BY <2>1
  <2>. QED
    BY <2>1, <2>2 DEF Begin, RuntimeInv, QueueInv, QueueFits, TypeOK
<1>2. CASE Settles(c)
  <2>1. Leaves(c)
    BY <1>2, LeavesWatched
  <2>2. \A b : Begun(b)' = Begun(b)
    BY <1>1 DEF Begun
  <2>. QED
    BY <1>1, <2>1, <2>2, ConsentPasses DEF Leaves
<1>3. CASE ~Settles(c)
  <2>. DEFINE found == IF changes[c].kind = "exit" THEN None ELSE modules[PluginOf(c)]
              k     == [changes[c] EXCEPT !.phase = FirstPhase(changes[c].kind), !.previous = found]
  <2>1. Goes(c, k)
    BY <1>3 DEF Begin
  <2>2. /\ k.phase = FirstPhase(k.kind) /\ k.kind = changes[c].kind /\ k.plugins = changes[c].plugins
        /\ k.previous = found
    BY <1>1 DEF Change
  <2>3. changes'[c] = k /\ \A d \in ChangeIds \ {c} : changes'[d] = changes[d]
    BY <2>1 DEF Goes, RuntimeInv, TypeOK
  <2>4. k.kind \in Kinds
    BY <1>1, <2>2 DEF Change
  <2>5. ASSUME k.phase \in {"loading", "unloading"}
        PROVE  found = None
    <3>1. k.kind = "startup"
      BY <2>2, <2>4, <2>5 DEF FirstPhase, Kinds, ReviewKinds, Reviews, IntentKinds
    <3>2. PICK p \in Plugins : changes[c].plugins = {p}
      BY <1>1, <2>2, <3>1 DEF RuntimeInv, QueueInv, Fits, IsIdle
    <3>3. modules[p] = None
      BY <1>1, <2>2, <3>1, <3>2 DEF RuntimeInv, ServingInv, StartupFits
    <3>. QED
      BY <3>2, <3>3, PluginIsOne
  <2>6. k.kind \in IntentKinds \cup {"recovery"} => k.phase \notin Watched
    <3>1. \A kind \in IntentKinds \cup {"recovery"} : FirstPhase(kind) \notin Watched
      BY DEF FirstPhase, IntentKinds, Watched, ReviewKinds, Reviews
    <3>. QED
      BY <2>2, <3>1
  <2>7. ConsentFits(c)'
    <3>. HIDE DEF k
    <3>1. changes'[c] = k
      BY <2>3
    <3>. QED
      BY <2>2, <2>5, <2>6, <3>1 DEF ConsentFits
  <2>. QED
    BY <1>1, <2>3, <2>7, ConsentOfRun
<1>. QED
  BY <1>2, <1>3

LEMMA ConnectedConsents ==
    ASSUME RuntimeInv, ConsentInv, NEW c \in ChangeIds, Connected(c)
    PROVE  ConsentInv'
<1>. PICK from : from = "connections"
  OBVIOUS
<1>1. IsIn(c, from)
  BY DEF Connected
<1>2. /\ c = tail[1] /\ changes[c] \in Change /\ Fits(changes[c]) /\ changes[c].phase = from
      /\ ~IsIdle(changes[c])
      /\ changes[c].kind # "exit" => PluginOf(c) \in Plugins
  BY <1>1, HeadIs
<1>. PICK held : held = (changes[c].consent # None /\ changes[c].consent = confirmations[PluginOf(c)])
  OBVIOUS
<1>. PICK k : k = [changes[c] EXCEPT !.phase = "reviewing",
                                     !.consent = IF held THEN changes[c].consent ELSE None]
  OBVIOUS
<1>3. /\ changes' = [changes EXCEPT ![c] = k]
      /\ confirmations' = IF held THEN [confirmations EXCEPT ![PluginOf(c)] = None] ELSE confirmations
      /\ UNCHANGED <<works, requests>>
  BY <1>2 DEF Connected, Goes, Change
<1>4. k.phase = "reviewing" /\ k.kind = changes[c].kind /\ k.plugins = changes[c].plugins
  BY <1>2 DEF Change
<1>5. k.consent = IF held THEN changes[c].consent ELSE None
  BY <1>2 DEF Change
<1>6. changes'[c] = k /\ \A d \in ChangeIds \ {c} : changes'[d] = changes[d]
  BY <1>3 DEF RuntimeInv, TypeOK
<1>7. PluginOf(c)' = PluginOf(c)
  BY <1>4, <1>6 DEF PluginOf
<1>8. ASSUME k.kind \in IntentKinds \cup {"recovery"}, k.consent # None
      PROVE  confirmations'[PluginOf(c)] = None
  <2>1. PluginOf(c) \in Plugins /\ held
    BY <1>2, <1>4, <1>5, <1>8 DEF IntentKinds
  <2>. QED
    BY <1>3, <2>1 DEF RuntimeInv, TypeOK
<1>9. ConsentFits(c)'
  BY <1>4, <1>6, <1>7, <1>8 DEF ConsentFits
<1>. QED
  BY <1>2, <1>6, <1>9, ConsentOfRun

\* beforeChange() found the backend idle, or warned of exactly what was consented to.
LEMMA ReviewedConsents ==
    ASSUME RuntimeInv, ConsentInv, NEW c \in ChangeIds, Reviewed(c)
    PROVE  ConsentInv'
<1>. PICK from : from = "reviewing"
  OBVIOUS
<1>1. IsIn(c, from)
  BY DEF Reviewed
<1>2. c = tail[1] /\ changes[c] \in Change /\ changes[c].phase = from
  BY <1>1, HeadIs
<1>3. PICK to \in {"loading", "committing", "unloading"} : Enters(c, to)
  <2>1. Enters(c, "loading") \/ Enters(c, "committing") \/ Enters(c, "unloading")
    BY DEF Reviewed
  <2>. QED
    BY <2>1
<1>4. /\ changes'[c].previous = changes[c].previous /\ changes'[c].consent = changes[c].consent
      /\ changes'[c].kind = changes[c].kind /\ changes'[c].plugins = changes[c].plugins
  BY <1>3, EnteredIs DEF Phases
<1>5. \A d \in ChangeIds \ {c} : changes'[d] = changes[d]
  BY <1>3 DEF Enters, Goes, RuntimeInv, TypeOK
<1>6. UNCHANGED <<works, requests, confirmations>> /\ MayStop(c)
  BY DEF Reviewed, consents
<1>7. PluginOf(c)' = PluginOf(c) /\ ConsentFits(c)
  BY <1>4 DEF PluginOf, ConsentInv
<1>8. ASSUME changes[c].previous # None, IsBusy(changes[c].previous)
      PROVE  Warned(c)
  <2>. PICK warning : warning = WarningOf(changes[c].previous)
    OBVIOUS
  <2>1. /\ changes[c].consent # None /\ changes[c].consent.op = changes[c].kind
        /\ changes[c].consent.backend = changes[c].previous
        /\ changes[c].consent.warning = warning
    BY <1>6, <1>8 DEF MayStop, IsConfirmed
  <2>2. warning.running = Begun(changes[c].previous)
    BY DEF WarningOf
  <2>3. changes[c].previous \in works => warning.work
    BY DEF WarningOf
  <2>. QED
    BY <2>1, <2>2, <2>3 DEF Warned
<1>9. ASSUME changes[c].previous # None, IsBusy(changes[c].previous)'
      PROVE  Warned(c)'
  <2>1. \A b : Begun(b)' = Begun(b)
    BY <1>6 DEF Begun
  <2>2. IsBusy(changes[c].previous)
    BY <1>4, <1>6, <1>9, <2>1 DEF IsBusy
  <2>3. Warned(c)
    BY <1>8, <1>9, <2>2
  <2>. QED
    BY <1>4, <1>6, <2>1, <2>3 DEF Warned
<1>10. ConsentFits(c)'
  BY <1>2, <1>4, <1>6, <1>7, <1>9 DEF ConsentFits, Watched
<1>. QED
  BY <1>2, <1>5, <1>10, ConsentOfRun

\* A load keeps the consent, and the warning of what the old backend still runs.
LEMMA LoadConsents ==
    ASSUME RuntimeInv, ConsentInv, NEW c \in ChangeIds, Load(c)
    PROVE  ConsentInv'
<1>. PICK from : from = "loading"
  OBVIOUS
<1>1. IsIn(c, from)
  BY DEF Load
<1>2. c = tail[1] /\ changes[c] \in Change /\ changes[c].phase = from
  BY <1>1, HeadIs
<1>3. PICK b \in BackendIds :
         Goes(c, [changes[c] EXCEPT
           !.candidate = b,
           !.phase = IF ~IsCurrent(c) THEN "rejecting"
                     ELSE IF changes[c].previous # None THEN "unloading" ELSE "committing"])
  BY DEF Load
<1>. PICK k : k = [changes[c] EXCEPT
                     !.candidate = b,
                     !.phase = IF ~IsCurrent(c) THEN "rejecting"
                               ELSE IF changes[c].previous # None THEN "unloading" ELSE "committing"]
  OBVIOUS
<1>4. /\ k.previous = changes[c].previous /\ k.consent = changes[c].consent
      /\ k.kind = changes[c].kind /\ k.plugins = changes[c].plugins
  BY <1>2 DEF Change
<1>5. changes'[c] = k /\ \A d \in ChangeIds \ {c} : changes'[d] = changes[d]
  BY <1>3 DEF Goes, RuntimeInv, TypeOK
<1>6. UNCHANGED <<works, requests, confirmations>>
  BY DEF Load, consents
<1>7. PluginOf(c)' = PluginOf(c) /\ ConsentFits(c)
  BY <1>4, <1>5 DEF PluginOf, ConsentInv
<1>8. ASSUME changes[c].previous # None, IsBusy(changes[c].previous)'
      PROVE  Warned(c)'
  <2>1. \A other : Begun(other)' = Begun(other)
    BY <1>6 DEF Begun
  <2>2. IsBusy(changes[c].previous)
    BY <1>4, <1>5, <1>6, <1>8, <2>1 DEF IsBusy
  <2>3. Warned(c)
    BY <1>2, <1>7, <1>8, <2>2 DEF ConsentFits
  <2>. QED
    BY <1>4, <1>5, <1>6, <2>1, <2>3 DEF Warned
<1>9. ConsentFits(c)'
  BY <1>2, <1>4, <1>5, <1>6, <1>7, <1>8 DEF ConsentFits, Watched
<1>. QED
  BY <1>2, <1>5, <1>9, ConsentOfRun

\* A consent is given for a change that is no longer watched, by a review that settles.
LEMMA GiveConsentConsents ==
    ASSUME RuntimeInv, ConsentInv, NEW c \in ChangeIds, GiveConsent(c)
    PROVE  ConsentInv'
<1>. PICK from : from = "reviewing"
  OBVIOUS
<1>1. IsIn(c, from) /\ Settles(c)
  BY DEF GiveConsent
<1>2. c = tail[1]
  BY <1>1, HeadIs
<1>3. Leaves(c)
  BY <1>1, LeavesWatched
<1>4. \A d \in ChangeIds \ {c} : changes'[d] = changes[d]
  BY <1>1 DEF Settles, RuntimeInv, TypeOK
<1>5. ConsentFits(c)'
  BY <1>3 DEF Leaves, ConsentFits, Watched
<1>. QED
  BY <1>2, <1>4, <1>5, ConsentOfRun

LEMMA ReviewingConsents ==
    ASSUME RuntimeInv, ConsentInv, NEW c \in ChangeIds, Reviewing(c)
    PROVE  ConsentInv'
<1>1. ASSUME Leaves(c), UNCHANGED <<works, requests, confirmations>>
      PROVE  ConsentInv'
  <2>1. \A b : Begun(b)' = Begun(b)
    BY <1>1 DEF Begun
  <2>. QED
    BY <1>1, <2>1, ConsentPasses DEF Leaves
<1>2. "connections" \in Phases \ Watched
  BY DEF Phases, Watched
<1>3. CASE Prepare(c) \/ PrepareFails(c)
  <2>1. Leaves(c)
    BY <1>2, <1>3, LeavesWatched DEF Prepare, PrepareFails
  <2>. QED
    BY <1>1, <1>3, <2>1 DEF Prepare, PrepareFails, consents
<1>4. CASE ReviewStops(c) \/ AnswerExit(c) \/ ResolveExit(c)
  <2>1. Leaves(c)
    BY <1>4, LeavesWatched DEF ReviewStops, AnswerExit, ResolveExit
  <2>. QED
    BY <1>1, <1>4, <2>1 DEF ReviewStops, AnswerExit, ResolveExit, consents
<1>. QED
  BY <1>3, <1>4, ConnectedConsents, ReviewedConsents, GiveConsentConsents DEF Reviewing

LEMMA ChangingConsents ==
    ASSUME RuntimeInv, ConsentInv, NEW c \in ChangeIds, Changing(c)
    PROVE  ConsentInv'
<1>1. ASSUME Leaves(c), works' \subseteq works, UNCHANGED <<requests, confirmations>>
      PROVE  ConsentInv'
  <2>1. \A b : Begun(b)' = Begun(b)
    BY <1>1 DEF Begun
  <2>. QED
    BY <1>1, <2>1, ConsentPasses DEF Leaves
<1>2. /\ "draining" \in Phases \ Watched /\ "committing" \in Phases \ Watched
      /\ "retiring" \in Phases \ Watched /\ "reloading" \in Phases \ Watched
  BY DEF Phases, Watched
<1>3. CASE LoadFails(c) \/ StartupFails(c) \/ LoadSelected(c) \/ ReloadFails(c)
  <2>1. Leaves(c)
    BY <1>2, <1>3, LeavesWatched DEF LoadFails, StartupFails, LoadSelected, ReloadFails
  <2>2. UNCHANGED <<works, requests, confirmations>>
    BY <1>3 DEF LoadFails, StartupFails, LoadSelected, ReloadFails, consents
  <2>. QED
    BY <1>1, <2>1, <2>2
<1>4. CASE Unload(c) \/ UnloadFails(c) \/ Drain(c)
  <2>1. Leaves(c)
    BY <1>2, <1>4, LeavesWatched DEF Unload, UnloadFails, Drain
  <2>2. works' \subseteq works /\ UNCHANGED <<requests, confirmations>>
    BY <1>4 DEF Unload, UnloadFails, Drain, consents
  <2>. QED
    BY <1>1, <2>1, <2>2
<1>5. CASE CommitInstall(c) \/ CommitRemove(c)
  <2>1. Leaves(c)
    BY <1>2, <1>5, LeavesWatched DEF CommitInstall, CommitRemove
  <2>2. UNCHANGED <<works, requests, confirmations>>
    BY <1>5 DEF CommitInstall, CommitRemove
  <2>. QED
    BY <1>1, <2>1, <2>2
<1>6. CASE CommitRollback(c) \/ RollbackStartup(c) \/ CommitFails(c)
  <2>1. Leaves(c)
    BY <1>2, <1>6, LeavesWatched DEF CommitRollback, RollbackStartup, CommitFails
  <2>2. UNCHANGED <<works, requests, confirmations>>
    BY <1>6 DEF CommitRollback, RollbackStartup, CommitFails, consents
  <2>. QED
    BY <1>1, <2>1, <2>2
<1>7. CASE RetirePrevious(c) \/ RetireRemoved(c)
  <2>1. Leaves(c)
    BY <1>7, LeavesWatched DEF RetirePrevious, RetireRemoved
  <2>2. works' \subseteq works /\ UNCHANGED <<requests, confirmations>>
    BY <1>7 DEF RetirePrevious, RetireRemoved, IsRetired
  <2>. QED
    BY <1>1, <2>1, <2>2
<1>8. CASE RetireFailed(c) \/ Reject(c)
  <2>1. Leaves(c)
    BY <1>2, <1>8, LeavesWatched DEF RetireFailed, Reject
  <2>2. works' \subseteq works /\ UNCHANGED <<requests, confirmations>>
    BY <1>8 DEF RetireFailed, Reject, IsRetired, consents
  <2>. QED
    BY <1>1, <2>1, <2>2
<1>. QED
  BY <1>3, <1>4, <1>5, <1>6, <1>7, <1>8, LoadConsents DEF Changing

\* Nothing begins on a backend while a change loads or unloads.
LEMMA DispatchConsents ==
    ASSUME RuntimeInv, ConsentInv, NEW r \in RequestIds, Dispatch(r)
    PROVE  ConsentInv'
<1>. PICK to : to = IF Dispatchable(requests[r].backend) THEN "running" ELSE "done"
  OBVIOUS
<1>1. /\ requests[r].phase = "admitted" /\ requests \in [RequestIds -> Request]
      /\ requests' = [requests EXCEPT ![r].phase = to]
      /\ UNCHANGED <<works, changes, tail, confirmations>>
  BY DEF Dispatch, RuntimeInv, TypeOK, consents
<1>2. /\ requests'[r].phase = to /\ requests'[r].backend = requests[r].backend
      /\ \A i \in RequestIds \ {r} : requests'[i] = requests[i]
  BY <1>1 DEF Request
<1>3. \A b : b # requests[r].backend \/ ~Dispatchable(b) => Begun(b)' \subseteq Begun(b)
  BY <1>1, <1>2 DEF Begun
<1>4. SUFFICES ASSUME NEW c \in ChangeIds
               PROVE  ConsentFits(c)'
  BY DEF ConsentInv
<1>5. ConsentFits(c) /\ PluginOf(c)' = PluginOf(c)
  BY <1>1 DEF ConsentInv, PluginOf
<1>6. ASSUME changes[c].phase \in {"loading", "unloading"}, changes[c].previous # None,
             IsBusy(changes[c].previous)'
      PROVE  Warned(c)'
  <2>1. Running(c)
    BY <1>6, WatchedRuns DEF Watched
  <2>2. ~Dispatchable(changes[c].previous)
    BY <1>6, <2>1, ChangeBlocks DEF Dispatchable
  <2>3. Begun(changes[c].previous)' \subseteq Begun(changes[c].previous)
    BY <1>1, <1>3, <2>2
  <2>4. Warned(c)
    BY <1>1, <1>5, <1>6, <2>3 DEF ConsentFits, IsBusy
  <2>. QED
    BY <1>1, <2>3, <2>4 DEF Warned
<1>. QED
  BY <1>1, <1>5, <1>6 DEF ConsentFits

\* Work that starts while an update loads was begun by a request of the warning.
LEMMA StartWorkConsents ==
    ASSUME RuntimeInv, ConsentInv, NEW r \in RequestIds, StartWork(r)
    PROVE  ConsentInv'
<1>1. /\ requests[r].phase = "running" /\ works' = works \cup {requests[r].backend}
      /\ UNCHANGED <<requests, changes, tail, confirmations>>
      /\ \A c \in ChangeIds :
            ~(changes[c].previous = requests[r].backend /\ changes[c].phase = "unloading")
  BY DEF StartWork, consents
<1>2. r \in Begun(requests[r].backend)
  BY <1>1 DEF Begun
<1>3. \A b : (Begun(b)' = Begun(b)) /\ (IsBusy(b)' <=> IsBusy(b))
  BY <1>1, <1>2 DEF IsBusy, Begun
<1>4. SUFFICES ASSUME NEW c \in ChangeIds
               PROVE  ConsentFits(c)'
  BY DEF ConsentInv
<1>5. ConsentFits(c) /\ PluginOf(c)' = PluginOf(c)
  BY <1>1 DEF ConsentInv, PluginOf
<1>6. ASSUME changes[c].phase \in {"loading", "unloading"}, changes[c].previous # None,
             IsBusy(changes[c].previous)'
      PROVE  Warned(c)'
  <2>1. Warned(c)
    BY <1>1, <1>3, <1>5, <1>6 DEF ConsentFits
  <2>2. CASE changes[c].previous # requests[r].backend
    BY <1>1, <1>3, <2>1, <2>2 DEF Warned
  <2>3. CASE changes[c].previous = requests[r].backend
    <3>1. Owns(c) /\ Running(c) /\ Fits(changes[c]) /\ changes[c].phase = "loading"
      BY <1>1, <1>6, <2>3, WatchedRuns DEF Watched, RuntimeInv, QueueInv
    <3>2. changes[c].kind \in Updates \cup {"startup"}
      BY <3>1 DEF Fits, IsIdle, PhasesOf
    <3>3. changes[c].kind # "startup"
      <4> SUFFICES ASSUME changes[c].kind = "startup" PROVE FALSE
        OBVIOUS
      <4>1. PICK p \in Plugins : changes[c].plugins = {p}
        BY <3>1 DEF Fits, IsIdle
      <4>2. modules[p] = None
        BY <3>1, <4>1 DEF RuntimeInv, ServingInv, StartupFits
      <4>3. modules[p] = changes[c].previous
        BY <3>1, <4>1 DEF RuntimeInv, ServingInv, RunFits
      <4>. QED
        BY <1>6, <4>2, <4>3
    <3>4. r \in changes[c].consent.warning.running
      BY <1>2, <2>1, <2>3 DEF Warned
    <3>. QED
      BY <1>1, <1>3, <2>1, <3>2, <3>3, <3>4 DEF Warned
  <2>. QED
    BY <2>2, <2>3
<1>. QED
  BY <1>1, <1>5, <1>6 DEF ConsentFits

LEMMA ConsentEnds ==
    ASSUME RuntimeInv, ConsentInv, works' \subseteq works, changes' = changes,
           \A i \in RequestIds :
              requests'[i] = requests[i] \/ requests'[i].phase \in {"admitted", "done"},
           \A p \in Plugins : confirmations'[p] \in {confirmations[p], None}
    PROVE  ConsentInv'
<1>1. \A b : Begun(b)' \subseteq Begun(b)
  BY DEF Begun
<1>. QED
  BY <1>1, ConsentPasses

LEMMA ConsentSteps ==
    ASSUME RuntimeInv, ConsentInv, [Next]_vars
    PROVE  ConsentInv'
<1>1. ASSUME NEW r \in RequestIds, Requesting(r)
      PROVE  ConsentInv'
  <2>1. CASE Admit(r)
    <3>1. \A i \in RequestIds : requests'[i] = requests[i] \/ requests'[i].phase = "admitted"
      BY <2>1 DEF Admit, RuntimeInv, TypeOK
    <3>. QED
      BY <2>1, <3>1, ConsentEnds DEF Admit, consents
  <2>2. CASE EndRequest(r)
    <3>1. \A i \in RequestIds : requests'[i] = requests[i] \/ requests'[i].phase = "done"
      BY <2>2 DEF EndRequest, RuntimeInv, TypeOK, Request
    <3>. QED
      BY <2>2, <3>1, ConsentEnds DEF EndRequest, consents
  <2>. QED
    BY <1>1, <2>1, <2>2, DispatchConsents, StartWorkConsents DEF Requesting
<1>2. ASSUME (\E b \in BackendIds : EndWork(b)) \/ ExitIsBusy \/ BeginClose \/ UNCHANGED vars
      PROVE  ConsentInv'
  <2>1. works' \subseteq works /\ UNCHANGED <<changes, requests, confirmations>>
    BY <1>2 DEF EndWork, ExitIsBusy, BeginClose, vars, consents
  <2>. QED
    BY <2>1, ConsentEnds
<1>3. ASSUME NEW p \in Plugins, Expire(p)
      PROVE  ConsentInv'
  BY <1>3, ConsentEnds DEF Expire, RuntimeInv, TypeOK
<1>4. ASSUME Stopping
      PROVE  ConsentInv'
  <2>1. works' \subseteq works /\ UNCHANGED <<changes, requests>>
    BY <1>4 DEF Stopping, CloseBackends, Close, CloseBackend, IsRetired
  <2>2. \A p \in Plugins : confirmations'[p] \in {confirmations[p], None}
    BY <1>4 DEF Stopping, CloseBackends, Close, CloseBackend, consents
  <2>. QED
    BY <2>1, <2>2, ConsentEnds
<1>. QED
  BY <1>1, <1>2, <1>3, <1>4, AskedConsents, BeginConsents, ReviewingConsents, ChangingConsents
     DEF Next

\* When a change tells a backend to unload, what still runs there is what the user was
\* warned of, for this operation on this backend, by the newest prompt, whose answer is
\* used up; what the review found idle is idle still.
THEOREM StopsStayConfirmed == Spec => []StopsOnlyConfirmed
<1>1. Init => ConsentInv
  <2> SUFFICES ASSUME Init, NEW c \in ChangeIds PROVE ConsentFits(c)
    BY DEF ConsentInv
  <2>1. changes[c].phase = "unused"
    BY DEF Init, NoChange
  <2>. QED
    BY <2>1 DEF ConsentFits, Watched
<1>2. RuntimeInv /\ ConsentInv /\ [Next]_vars => ConsentInv'
  BY ConsentSteps
<1>3. RuntimeInv /\ ConsentInv => StopsOnlyConfirmed
  <2> SUFFICES ASSUME RuntimeInv, ConsentInv, NEW c \in ChangeIds, changes[c].phase = "unloading",
                      IsBusy(changes[c].previous)
               PROVE  /\ Warned(c)
                      /\ confirmations[PluginOf(c)] = None
    BY DEF StopsOnlyConfirmed, Warned, Updates
  <2>1. Fits(changes[c]) /\ ~IsIdle(changes[c])
    BY DEF RuntimeInv, QueueInv, IsIdle
  <2>2. changes[c].previous # None /\ changes[c].kind \in IntentKinds \cup {"recovery"}
    BY <2>1 DEF Fits, PhasesOf, IntentKinds, Updates
  <2>3. Warned(c)
    BY <2>2 DEF ConsentInv, ConsentFits
  <2>. QED
    BY <2>2, <2>3 DEF ConsentInv, ConsentFits, Watched, Warned
<1>. QED
  BY <1>1, <1>2, <1>3, RuntimeInvariant, PTL DEF Spec

\* What a change, a failed commit or an exit leaves is current: the newest intent commits,
\* the package the store selects serves, and an exit is answered by what serves.
THEOREM ChangesStayCurrent == Spec => []ChangesAreCurrent
<1>1. RuntimeInv => ChangesAreCurrent
  <2> SUFFICES ASSUME RuntimeInv PROVE ChangesAreCurrent
    OBVIOUS
  <2>1. ASSUME NEW c \in ChangeIds, Owns(c), changes[c].kind \in IntentKinds, ~Closing
        PROVE  intents[PluginOf(c)] = c
    <3>1. Fits(changes[c]) /\ ~IsIdle(changes[c])
      BY <2>1 DEF RuntimeInv, QueueInv, QueueFits, IsIdle
    <3>2. changes[c].kind # "exit"
      BY <2>1 DEF IntentKinds
    <3>3. PICK p \in Plugins : changes[c].plugins = {p}
      BY <3>1, <3>2 DEF Fits
    <3>4. PluginOf(c) = p
      BY <3>3, PluginIsOne
    <3>. QED
      BY <2>1, <3>3, <3>4 DEF RuntimeInv, QueueInv, IntentsFit
  <2>2. ASSUME NEW p \in Plugins, ~Owned(p), modules[p] # None
        PROVE  selected[p] = modules[p]
    <3>1. ~IsReplacing(p)
      BY <2>2 DEF IsReplacing, Owned, Running
    <3>. QED
      BY <2>2, <3>1 DEF RuntimeInv, ServingInv
  <2>3. ExitIsCurrent
    BY DEF RuntimeInv, ServingInv
  <2>. QED
    BY <2>1, <2>2, <2>3 DEF ChangesAreCurrent, NewestIntentCommits, ServingIsSelected
<1>. QED
  BY <1>1, RuntimeInvariant, PTL

\* The close ends with no change under way, no request that runs, and no backend open.
THEOREM HostEndsCleanly == Spec => []HostEndsClean
<1>1. RuntimeInv => HostEndsClean
  <2> SUFFICES ASSUME RuntimeInv, host = "closed"
               PROVE  /\ tail = <<>>
                      /\ \A r \in RequestIds : requests[r].phase # "running"
                      /\ \A b \in BackendIds : backends[b].state \in {"none", "retired"}
    BY DEF HostEndsClean
  <2>1. tail = <<>> /\ \A b \in BackendIds : backends[b].state \in {"none", "retired"}
    BY DEF RuntimeInv, QueueInv, ServingInv
  <2>2. ASSUME NEW r \in RequestIds, requests[r].phase = "running"
        PROVE  FALSE
    <3>1. requests[r].backend \in BackendIds /\ backends[requests[r].backend].state # "none"
      BY <2>2 DEF RuntimeInv, RequestInv
    <3>2. Begun(requests[r].backend) = {}
      BY <2>1, <3>1 DEF RuntimeInv, RequestInv
    <3>. QED
      BY <2>2, <3>2 DEF Begun
  <2>. QED
    BY <2>1, <2>2
<1>. QED
  BY <1>1, RuntimeInvariant, PTL
=============================================================================
