------------------------------ MODULE PluginProofs ------------------------------
(***************************************************************************)
(* Proofs about Plugin, for any number of loads, ports and attempts: the   *)
(* database is open once, compaction goes on, retention runs once; and     *)
(* about the Scraper it runs.                                              *)
(***************************************************************************)
EXTENDS Plugin, Scraper, Sums

Teardowns == {"none", "waits", "server", "close", "settles", "done"}
Loops == {"none", "batch", "pause"}
Life == [loaded : BOOLEAN, unloading : BOOLEAN, init : InitStages, waits : 0..Loads,
         attempt : Int, teardown : Teardowns, store : BOOLEAN]
Care == [timers : SUBSET Timers, loop : Loops, batches : Int, points : Int,
         prune : [Slots -> PruneStages], pruning : Slots \cup {"none"},
         guard : BOOLEAN, pages : Int]

\* The part of TypeOK the proofs need.
Shapes ==
    /\ layoutReady \in BOOLEAN /\ tracked \in 0..Loads
    /\ life \in [Load -> Life] /\ care \in [Load -> Care]
    /\ db \in [open : SUBSET Load, backlog : Int, expired : Int, free : Int]

-----------------------------------------------------------------------------
(***************************************************************************)
(* The inductive invariant.                                                *)
(***************************************************************************)
\* A load that has the database no more, and will not get it.
Over(i) == life[i].teardown = "done" \/ (life[i].init = "idle" /\ life[i].unloading)

\* The stages of one load fit together.
StagesFit(l) ==
    /\ ~l.loaded => l.init = "idle" /\ ~l.unloading
    /\ l.teardown = "none" <=> ~l.unloading
    /\ l.teardown \notin {"none", "waits"} => l.init \notin PendingStages
    /\ l.init \in {"serving", "ready"} /\ l.teardown # "done" => l.store

\* A load that may have the store open.
MayHold(l) ==
    /\ l.teardown \in {"none", "waits", "server", "close"}
    /\ l.init = "late" \/ (l.store /\ l.init \in {"serving", "ready", "left"})

\* Loads follow each other; those before the layout was ready have not started.
InTurn ==
    /\ \A i, j \in Load : j < i /\ life[i].loaded => life[j].unloading
    /\ \A i \in Load : life[i].init # "idle" => layoutReady
    /\ \A i \in Load : layoutReady /\ life[i].loaded /\ life[i].init = "idle" => life[i].unloading
    /\ \A i, j \in Load : j < i /\ life[i].loaded /\ life[i].init = "idle" => life[j].init = "idle"

\* A load that is past its wait finds the earlier ones over.
WaitsForOthers ==
    \A i \in Load :
        /\ life[i].init = "waits" => life[i].waits \in {0, i - 1}
        /\ \A j \in Load : j < i =>
            /\ life[i].init = "waits" /\ life[i].waits = 0 => Over(j)
            /\ life[i].init \notin {"idle", "waits"} => Over(j)

\* The promise on the window is that of the last load that was unloaded, or none is needed.
TracksTheLast ==
    /\ tracked = 0 => \A i \in Load : life[i].unloading => Over(i)
    /\ tracked # 0 => /\ life[tracked].unloading
                      /\ \A i \in Load : i > tracked => ~life[i].unloading

OpenFits == \A i \in db.open : MayHold(life[i])

LifeInv ==
    /\ Shapes
    /\ \A i \in Load : StagesFit(life[i])
    /\ InTurn /\ WaitsForOthers /\ TracksTheLast /\ OpenFits

\* The timers and sweeps of a load c fit to its life l.
OneSweep(c) == \A s \in Slots : c.prune[s] # "none" => c.pruning = s
CareFits(l, c) ==
    /\ l.init # "ready" => /\ c.timers = {} /\ c.loop = "none" /\ ~c.guard
                           /\ \A s \in Slots : c.prune[s] = "none"
    /\ OneSweep(c)
    /\ l.init = "ready" /\ ~l.unloading => ((c.loop # "none") # ("compaction" \in c.timers))

CareInv == \A i \in Load : CareFits(life[i], care[i])

IInv == LifeInv /\ CareInv

-----------------------------------------------------------------------------
(* The lives of the loads.                                                 *)

\* What is over stays over.
LEMMA StaysOver ==
    ASSUME NEW j \in Load, Over(j),
           life'[j].teardown = "done" \/ life'[j].teardown = life[j].teardown,
           life[j].init = "idle" /\ life[j].unloading =>
               life'[j].init = "idle" /\ life'[j].unloading
    PROVE  Over(j)'
  BY DEF Over

\* One load goes on: its start beyond the wait, or its teardown up to its last step.
LEMMA GoesOn ==
    ASSUME LifeInv, NEW i \in Load, NEW l \in Life, life' = [life EXCEPT ![i] = l],
           life[i].loaded, l.loaded, l.unloading = life[i].unloading,
           l.waits = life[i].waits, StagesFit(l),
           \/ l.init = life[i].init
           \/ life[i].init \in PendingStages \ {"waits"} /\ l.init \notin {"idle", "waits"},
           \/ l.teardown = life[i].teardown
           \/ life[i].teardown # "done" /\ l.teardown # "done",
           UNCHANGED <<layoutReady, tracked>>, care' \in [Load -> Care],
           db' \in [open : SUBSET Load, backlog : Int, expired : Int, free : Int],
           db'.open \subseteq db.open \cup {i}, i \in db'.open => MayHold(l)
    PROVE  LifeInv'
<1>1. /\ life \in [Load -> Life] /\ life'[i] = l /\ life' \in [Load -> Life]
      /\ \A k \in Load : k # i => life'[k] = life[k]
      /\ l.init = "idle" <=> life[i].init = "idle"
      /\ l.init = "waits" <=> life[i].init = "waits"
      /\ \A k \in Load : /\ life'[k].loaded = life[k].loaded
                         /\ life'[k].unloading = life[k].unloading
                         /\ life'[k].waits = life[k].waits
                         /\ life'[k].init = "idle" <=> life[k].init = "idle"
                         /\ life'[k].init = "waits" <=> life[k].init = "waits"
  BY DEF LifeInv, Shapes, PendingStages, Life
<1>2. Shapes'
  BY <1>1 DEF LifeInv, Shapes
<1>3. \A k \in Load : StagesFit(life'[k])
  BY <1>1 DEF LifeInv
<1>4. \A k \in Load : Over(k) => Over(k)'
  BY <1>1 DEF Over
<1>5. InTurn'
  BY <1>1 DEF LifeInv, InTurn
<1>6. WaitsForOthers'
  BY <1>1, <1>4 DEF LifeInv, WaitsForOthers
<1>7. TracksTheLast'
  BY <1>1, <1>2, <1>4 DEF LifeInv, TracksTheLast, Shapes, Load
<1>8. OpenFits'
  BY <1>1 DEF LifeInv, OpenFits, Shapes
<1> QED BY <1>2, <1>3, <1>5, <1>6, <1>7, <1>8 DEF LifeInv

\* The plugin is loaded.
LEMMA Loading ==
    ASSUME LifeInv, NEW i \in Load, Onload(i)
    PROVE  LifeInv'
<1> DEFINE l == [life[i] EXCEPT !.loaded = TRUE]
           m == IF layoutReady THEN StartRuntimeInitialization(l) ELSE l
<1>1. /\ ~life[i].loaded /\ (i > 1 => life[i - 1].unloading)
      /\ life' = [life EXCEPT ![i] = m]
      /\ UNCHANGED <<layoutReady, tracked, care, db>>
  BY DEF Onload
<1>2. /\ life \in [Load -> Life] /\ life[i] \in Life /\ tracked \in 0..Loads
      /\ life[i].init = "idle" /\ ~life[i].unloading /\ life[i].teardown = "none"
  BY <1>1 DEF LifeInv, Shapes, StagesFit, Life
<1>3. /\ m \in Life /\ m.loaded /\ ~m.unloading /\ m.teardown = "none"
      /\ m.init = (IF layoutReady THEN "waits" ELSE "idle")
      /\ layoutReady => m.waits = tracked
  BY <1>2 DEF StartRuntimeInitialization, Life, InitStages
<1> HIDE DEF l, m
<1>4. /\ life' \in [Load -> Life] /\ life'[i] = m
      /\ \A k \in Load : k # i => life'[k] = life[k]
  BY <1>1, <1>2, <1>3
<1>5. /\ \A j \in Load : j < i => life[j].unloading /\ life[j].loaded
      /\ \A k \in Load : i < k => ~life[k].loaded /\ ~life[k].unloading /\ life[k].init = "idle"
  <2>1. ASSUME NEW j \in Load, j < i PROVE life[j].unloading
    <3>1. i - 1 \in Load /\ life[i - 1].unloading /\ life[i - 1].loaded
      <4>1. i - 1 \in Load /\ i > 1
        BY <2>1, PluginAssumption DEF Load
      <4> QED BY <4>1, <1>1 DEF LifeInv, StagesFit
    <3>2. CASE j = i - 1
      BY <3>1, <3>2
    <3>3. CASE j # i - 1
      BY <2>1, <3>1, <3>3 DEF Load, LifeInv, InTurn
    <3> QED BY <3>2, <3>3
  <2> QED BY <2>1, <1>1, <1>2 DEF LifeInv, InTurn, StagesFit
<1>6. Shapes'
  BY <1>1, <1>4 DEF LifeInv, Shapes
<1>7. \A k \in Load : StagesFit(life'[k])
  <2>1. StagesFit(m)
    BY <1>3 DEF StagesFit, PendingStages
  <2> QED BY <1>4, <2>1 DEF LifeInv
<1>8. \A k \in Load : Over(k) => Over(k)'
  BY <1>2, <1>4 DEF Over
<1>9. InTurn'
  <2>1. \A k, j \in Load : j < k /\ life'[k].loaded => life'[j].unloading
    BY <1>4, <1>5 DEF LifeInv, InTurn, Load
  <2>2. ~layoutReady => \A k \in Load : life'[k].init = "idle"
    BY <1>3, <1>4 DEF LifeInv, InTurn
  <2>3. \A k \in Load : layoutReady /\ life'[k].loaded /\ life'[k].init = "idle" => life'[k].unloading
    BY <1>3, <1>4 DEF LifeInv, InTurn
  <2>4. \A k, j \in Load : j < k /\ life'[k].loaded /\ life'[k].init = "idle" => life'[j].init = "idle"
    BY <1>3, <1>4, <1>5, <2>2 DEF LifeInv, InTurn, Load
  <2> QED BY <1>1, <2>1, <2>2, <2>3, <2>4 DEF InTurn
<1>10. WaitsForOthers'
  <2>1. tracked \in {0, i - 1}
    <3>1. CASE tracked = 0
      BY <3>1
    <3>2. CASE tracked # 0
      <4>1. tracked \in Load /\ life[tracked].unloading
              /\ \A k \in Load : k > tracked => ~life[k].unloading
        BY <3>2, <1>2 DEF LifeInv, TracksTheLast, Load
      <4>2. tracked < i
        BY <4>1, <1>2, <1>5 DEF Load
      <4>3. i - 1 \in Load /\ ~(i - 1 > tracked)
        <5>1. i - 1 \in Load /\ i - 1 < i
          BY <4>1, <4>2, PluginAssumption DEF Load
        <5> QED BY <4>1, <5>1, <1>5
      <4> QED BY <4>1, <4>2, <4>3 DEF Load
    <3> QED BY <3>1, <3>2
  <2>2. \A j \in Load : j < i /\ tracked = 0 => Over(j)
    BY <1>5 DEF LifeInv, TracksTheLast
  <2> QED BY <1>3, <1>4, <1>5, <1>8, <2>1, <2>2 DEF LifeInv, WaitsForOthers
<1>11. TracksTheLast'
  BY <1>1, <1>2, <1>3, <1>4, <1>8 DEF LifeInv, TracksTheLast, Load
<1>12. OpenFits'
  BY <1>1, <1>2, <1>4 DEF LifeInv, OpenFits, MayHold, Shapes
<1> QED BY <1>6, <1>7, <1>9, <1>10, <1>11, <1>12 DEF LifeInv

\* The workspace is ready: the load that has not been unloaded starts.
LEMMA Starting ==
    ASSUME LifeInv, LayoutReady
    PROVE  LifeInv'
<1>1. /\ ~layoutReady /\ layoutReady' = TRUE
      /\ life' = [i \in Load |-> IF life[i].loaded THEN StartRuntimeInitialization(life[i])
                                 ELSE life[i]]
      /\ UNCHANGED <<tracked, care, db>>
  BY DEF LayoutReady
<1>2. life \in [Load -> Life] /\ tracked \in 0..Loads /\ \A i \in Load : life[i].init = "idle"
  BY <1>1 DEF LifeInv, Shapes, InTurn
<1>3. \A i \in Load :
        /\ life'[i] \in Life /\ life'[i].loaded = life[i].loaded
        /\ life'[i].unloading = life[i].unloading /\ life'[i].teardown = life[i].teardown
        /\ IF life[i].loaded /\ ~life[i].unloading
           THEN life'[i].init = "waits" /\ life'[i].waits = tracked
           ELSE life'[i].init = "idle"
  <2> TAKE i \in Load
  <2>1. life[i] \in Life /\ life'[i] = IF life[i].loaded /\ ~life[i].unloading
                         THEN [life[i] EXCEPT !.init = "waits", !.waits = tracked] ELSE life[i]
    BY <1>1, <1>2 DEF StartRuntimeInitialization
  <2>2. CASE life[i].loaded /\ ~life[i].unloading
    <3> DEFINE l == [life[i] EXCEPT !.init = "waits", !.waits = tracked]
    <3>1. /\ l \in Life /\ l.loaded = life[i].loaded /\ l.unloading = life[i].unloading
          /\ l.teardown = life[i].teardown /\ l.init = "waits" /\ l.waits = tracked
      BY <1>2, <2>1 DEF Life, InitStages
    <3>2. life'[i] = l
      BY <2>1, <2>2
    <3> HIDE DEF l
    <3> QED BY <2>2, <3>1, <3>2
  <2>3. CASE ~(life[i].loaded /\ ~life[i].unloading)
    BY <1>2, <2>1, <2>3
  <2> QED BY <2>2, <2>3
<1>4. Shapes'
  BY <1>1, <1>2, <1>3 DEF LifeInv, Shapes
<1>5. \A i \in Load : StagesFit(life'[i])
  BY <1>2, <1>3 DEF LifeInv, StagesFit, PendingStages, InitStages
<1>6. \A i \in Load : (Over(i) => Over(i)') /\ (life[i].unloading => life[i].loaded)
  BY <1>3 DEF Over, LifeInv, StagesFit
<1>7. InTurn'
  BY <1>1, <1>3, <1>6 DEF LifeInv, InTurn
<1>8. WaitsForOthers'
  <2>1. ASSUME NEW i \in Load, life'[i].init = "waits" PROVE life'[i].waits \in {0, i - 1}
    <3>1. /\ life[i].loaded /\ ~life[i].unloading /\ life'[i].waits = tracked
          /\ \A j \in Load : j < i => life[j].unloading
          /\ \A k \in Load : i < k => ~life[k].unloading
      BY <2>1, <1>3, <1>6 DEF LifeInv, InTurn
    <3>2. ASSUME tracked # 0 PROVE tracked = i - 1
      <4>1. tracked \in Load /\ life[tracked].unloading
              /\ \A k \in Load : k > tracked => ~life[k].unloading
        BY <3>2, <1>2 DEF LifeInv, TracksTheLast, Load
      <4>2. tracked < i
        BY <4>1, <3>1 DEF Load
      <4>3. i - 1 \in Load /\ ~(i - 1 > tracked)
        <5>1. i - 1 \in Load /\ i - 1 < i
          BY <4>1, <4>2, PluginAssumption DEF Load
        <5> QED BY <4>1, <5>1, <3>1
      <4> QED BY <4>1, <4>2, <4>3 DEF Load
    <3> QED BY <3>1, <3>2
  <2>2. ASSUME NEW i \in Load, NEW j \in Load, j < i, life'[i].init = "waits", life'[i].waits = 0
        PROVE  Over(j)'
    BY <2>2, <1>3, <1>6 DEF LifeInv, InTurn, TracksTheLast
  <2>3. \A i \in Load : life'[i].init \in {"idle", "waits"}
    BY <1>3
  <2> QED BY <2>1, <2>2, <2>3 DEF WaitsForOthers
<1>9. TracksTheLast'
  BY <1>1, <1>2, <1>3, <1>6 DEF LifeInv, TracksTheLast, Load
<1>10. OpenFits'
  BY <1>1, <1>2 DEF LifeInv, OpenFits, MayHold, Shapes
<1> QED BY <1>4, <1>5, <1>7, <1>8, <1>9, <1>10 DEF LifeInv

\* The wait for the last teardown ends: with it all earlier loads are over.
LEMMA WaitEnds ==
    ASSUME LifeInv, NEW i \in Load, WaitForPreviousTeardown(i)
    PROVE  LifeInv'
<1> DEFINE w == life[i].waits
           l == [life[i] EXCEPT !.init = IF life[i].unloading THEN "left" ELSE "settings"]
<1>1. /\ life[i].init = "waits" /\ TeardownWaited(i) /\ life' = [life EXCEPT ![i] = l]
      /\ tracked' = (IF tracked = w THEN 0 ELSE tracked)
      /\ UNCHANGED <<layoutReady, care, db>>
  BY DEF WaitForPreviousTeardown, LifeInv, Shapes
<1>2. life \in [Load -> Life] /\ life[i] \in Life /\ tracked \in 0..Loads
  BY DEF LifeInv, Shapes
<1>3. /\ l \in Life /\ l.init \in {"left", "settings"}
      /\ l.loaded = life[i].loaded
      /\ l.unloading = life[i].unloading /\ l.teardown = life[i].teardown
      /\ l.init = "settings" => ~life[i].unloading
  BY <1>2 DEF Life, InitStages
<1> HIDE DEF l
<1>4. /\ life' \in [Load -> Life] /\ life'[i] = l
      /\ \A k \in Load : k # i => life'[k] = life[k]
      /\ \A k \in Load : (Over(k) => Over(k)') /\ life'[k].unloading = life[k].unloading
                         /\ life'[k].loaded = life[k].loaded
  BY <1>1, <1>2, <1>3 DEF Over
<1>5. ASSUME w # 0 PROVE /\ w \in Load /\ w = i - 1 /\ Over(w)
                         /\ \A j \in Load : j < w => Over(j)
  <2>1. w \in Load /\ w < i
    <3>1. w \in Load
      BY <1>2, <1>5 DEF Load, Life
    <3>2. w = i - 1
      BY <1>1, <1>5 DEF LifeInv, WaitsForOthers
    <3> QED BY <3>1, <3>2 DEF Load
  <2>2. w = i - 1 /\ life[w].teardown = "done"
    BY <1>1, <1>5, <2>1 DEF LifeInv, WaitsForOthers, TeardownWaited
  <2>3. life[w].unloading /\ life[w].loaded /\ life[w].init \notin PendingStages
    BY <2>1, <2>2 DEF LifeInv, StagesFit
  <2>4. \A j \in Load : j < w => Over(j)
    <3>1. CASE life[w].init = "idle"
      BY <2>1, <2>3, <3>1 DEF LifeInv, InTurn, Over
    <3>2. CASE life[w].init # "idle"
      <4>1. life[w].init \notin {"idle", "waits"}
        BY <1>2, <2>1, <2>3, <3>2 DEF PendingStages, InitStages
      <4> QED BY <2>1, <4>1 DEF LifeInv, WaitsForOthers
    <3> QED BY <3>1, <3>2
  <2> QED BY <2>1, <2>2, <2>4 DEF Over
<1>6. \A j \in Load : j < i => Over(j)
  <2>1. CASE w = 0
    BY <1>1, <2>1 DEF LifeInv, WaitsForOthers
  <2>2. CASE w # 0
    BY <1>5, <2>2, PluginAssumption DEF Load
  <2> QED BY <2>1, <2>2
<1>7. Shapes'
  <2>1. tracked' \in 0..Loads
    BY <1>1, <1>2, PluginAssumption
  <2> QED BY <1>1, <1>4, <2>1 DEF LifeInv, Shapes
<1>8. \A k \in Load : StagesFit(life'[k])
  <2>1. StagesFit(l)
    BY <1>1, <1>3 DEF LifeInv, StagesFit, PendingStages, InitStages
  <2> QED BY <1>4, <2>1 DEF LifeInv
<1>9. InTurn'
  <2>1. \A k \in Load : life'[k].init = "idle" <=> life[k].init = "idle"
    BY <1>1, <1>3, <1>4
  <2> QED BY <1>1, <1>4, <2>1 DEF LifeInv, InTurn
<1>10. WaitsForOthers'
  BY <1>3, <1>4, <1>6 DEF LifeInv, WaitsForOthers
<1>11. TracksTheLast'
  <2>1. CASE tracked' = tracked
    <3>1. tracked # 0 => tracked \in Load
      BY <1>2 DEF Load
    <3> QED BY <1>4, <2>1, <3>1 DEF LifeInv, TracksTheLast
  <2>2. CASE tracked = w /\ w # 0
    <3>1. w \in Load /\ Over(w) /\ \A j \in Load : j < w => Over(j)
      BY <1>5, <2>2
    <3>2. \A j \in Load : life[j].unloading => j < w \/ j = w
      BY <2>2, <3>1 DEF LifeInv, TracksTheLast, Load
    <3>3. \A j \in Load : life'[j].unloading => Over(j)'
      BY <1>4, <3>1, <3>2
    <3> QED BY <1>1, <2>2, <3>3 DEF TracksTheLast
  <2> QED BY <1>1, <2>1, <2>2
<1>12. OpenFits'
  BY <1>1, <1>2, <1>4 DEF LifeInv, OpenFits, MayHold, Shapes
<1> QED BY <1>7, <1>8, <1>9, <1>10, <1>11, <1>12 DEF LifeInv

\* A load is unloaded, and its teardown is the one to wait for.
LEMMA Unloading ==
    ASSUME LifeInv, NEW i \in Load, Onunload(i)
    PROVE  LifeInv'
<1> DEFINE l == [life[i] EXCEPT !.unloading = TRUE, !.teardown = "waits"]
<1>1. /\ life[i].loaded /\ ~life[i].unloading
      /\ life' = [life EXCEPT ![i] = l] /\ tracked' = i
      /\ UNCHANGED <<layoutReady, care, db>>
  BY DEF Onunload, LifeInv, Shapes
<1>2. life \in [Load -> Life] /\ life[i] \in Life /\ i \in 0..Loads /\ i # 0
  BY DEF LifeInv, Shapes, Load
<1>3. /\ l \in Life /\ l.init = life[i].init /\ l.loaded /\ l.waits = life[i].waits
      /\ l.unloading /\ l.teardown = "waits" /\ l.store = life[i].store
      /\ life[i].teardown = "none"
  BY <1>1, <1>2 DEF Life, Teardowns, LifeInv, StagesFit
<1> HIDE DEF l
<1>4. /\ life' \in [Load -> Life] /\ life'[i] = l
      /\ \A k \in Load : k # i => life'[k] = life[k]
      /\ \A k \in Load : (Over(k) => Over(k)') /\ life'[k].waits = life[k].waits
                         /\ life'[k].loaded = life[k].loaded /\ life'[k].init = life[k].init
                         /\ (life[k].unloading => life'[k].unloading)
  BY <1>1, <1>2, <1>3 DEF Over
<1>5. Shapes'
  BY <1>1, <1>2, <1>4 DEF LifeInv, Shapes
<1>6. \A k \in Load : StagesFit(life'[k])
  <2>1. StagesFit(l)
    BY <1>3 DEF LifeInv, StagesFit
  <2> QED BY <1>4, <2>1 DEF LifeInv
<1>7. InTurn'
  BY <1>1, <1>4 DEF LifeInv, InTurn
<1>8. WaitsForOthers'
  BY <1>4 DEF LifeInv, WaitsForOthers
<1>9. TracksTheLast'
  <2>1. \A k \in Load : k > i => ~life[k].unloading
    BY <1>1 DEF LifeInv, InTurn, StagesFit, Load
  <2> QED BY <1>1, <1>2, <1>3, <1>4, <2>1 DEF TracksTheLast
<1>10. OpenFits'
  BY <1>1, <1>3, <1>4 DEF LifeInv, OpenFits, MayHold, Shapes
<1> QED BY <1>5, <1>6, <1>7, <1>8, <1>9, <1>10 DEF LifeInv

\* A teardown ends, and with it the wait for it.
LEMMA TeardownDone ==
    ASSUME LifeInv, NEW i \in Load, TeardownEnds(i)
    PROVE  LifeInv'
<1> DEFINE l == [life[i] EXCEPT !.teardown = "done", !.store = FALSE]
<1>1. /\ life[i].teardown = "settles" /\ life' = [life EXCEPT ![i] = l]
      /\ tracked' = (IF tracked = i THEN 0 ELSE tracked)
      /\ UNCHANGED <<layoutReady, care, db>>
  BY DEF TeardownEnds, LifeInv, Shapes
<1>2. life \in [Load -> Life] /\ life[i] \in Life /\ tracked \in 0..Loads
  BY DEF LifeInv, Shapes
<1>3. /\ l \in Life /\ l.init = life[i].init /\ l.loaded = life[i].loaded
      /\ l.waits = life[i].waits /\ l.unloading = life[i].unloading /\ l.teardown = "done"
      /\ life[i].unloading /\ life[i].loaded /\ life[i].init \notin PendingStages
  BY <1>1, <1>2 DEF Life, Teardowns, LifeInv, StagesFit
<1> HIDE DEF l
<1>4. /\ life' \in [Load -> Life] /\ life'[i] = l
      /\ \A k \in Load : k # i => life'[k] = life[k]
      /\ \A k \in Load : (Over(k) => Over(k)') /\ life'[k].waits = life[k].waits
                         /\ life'[k].loaded = life[k].loaded /\ life'[k].init = life[k].init
                         /\ life[k].unloading = life'[k].unloading
      /\ Over(i)'
  BY <1>1, <1>2, <1>3 DEF Over
<1>5. Shapes'
  <2>1. tracked' \in 0..Loads
    BY <1>1, <1>2, PluginAssumption
  <2> QED BY <1>1, <1>4, <2>1 DEF LifeInv, Shapes
<1>6. \A k \in Load : StagesFit(life'[k])
  <2>1. StagesFit(l)
    BY <1>3 DEF LifeInv, StagesFit
  <2> QED BY <1>4, <2>1 DEF LifeInv
<1>7. InTurn'
  BY <1>1, <1>4 DEF LifeInv, InTurn
<1>8. WaitsForOthers'
  BY <1>4 DEF LifeInv, WaitsForOthers
<1>9. \A j \in Load : j < i => Over(j)
  <2>1. CASE life[i].init = "idle"
    BY <1>3, <2>1 DEF LifeInv, InTurn, Over
  <2>2. CASE life[i].init # "idle"
    <3>1. life[i].init \notin {"idle", "waits"}
      BY <1>2, <1>3, <2>2 DEF PendingStages, InitStages
    <3> QED BY <3>1 DEF LifeInv, WaitsForOthers
  <2> QED BY <2>1, <2>2
<1>10. TracksTheLast'
  <2>1. CASE tracked # i
    <3>1. tracked # 0 => tracked \in Load
      BY <1>2 DEF Load
    <3> QED BY <1>1, <1>4, <2>1, <3>1 DEF LifeInv, TracksTheLast
  <2>2. CASE tracked = i
    <3>1. \A j \in Load : life[j].unloading => j < i \/ j = i
      BY <2>2 DEF LifeInv, TracksTheLast, Load
    <3>2. \A j \in Load : life'[j].unloading => Over(j)'
      BY <1>4, <1>9, <3>1
    <3> QED BY <1>1, <2>2, <3>2 DEF TracksTheLast
  <2> QED BY <2>1, <2>2
<1>11. OpenFits'
  <2>1. i \notin db.open
    BY <1>1 DEF LifeInv, OpenFits, MayHold
  <2> QED BY <1>1, <1>4, <2>1 DEF LifeInv, OpenFits, Shapes
<1> QED BY <1>5, <1>6, <1>7, <1>8, <1>10, <1>11 DEF LifeInv

\* The other steps of the start.
LEMMA StartGoesOn ==
    ASSUME LifeInv, NEW i \in Load,
           LoadSettings(i) \/ OpenFails(i) \/ RetryOpen(i) \/ CloseLate(i)
    PROVE  LifeInv' /\ care' = care
<1>1. /\ life[i] \in Life /\ StagesFit(life[i]) /\ care \in [Load -> Care]
      /\ db \in [open : SUBSET Load, backlog : Int, expired : Int, free : Int]
      /\ i \in db.open => MayHold(life[i])
  BY DEF LifeInv, Shapes, OpenFits
<1>2. UNCHANGED <<layoutReady, tracked, care>>
  BY DEF LoadSettings, OpenFails, RetryOpen, CloseLate
<1>3. CASE LoadSettings(i)
  <2> DEFINE l == [life[i] EXCEPT !.init = IF life[i].unloading THEN "left" ELSE "opening",
                                  !.attempt = 1]
  <2>1. life[i].init = "settings" /\ life' = [life EXCEPT ![i] = l] /\ db' = db
    BY <1>3 DEF LoadSettings, LifeInv, Shapes
  <2>2. /\ l \in Life /\ l.init \in {"left", "opening"} /\ l.loaded = life[i].loaded
        /\ l.unloading = life[i].unloading /\ l.waits = life[i].waits
        /\ l.teardown = life[i].teardown
        /\ l.init = "opening" => ~life[i].unloading
    <3> DEFINE stage == IF life[i].unloading THEN "left" ELSE "opening"
               first == 1
    <3>1. /\ stage \in InitStages /\ stage \in {"left", "opening"} /\ first \in Int
          /\ stage = "opening" => ~life[i].unloading
      BY DEF InitStages
    <3> HIDE DEF stage, first
    <3>2. l = [life[i] EXCEPT !.init = stage, !.attempt = first]
      BY DEF stage, first
    <3> HIDE DEF l
    <3>3. l \in Life /\ l.init = stage
      BY <1>1, <3>1, <3>2 DEF Life
    <3>4. /\ l.loaded = life[i].loaded /\ l.unloading = life[i].unloading
          /\ l.waits = life[i].waits /\ l.teardown = life[i].teardown
      BY <1>1, <3>2 DEF Life
    <3> QED BY <3>1, <3>3, <3>4
  <2> HIDE DEF l
  <2>3. life[i].loaded /\ StagesFit(l) /\ i \notin db.open
    BY <1>1, <2>1, <2>2 DEF StagesFit, MayHold, PendingStages, InitStages
  <2> QED BY <1>1, <1>2, <2>1, <2>2, <2>3, GoesOn DEF PendingStages, InitStages
<1>4. CASE OpenFails(i)
  <2> DEFINE l == AfterFailure(life[i])
  <2>1. life[i].init \in {"opening", "fallback"} /\ life' = [life EXCEPT ![i] = l] /\ db' = db
    BY <1>4 DEF OpenFails, LifeInv, Shapes
  <2>2. /\ l \in Life /\ l.init \in {"opening", "retry", "fallback", "failed"}
        /\ l.loaded = life[i].loaded /\ l.unloading = life[i].unloading
        /\ l.waits = life[i].waits /\ l.teardown = life[i].teardown
    BY <1>1, <2>1 DEF AfterFailure, Life, InitStages
  <2> HIDE DEF l
  <2>3. life[i].loaded /\ StagesFit(l) /\ i \notin db.open
    BY <1>1, <2>1, <2>2 DEF StagesFit, MayHold, PendingStages, InitStages
  <2> QED BY <1>1, <1>2, <2>1, <2>2, <2>3, GoesOn DEF PendingStages, InitStages
<1>5. CASE RetryOpen(i)
  <2> DEFINE l == [life[i] EXCEPT !.init = "opening", !.attempt = @ + 1]
  <2>1. life[i].init = "retry" /\ life' = [life EXCEPT ![i] = l] /\ db' = db
    BY <1>5 DEF RetryOpen, LifeInv, Shapes
  <2>2. /\ l \in Life /\ l.init = "opening" /\ l.loaded = life[i].loaded
        /\ l.unloading = life[i].unloading /\ l.waits = life[i].waits
        /\ l.teardown = life[i].teardown
    <3> DEFINE n == life[i].attempt + 1
    <3>1. n \in Int
      BY <1>1 DEF Life
    <3> HIDE DEF n
    <3>2. l = [life[i] EXCEPT !.init = "opening", !.attempt = n]
      BY <1>1 DEF Life, n
    <3> QED BY <1>1, <3>1, <3>2 DEF Life, InitStages
  <2> HIDE DEF l
  <2>3. life[i].loaded /\ StagesFit(l) /\ i \notin db.open
    BY <1>1, <2>1, <2>2 DEF StagesFit, MayHold, PendingStages, InitStages
  <2> QED BY <1>1, <1>2, <2>1, <2>2, <2>3, GoesOn DEF PendingStages, InitStages
<1>6. CASE CloseLate(i)
  <2> DEFINE l == [life[i] EXCEPT !.init = "left"]
  <2>1. /\ life[i].init = "late" /\ life' = [life EXCEPT ![i] = l]
        /\ db' = [db EXCEPT !.open = @ \ {i}]
    BY <1>6 DEF CloseLate, LifeInv, Shapes
  <2>2. /\ l \in Life /\ l.init = "left" /\ l.loaded = life[i].loaded
        /\ l.unloading = life[i].unloading /\ l.waits = life[i].waits
        /\ l.teardown = life[i].teardown
    BY <1>1 DEF Life, InitStages
  <2> HIDE DEF l
  <2>3. life[i].loaded /\ StagesFit(l)
    BY <1>1, <2>1, <2>2 DEF StagesFit, PendingStages, InitStages
  <2>4. /\ db' \in [open : SUBSET Load, backlog : Int, expired : Int, free : Int]
        /\ i \notin db'.open /\ db'.open \subseteq db.open \cup {i}
    BY <1>1, <2>1
  <2> QED BY <1>1, <1>2, <2>1, <2>2, <2>3, <2>4, GoesOn DEF PendingStages, InitStages
<1> QED BY <1>3, <1>4, <1>5, <1>6

\* The steps of the teardown before the last.
LEMMA TeardownGoesOn ==
    ASSUME LifeInv, NEW i \in Load,
           TeardownBegins(i) \/ TeardownServerStopped(i) \/ TeardownStoreCloses(i)
    PROVE  LifeInv'
<1>1. /\ life[i] \in Life /\ StagesFit(life[i]) /\ care \in [Load -> Care]
      /\ db \in [open : SUBSET Load, backlog : Int, expired : Int, free : Int]
      /\ i \in db.open => MayHold(life[i])
  BY DEF LifeInv, Shapes, OpenFits
<1>2. CASE TeardownBegins(i)
  <2> DEFINE l == [life[i] EXCEPT !.teardown = "server"]
  <2>1. /\ life[i].teardown = "waits" /\ life[i].init \notin PendingStages
        /\ life' = [life EXCEPT ![i] = l] /\ UNCHANGED <<layoutReady, tracked, db>>
        /\ care' = [care EXCEPT ![i].timers = {}]
    BY <1>2 DEF TeardownBegins, InitializationOver, LifeInv, Shapes
  <2>2. /\ l \in Life /\ l.init = life[i].init /\ l.loaded = life[i].loaded
        /\ l.unloading = life[i].unloading /\ l.waits = life[i].waits
        /\ l.teardown = "server" /\ l.store = life[i].store
    BY <1>1 DEF Life, Teardowns
  <2> HIDE DEF l
  <2>3. life[i].loaded /\ StagesFit(l) /\ (i \in db.open => MayHold(l))
    BY <1>1, <2>1, <2>2 DEF StagesFit, MayHold
  <2>4. care' \in [Load -> Care]
    <3> DEFINE c == [care[i] EXCEPT !.timers = {}]
    <3>1. c \in Care
      <4>1. care[i] \in Care
        BY <1>1
      <4> QED BY <4>1 DEF Care
    <3>2. care' = [care EXCEPT ![i] = c]
      BY <2>1
    <3> HIDE DEF c
    <3> QED BY <1>1, <3>1, <3>2
  <2> QED BY <1>1, <2>1, <2>2, <2>3, <2>4, GoesOn
<1>3. CASE TeardownServerStopped(i)
  <2> DEFINE l == [life[i] EXCEPT !.teardown = IF life[i].store THEN "close" ELSE "settles"]
  <2>1. /\ life[i].teardown = "server"
        /\ life' = [life EXCEPT ![i] = l] /\ UNCHANGED <<layoutReady, tracked, db, care>>
    BY <1>3 DEF TeardownServerStopped, LifeInv, Shapes
  <2>2. /\ l \in Life /\ l.init = life[i].init /\ l.loaded = life[i].loaded
        /\ l.unloading = life[i].unloading /\ l.waits = life[i].waits
        /\ l.teardown = (IF life[i].store THEN "close" ELSE "settles")
        /\ l.store = life[i].store
    BY <1>1 DEF Life, Teardowns
  <2> HIDE DEF l
  <2>3. life[i].loaded /\ StagesFit(l) /\ (i \in db.open => MayHold(l))
    BY <1>1, <2>1, <2>2 DEF StagesFit, MayHold, PendingStages, InitStages
  <2> QED BY <1>1, <2>1, <2>2, <2>3, GoesOn
<1>4. CASE TeardownStoreCloses(i)
  <2> DEFINE l == [life[i] EXCEPT !.teardown = "settles"]
  <2>1. /\ life[i].teardown = "close" /\ life' = [life EXCEPT ![i] = l]
        /\ db' = [db EXCEPT !.open = @ \ {i}] /\ UNCHANGED <<layoutReady, tracked, care>>
    BY <1>4 DEF TeardownStoreCloses, LifeInv, Shapes
  <2>2. /\ l \in Life /\ l.init = life[i].init /\ l.loaded = life[i].loaded
        /\ l.unloading = life[i].unloading /\ l.waits = life[i].waits
        /\ l.teardown = "settles" /\ l.store = life[i].store
    BY <1>1 DEF Life, Teardowns
  <2> HIDE DEF l
  <2>3. life[i].loaded /\ StagesFit(l)
    BY <1>1, <2>1, <2>2 DEF StagesFit
  <2>4. /\ db' \in [open : SUBSET Load, backlog : Int, expired : Int, free : Int]
        /\ i \notin db'.open /\ db'.open \subseteq db.open \cup {i}
    BY <1>1, <2>1
  <2> QED BY <1>1, <2>1, <2>2, <2>3, <2>4, GoesOn
<1> QED BY <1>2, <1>3, <1>4

\* Where no load changes its stage and the store stays with who has it.
LEMMA LivesStay ==
    ASSUME LifeInv, UNCHANGED <<layoutReady, tracked, life>>, care' \in [Load -> Care],
           db' \in [open : SUBSET Load, backlog : Int, expired : Int, free : Int],
           db'.open = db.open
    PROVE  LifeInv'
<1>1. Shapes'
  BY DEF LifeInv, Shapes
<1>2. \A k \in Load : Over(k)' <=> Over(k)
  BY DEF Over
<1>3. InTurn' /\ (\A i \in Load : StagesFit(life'[i]))
  BY DEF LifeInv, InTurn
<1>4. WaitsForOthers'
  BY <1>2 DEF LifeInv, WaitsForOthers
<1>5. TracksTheLast'
  BY <1>2 DEF LifeInv, TracksTheLast
<1>6. OpenFits'
  BY DEF LifeInv, OpenFits
<1> QED BY <1>1, <1>3, <1>4, <1>5, <1>6 DEF LifeInv

-----------------------------------------------------------------------------
(* The timers and sweeps of one load.                                      *)

\* What the next call of PruneOldSamples and of ScheduleCompaction finds and leaves.
LEMMA Pruning ==
    ASSUME NEW l \in Life, NEW c \in Care, OneSweep(c)
    PROVE  LET d == PruneOldSamples(l, c)
           IN  d \in Care /\ OneSweep(d) /\ d.timers = c.timers /\ d.loop = c.loop
                 /\ d.guard = c.guard
  BY DEF PruneOldSamples, OneSweep, Care, Slots, PruneStages

\* Scheduling a compaction leaves a timer or a sweep that will start the next one.
LEMMA Scheduling ==
    ASSUME NEW l \in Life, NEW c \in Care, OneSweep(c), l.init = "ready",
           ~l.unloading => l.store,
           l.unloading \/ c.loop = "none" \/ "compaction" \notin c.timers
    PROVE  ScheduleCompaction(l, c) \in Care /\ CareFits(l, ScheduleCompaction(l, c))
<1> DEFINE d == ScheduleCompaction(l, c)
<1>1. \/ d = c /\ (l.unloading \/ "compaction" \in c.timers \/ c.loop # "none")
      \/ d = [c EXCEPT !.timers = @ \cup {"compaction"}] /\ c.loop = "none"
  BY DEF ScheduleCompaction, Life
<1>2. /\ d \in Care /\ d.loop = c.loop /\ d.prune = c.prune /\ d.pruning = c.pruning
      /\ d.timers = c.timers \/ d.timers = c.timers \cup {"compaction"}
      /\ ~l.unloading => ((d.loop # "none") # ("compaction" \in d.timers))
  <2>1. CASE d = c /\ (l.unloading \/ "compaction" \in c.timers \/ c.loop # "none")
    BY <2>1
  <2>2. CASE d = [c EXCEPT !.timers = @ \cup {"compaction"}] /\ c.loop = "none"
    BY <2>2 DEF Care, Timers
  <2> QED BY <1>1, <2>1, <2>2
<1> HIDE DEF d
<1> QED BY <1>2 DEF CareFits, OneSweep, d

\* So does forcing maintenance,
LEMMA Forcing ==
    ASSUME NEW l \in Life, NEW c \in Care, OneSweep(c), l.init = "ready",
           ~l.unloading => l.store
    PROVE  ForceMaintenance(l, c) \in Care /\ CareFits(l, ForceMaintenance(l, c))
<1> DEFINE d == PruneOldSamples(l, c)
           e == [d EXCEPT !.timers = @ \ {"compaction"}]
<1>1. d \in Care /\ OneSweep(d)
  BY Pruning
<1> HIDE DEF d
<1>2. e \in Care /\ OneSweep(e) /\ "compaction" \notin e.timers
  BY <1>1 DEF Care, OneSweep
<1> HIDE DEF e
<1>3. ScheduleCompaction(l, e) \in Care /\ CareFits(l, ScheduleCompaction(l, e))
  BY <1>2, Scheduling
<1> QED BY <1>3 DEF ForceMaintenance, d, e

\* the end of a sweep, failed or not,
LEMMA Settling ==
    ASSUME NEW l \in Life, NEW c \in Care, OneSweep(c), l.init = "ready",
           ~l.unloading => l.store, NEW failed
    PROVE  SettleCompaction(l, c, failed) \in Care /\ CareFits(l, SettleCompaction(l, c, failed))
<1> DEFINE d == [c EXCEPT !.loop = "none"]
<1>1. d \in Care /\ OneSweep(d) /\ d.loop = "none"
  BY DEF Care, OneSweep, Loops
<1> HIDE DEF d
<1>2. ScheduleCompaction(l, d) \in Care /\ CareFits(l, ScheduleCompaction(l, d))
  BY <1>1, Scheduling
<1> QED BY <1>2 DEF SettleCompaction, d

\* and new settings, which restart the timers.
LEMMA Restarting ==
    ASSUME NEW l \in Life, NEW c \in Care, OneSweep(c), l.init = "ready",
           ~l.unloading => l.store
    PROVE  /\ RestartMaintenanceTimers(l, c) \in Care
           /\ CareFits(l, RestartMaintenanceTimers(l, c))
<1> DEFINE d == [c EXCEPT !.timers = Timers \ {"compaction"}]
<1>1. d \in Care /\ OneSweep(d) /\ "compaction" \notin d.timers
  BY DEF Care, OneSweep
<1> HIDE DEF d
<1>2. ScheduleCompaction(l, d) \in Care /\ CareFits(l, ScheduleCompaction(l, d))
  BY <1>1, Scheduling
<1> QED BY <1>2 DEF RestartMaintenanceTimers, d

\* The pacing computes a number.
LEMMA Pacing ==
    ASSUME NEW n \in Int, NEW d \in Durations
    PROVE  NextLimit(n, d) \in Int
<1>1. d \in Nat \ {0} /\ Target \in Nat /\ MinPoints \in Int /\ MaxPoints \in Int
  BY PluginAssumption
<1>2. (5 * n + 3) \div 4 \in Int
  OBVIOUS
<1>3. (n * Target * 4) \div (d * 5) \in Int
  <2>1. n * Target * 4 \in Int /\ d * 5 \in Nat \ {0}
    BY <1>1
  <2> QED BY <2>1
<1>4. ASSUME NEW x \in Int, NEW y \in Int PROVE Lower(x, y) \in Int /\ Upper(x, y) \in Int
  BY DEF Lower, Upper
<1>5. Upper(MinPoints, Lower(n - 1, (n * Target * 4) \div (d * 5))) \in Int
  <2> DEFINE q == (n * Target * 4) \div (d * 5)
  <2>1. q \in Int
    BY <1>3
  <2> HIDE DEF q
  <2>2. Upper(MinPoints, Lower(n - 1, q)) \in Int
    BY <1>1, <1>4, <2>1
  <2> QED BY <2>2 DEF q
<1>6. Lower(MaxPoints, Upper(n + 1, (5 * n + 3) \div 4)) \in Int
  BY <1>1, <1>2, <1>4
<1>7. 2 * d < Target => ~(4 * d > 5 * Target)
  BY <1>1
<1>8. CASE 4 * d > 5 * Target
  <2>1. NextLimit(n, d) = Upper(MinPoints, Lower(n - 1, (n * Target * 4) \div (d * 5)))
    BY <1>7, <1>8, Zenon DEF NextLimit
  <2> QED BY <1>5, <2>1
<1>9. CASE ~(4 * d > 5 * Target) /\ 2 * d < Target
  <2>1. NextLimit(n, d) = Lower(MaxPoints, Upper(n + 1, (5 * n + 3) \div 4))
    BY <1>9, Zenon DEF NextLimit
  <2> QED BY <1>6, <2>1
<1>10. CASE ~(4 * d > 5 * Target) /\ ~(2 * d < Target)
  <2>1. NextLimit(n, d) = n
    BY <1>10, Zenon DEF NextLimit
  <2> QED BY <2>1
<1> QED BY <1>8, <1>9, <1>10

\* A load with a timer, a sweep or a guard is ready, and has its store unless it unloads.
LEMMA AtWork ==
    ASSUME IInv, NEW i \in Load
    PROVE  /\ life[i] \in Life /\ care[i] \in Care /\ OneSweep(care[i])
           /\ \/ care[i].timers # {} \/ care[i].loop # "none" \/ care[i].guard
              \/ \E s \in Slots : care[i].prune[s] # "none"
              => life[i].init = "ready"
           /\ life[i].init = "ready" /\ ~life[i].unloading =>
                /\ life[i].store
                /\ (care[i].loop # "none") # ("compaction" \in care[i].timers)
  BY DEF IInv, LifeInv, Shapes, StagesFit, CareInv, CareFits

\* The care of one load changes, and nothing of the loads.
LEMMA OneCares ==
    ASSUME IInv, NEW i \in Load, NEW c \in Care, CareFits(life[i], c),
           care' = [care EXCEPT ![i] = c], UNCHANGED <<layoutReady, tracked, life>>,
           db' \in [open : SUBSET Load, backlog : Int, expired : Int, free : Int],
           db'.open = db.open
    PROVE  IInv'
<1>1. care \in [Load -> Care] /\ care' \in [Load -> Care]
  BY DEF IInv, LifeInv, Shapes
<1>2. LifeInv'
  BY <1>1, LivesStay DEF IInv
<1>3. CareInv'
  BY <1>1 DEF IInv, CareInv
<1> QED BY <1>2, <1>3 DEF IInv

\* The loads change, but none becomes ready and none returns from its unloading.
LEMMA CareStays ==
    ASSUME CareInv, care' = care,
           \A k \in Load : /\ life'[k].init = "ready" <=> life[k].init = "ready"
                           /\ life[k].unloading => life'[k].unloading
    PROVE  CareInv'
  BY DEF CareInv, CareFits

\* The store is open, or the server has been started: the load is ready, with its timers.
LEMMA BecomesReady ==
    ASSUME IInv, NEW i \in Load, OpenSucceeds(i) \/ ServerStarted(i)
    PROVE  IInv'
<1>1. /\ life \in [Load -> Life] /\ life[i] \in Life /\ care \in [Load -> Care]
      /\ care[i] \in Care /\ OneSweep(care[i]) /\ StagesFit(life[i])
      /\ db \in [open : SUBSET Load, backlog : Int, expired : Int, free : Int]
      /\ i \in db.open => MayHold(life[i])
  BY DEF IInv, LifeInv, Shapes, CareInv, CareFits, OpenFits
<1>2. UNCHANGED <<layoutReady, tracked>> /\ life[i].init \in {"opening", "fallback", "serving"}
  BY DEF OpenSucceeds, ServerStarted
<1>3. /\ life[i].loaded /\ life[i].teardown \in {"none", "waits"} /\ life[i].init # "ready"
      /\ life[i].teardown = "none" <=> ~life[i].unloading
      /\ life[i].init \in PendingStages \ {"waits"}
  BY <1>1, <1>2 DEF StagesFit, PendingStages, InitStages
<1>4. ASSUME NEW l \in Life, NEW c \in Care, life' = [life EXCEPT ![i] = l],
             care' = [care EXCEPT ![i] = c], CareFits(l, c), l.loaded,
             l.unloading = life[i].unloading, l.waits = life[i].waits,
             l.teardown = life[i].teardown, StagesFit(l), l.init \notin {"idle", "waits"},
             db' \in [open : SUBSET Load, backlog : Int, expired : Int, free : Int],
             db'.open \subseteq db.open \cup {i}, i \in db'.open => MayHold(l)
      PROVE  IInv'
  <2>1. care' \in [Load -> Care]
    BY <1>1, <1>4
  <2>2. LifeInv'
    BY <1>2, <1>3, <1>4, <2>1, GoesOn DEF IInv
  <2>3. CareInv'
    BY <1>1, <1>4 DEF IInv, CareInv
  <2> QED BY <2>2, <2>3 DEF IInv
<1>5. ASSUME NEW l \in Life, CareFits(life[i], care[i]), l.init # "ready" PROVE CareFits(l, care[i])
  BY <1>3, <1>5 DEF CareFits
<1>6. CareFits(life[i], care[i]) /\ care = [care EXCEPT ![i] = care[i]]
  BY <1>1 DEF IInv, CareInv
<1>7. CASE OpenSucceeds(i)
  <2> DEFINE adopted == [life[i] EXCEPT !.store = TRUE]
  <2>1. db' = [db EXCEPT !.open = @ \cup {i}]
    BY <1>7 DEF OpenSucceeds
  <2>2. /\ db' \in [open : SUBSET Load, backlog : Int, expired : Int, free : Int]
        /\ db'.open = db.open \cup {i}
    BY <1>1, <2>1
  <2>3. CASE life[i].unloading /\ life' = [life EXCEPT ![i].init = "late"] /\ care' = care
    <3> DEFINE l == [life[i] EXCEPT !.init = "late"]
    <3>1. /\ l \in Life /\ l.init = "late" /\ l.loaded = life[i].loaded
          /\ l.unloading = life[i].unloading /\ l.waits = life[i].waits
          /\ l.teardown = life[i].teardown /\ life' = [life EXCEPT ![i] = l]
      BY <1>1, <2>3 DEF Life, InitStages
    <3> HIDE DEF l
    <3>2. StagesFit(l) /\ MayHold(l)
      BY <1>3, <3>1 DEF StagesFit, MayHold
    <3> QED BY <1>1, <1>3, <1>4, <1>5, <1>6, <2>2, <2>3, <3>1, <3>2
  <2>4. CASE /\ ~life[i].unloading /\ care' = care
             /\ life' = [life EXCEPT ![i] = [adopted EXCEPT !.init = "serving"]]
    <3> DEFINE l == [adopted EXCEPT !.init = "serving"]
    <3>1. /\ l \in Life /\ l.init = "serving" /\ l.loaded = life[i].loaded /\ l.store
          /\ l.unloading = life[i].unloading /\ l.waits = life[i].waits
          /\ l.teardown = life[i].teardown /\ life' = [life EXCEPT ![i] = l]
      BY <1>1, <2>4 DEF Life, InitStages
    <3> HIDE DEF l
    <3>2. StagesFit(l) /\ MayHold(l)
      BY <1>3, <3>1 DEF StagesFit, MayHold
    <3> QED BY <1>1, <1>3, <1>4, <1>5, <1>6, <2>2, <2>4, <3>1, <3>2
  <2>5. CASE /\ ~life[i].unloading
             /\ life' = [life EXCEPT ![i] = [adopted EXCEPT !.init = "ready"]]
             /\ care' = [care EXCEPT ![i] = RestartMaintenanceTimers(adopted, @)]
    <3> DEFINE l == [adopted EXCEPT !.init = "ready"]
    <3>1. /\ l \in Life /\ l.init = "ready" /\ l.loaded = life[i].loaded /\ l.store
          /\ l.unloading = life[i].unloading /\ l.waits = life[i].waits
          /\ l.teardown = life[i].teardown /\ life' = [life EXCEPT ![i] = l]
          /\ adopted.unloading = l.unloading /\ adopted.store = l.store
      BY <1>1, <2>5 DEF Life, InitStages
    <3>2. RestartMaintenanceTimers(adopted, care[i]) = RestartMaintenanceTimers(l, care[i])
      BY <3>1 DEF RestartMaintenanceTimers, ScheduleCompaction
    <3> HIDE DEF l, adopted
    <3>3. StagesFit(l) /\ MayHold(l)
      BY <1>3, <3>1, <2>5 DEF StagesFit, MayHold, PendingStages
    <3>4. /\ RestartMaintenanceTimers(l, care[i]) \in Care
          /\ CareFits(l, RestartMaintenanceTimers(l, care[i]))
      BY <1>1, <3>1, Restarting
    <3>5. care' = [care EXCEPT ![i] = RestartMaintenanceTimers(l, care[i])]
      BY <1>1, <2>5, <3>2
    <3> QED BY <1>3, <1>4, <2>2, <3>1, <3>3, <3>4, <3>5
  <2> QED BY <1>1, <1>7, <2>3, <2>4, <2>5 DEF OpenSucceeds
<1>8. CASE ServerStarted(i)
  <2>0. db' = db /\ db.open \subseteq db.open \cup {i} /\ life[i].init = "serving" /\ life[i].store
    BY <1>1, <1>3, <1>8 DEF ServerStarted, StagesFit
  <2>1. CASE life[i].unloading /\ life' = [life EXCEPT ![i].init = "left"] /\ care' = care
    <3> DEFINE l == [life[i] EXCEPT !.init = "left"]
    <3>1. /\ l \in Life /\ l.init = "left" /\ l.loaded = life[i].loaded
          /\ l.unloading = life[i].unloading /\ l.waits = life[i].waits
          /\ l.store = life[i].store
          /\ l.teardown = life[i].teardown /\ life' = [life EXCEPT ![i] = l]
      BY <1>1, <2>1 DEF Life, InitStages
    <3> HIDE DEF l
    <3>2. StagesFit(l) /\ MayHold(l)
      BY <1>3, <2>0, <3>1 DEF StagesFit, MayHold
    <3> QED BY <1>1, <1>3, <1>4, <1>5, <1>6, <2>0, <2>1, <3>1, <3>2
  <2>2. CASE /\ ~life[i].unloading /\ life' = [life EXCEPT ![i].init = "ready"]
             /\ care' = [care EXCEPT ![i] = RestartMaintenanceTimers(life[i], @)]
    <3> DEFINE l == [life[i] EXCEPT !.init = "ready"]
    <3>1. /\ l \in Life /\ l.init = "ready" /\ l.loaded = life[i].loaded
          /\ l.unloading = life[i].unloading /\ l.waits = life[i].waits
          /\ l.store = life[i].store
          /\ l.teardown = life[i].teardown /\ life' = [life EXCEPT ![i] = l]
      BY <1>1, <2>2 DEF Life, InitStages
    <3> HIDE DEF l
    <3>2. RestartMaintenanceTimers(life[i], care[i]) = RestartMaintenanceTimers(l, care[i])
      BY <3>1 DEF RestartMaintenanceTimers, ScheduleCompaction
    <3>3. StagesFit(l) /\ MayHold(l)
      BY <1>3, <2>0, <3>1, <2>2 DEF StagesFit, MayHold, PendingStages
    <3>4. /\ RestartMaintenanceTimers(l, care[i]) \in Care
          /\ CareFits(l, RestartMaintenanceTimers(l, care[i]))
      BY <1>1, <2>0, <3>1, Restarting
    <3>5. care' = [care EXCEPT ![i] = RestartMaintenanceTimers(l, care[i])]
      BY <1>1, <2>2, <3>2
    <3> QED BY <1>1, <1>3, <1>4, <2>0, <3>1, <3>3, <3>4, <3>5
  <2> QED BY <1>1, <1>8, <2>1, <2>2 DEF ServerStarted
<1> QED BY <1>7, <1>8

\* A full disk under an ingest, and the timers.
LEMMA TimersFire ==
    ASSUME IInv, NEW i \in Load,
           Ingest(i) \/ CompactionTimer(i) \/ RetentionTimer(i)
             \/ CheckStoreSize(i) \/ StoreSizeKnown(i)
    PROVE  IInv'
<1>1. /\ life[i] \in Life /\ care[i] \in Care /\ OneSweep(care[i]) /\ care \in [Load -> Care]
      /\ care = [care EXCEPT ![i] = care[i]] /\ CareFits(life[i], care[i])
      /\ db \in [open : SUBSET Load, backlog : Int, expired : Int, free : Int]
  BY DEF IInv, LifeInv, Shapes, CareInv, CareFits
<1>2. UNCHANGED <<layoutReady, tracked, life>>
  BY DEF Ingest, CompactionTimer, RetentionTimer, CheckStoreSize, StoreSizeKnown
<1>3. life[i].init = "ready" /\ (~life[i].unloading => life[i].store)
  BY AtWork DEF Ingest, CompactionTimer, RetentionTimer, CheckStoreSize, StoreSizeKnown
<1>4. CASE Ingest(i)
  <2>1. CASE care' = care /\ db' = [db EXCEPT !.backlog = @ + 1]
    <3> DEFINE n == db.backlog + 1
    <3>1. n \in Int
      BY <1>1
    <3>2. db' = [db EXCEPT !.backlog = n]
      BY <1>1, <2>1
    <3> HIDE DEF n
    <3>3. /\ db' \in [open : SUBSET Load, backlog : Int, expired : Int, free : Int]
          /\ db'.open = db.open
      BY <1>1, <3>1, <3>2
    <3> QED BY <1>1, <1>2, <2>1, <3>3, OneCares
  <2>2. CASE db' = db /\ care' = [care EXCEPT ![i] = ForceMaintenance(life[i], @)]
    BY <1>1, <1>2, <1>3, <2>2, Forcing, OneCares
  <2> QED BY <1>4, <2>1, <2>2 DEF Ingest
<1>5. CASE CompactionTimer(i)
  <2> DEFINE c == [care[i] EXCEPT !.timers = @ \ {"compaction"}]
             d == CompactClosedBuckets(life[i], c)
  <2>1. /\ "compaction" \in care[i].timers /\ care' = [care EXCEPT ![i] = d] /\ db' = db
    BY <1>1, <1>5 DEF CompactionTimer
  <2>2. /\ c \in Care /\ OneSweep(c) /\ "compaction" \notin c.timers
        /\ c.loop = care[i].loop
    BY <1>1 DEF Care, OneSweep
  <2>3. ~life[i].unloading => c.loop = "none"
    BY <1>3, <2>1, <2>2, AtWork
  <2> HIDE DEF c
  <2>4. d \in Care /\ CareFits(life[i], d)
    <3>1. CASE ~life[i].store \/ c.loop # "none"
      BY <1>3, <2>2, <2>3, <3>1 DEF CompactClosedBuckets, CareFits
    <3>2. CASE life[i].store /\ c.loop = "none" /\ life[i].unloading
      BY <1>1, <1>3, <2>2, <3>2, Scheduling DEF CompactClosedBuckets
    <3>3. CASE life[i].store /\ c.loop = "none" /\ ~life[i].unloading
      <4> DEFINE zero == 0
                 e == [c EXCEPT !.loop = "batch", !.batches = zero]
      <4>1. d = e
        BY <3>3 DEF CompactClosedBuckets
      <4> HIDE DEF zero
      <4>2. zero \in Int
        BY DEF zero
      <4>3. /\ e \in Care /\ e.loop = "batch" /\ e.timers = c.timers
            /\ e.prune = c.prune /\ e.pruning = c.pruning
        BY <2>2, <4>2 DEF Care, Loops
      <4> HIDE DEF e, d
      <4> QED BY <1>3, <2>2, <4>1, <4>3 DEF CareFits, OneSweep
    <3> QED BY <1>1, <3>1, <3>2, <3>3 DEF Life
  <2> HIDE DEF d
  <2> QED BY <1>1, <1>2, <2>1, <2>4, OneCares
<1>6. CASE RetentionTimer(i)
  <2>1. PICK once \in {"startupRetention", "retention"} \cap care[i].timers :
          LET fired == [care[i] EXCEPT !.timers = @ \ ({once} \ {"retention"})]
          IN care' = [care EXCEPT ![i] = PruneOldSamples(life[i], fired)]
    BY <1>6 DEF RetentionTimer
  <2> DEFINE c == [care[i] EXCEPT !.timers = @ \ ({once} \ {"retention"})]
             d == PruneOldSamples(life[i], c)
  <2>2. care' = [care EXCEPT ![i] = d] /\ db' = db
    BY <1>1, <1>6, <2>1 DEF RetentionTimer
  <2>3. /\ c \in Care /\ OneSweep(c) /\ c.loop = care[i].loop
        /\ "compaction" \in c.timers <=> "compaction" \in care[i].timers
    BY <1>1 DEF Care, OneSweep
  <2> HIDE DEF c
  <2>4. d \in Care /\ OneSweep(d) /\ d.timers = c.timers /\ d.loop = c.loop
    BY <1>1, <2>3, Pruning
  <2> HIDE DEF d
  <2>5. CareFits(life[i], d)
    BY <1>1, <1>3, <2>3, <2>4 DEF CareFits
  <2> QED BY <1>1, <1>2, <2>2, <2>4, <2>5, OneCares
<1>7. CASE CheckStoreSize(i)
  <2> DEFINE d == [care[i] EXCEPT !.guard = TRUE]
  <2>1. care' = [care EXCEPT ![i] = d] /\ db' = db
    BY <1>1, <1>7 DEF CheckStoreSize
  <2>2. /\ d \in Care /\ d.loop = care[i].loop /\ d.timers = care[i].timers
        /\ d.prune = care[i].prune /\ d.pruning = care[i].pruning
    BY <1>1 DEF Care
  <2> HIDE DEF d
  <2>3. CareFits(life[i], d)
    BY <1>1, <1>3, <2>2 DEF CareFits, OneSweep
  <2> QED BY <1>1, <1>2, <2>1, <2>2, <2>3, OneCares
<1>8. CASE StoreSizeKnown(i)
  <2> DEFINE d == [care[i] EXCEPT !.guard = FALSE]
  <2>1. /\ db' = db
        /\ \/ care' = [care EXCEPT ![i] = d]
           \/ care' = [care EXCEPT ![i] = ForceMaintenance(life[i], d)]
    BY <1>8 DEF StoreSizeKnown
  <2>2. /\ d \in Care /\ d.loop = care[i].loop /\ d.timers = care[i].timers
        /\ d.prune = care[i].prune /\ d.pruning = care[i].pruning
    BY <1>1 DEF Care
  <2> HIDE DEF d
  <2>3. CareFits(life[i], d) /\ OneSweep(d)
    BY <1>1, <1>3, <2>2 DEF CareFits, OneSweep
  <2>4. ForceMaintenance(life[i], d) \in Care /\ CareFits(life[i], ForceMaintenance(life[i], d))
    BY <1>1, <1>3, <2>2, <2>3, Forcing
  <2> QED BY <1>1, <1>2, <2>1, <2>2, <2>3, <2>4, OneCares
<1> QED BY <1>4, <1>5, <1>6, <1>7, <1>8

\* The steps of a compaction sweep.
LEMMA Compacting ==
    ASSUME IInv, NEW i \in Load, CompactionBatch(i) \/ CompactionPause(i)
    PROVE  IInv'
<1>1. /\ life[i] \in Life /\ care[i] \in Care /\ OneSweep(care[i]) /\ care \in [Load -> Care]
      /\ db \in [open : SUBSET Load, backlog : Int, expired : Int, free : Int]
  BY DEF IInv, LifeInv, Shapes, CareInv, CareFits
<1>2. UNCHANGED <<layoutReady, tracked, life>> /\ care[i].loop # "none"
  <2>1. CASE CompactionBatch(i)
    BY <2>1 DEF CompactionBatch
  <2>2. CASE CompactionPause(i)
    <3>1. UNCHANGED <<layoutReady, tracked, life>>
      BY <2>2, Zenon DEF CompactionPause
    <3>2. care[i].loop = "pause"
      <4> DEFINE n == care[i].batches + 1
                 c == [care[i] EXCEPT !.batches = n]
      <4>1. c.loop = "pause"
        BY <2>2 DEF CompactionPause
      <4> HIDE DEF n
      <4>2. c.loop = care[i].loop
        BY <1>1 DEF Care
      <4> QED BY <4>1, <4>2
    <3> QED BY <3>1, <3>2
  <2> QED BY <2>1, <2>2
<1>3. /\ life[i].init = "ready" /\ (~life[i].unloading => life[i].store)
      /\ ~life[i].unloading => "compaction" \notin care[i].timers
  BY <1>2, AtWork
<1>4. \A b : /\ SettleCompaction(life[i], care[i], b) \in Care
             /\ CareFits(life[i], SettleCompaction(life[i], care[i], b))
  BY <1>1, <1>3, Settling
<1>5. ASSUME NEW c \in Care, c.loop # "none", c.timers = care[i].timers,
             c.prune = care[i].prune, c.pruning = care[i].pruning
      PROVE  CareFits(life[i], c)
  BY <1>1, <1>3, <1>5 DEF CareFits, OneSweep
<1>6. CASE CompactionBatch(i)
  <2> DEFINE left == db.backlog - Lower(care[i].points, db.backlog)
  <2>1. left \in Int
    BY <1>1 DEF Lower, Care
  <2> HIDE DEF left
  <2>2. /\ db' = db \/ db' = [db EXCEPT !.backlog = left]
        /\ \/ \E b \in BOOLEAN :
                care' = [care EXCEPT ![i] = SettleCompaction(life[i], @, b)]
           \/ \E d \in Durations : care' = [care EXCEPT ![i].loop = "pause",
                                              ![i].points = NextLimit(@, d)]
    BY <1>6 DEF CompactionBatch, left
  <2>3. /\ db' \in [open : SUBSET Load, backlog : Int, expired : Int, free : Int]
        /\ db'.open = db.open
    BY <1>1, <2>1, <2>2
  <2>4. CASE \E b \in BOOLEAN :
               care' = [care EXCEPT ![i] = SettleCompaction(life[i], @, b)]
    <3>1. PICK b \in BOOLEAN : care' = [care EXCEPT ![i] = SettleCompaction(life[i], @, b)]
      BY <2>4
    <3>2. care' = [care EXCEPT ![i] = SettleCompaction(life[i], care[i], b)]
      BY <1>1, <3>1
    <3> QED BY <1>2, <1>4, <2>3, <3>2, OneCares
  <2>5. CASE \E d \in Durations : care' = [care EXCEPT ![i].loop = "pause",
                                             ![i].points = NextLimit(@, d)]
    <3>1. PICK d \in Durations : care' = [care EXCEPT ![i].loop = "pause",
                                            ![i].points = NextLimit(@, d)]
      BY <2>5
    <3> DEFINE n == NextLimit(care[i].points, d)
               c == [care[i] EXCEPT !.loop = "pause", !.points = n]
    <3>2. n \in Int
      BY <1>1, Pacing DEF Care
    <3> HIDE DEF n
    <3>3. care' = [care EXCEPT ![i] = c]
      BY <1>1, <3>1 DEF n, Care
    <3>4. /\ c \in Care /\ c.loop = "pause" /\ c.timers = care[i].timers
          /\ c.prune = care[i].prune /\ c.pruning = care[i].pruning
      BY <1>1, <3>2 DEF Care, Loops
    <3> HIDE DEF c
    <3>5. CareFits(life[i], c)
      BY <1>5, <3>4
    <3> QED BY <1>2, <2>3, <3>3, <3>4, <3>5, OneCares
  <2> QED BY <2>2, <2>4, <2>5
<1>7. CASE CompactionPause(i)
  <2> DEFINE n == care[i].batches + 1
             c == [care[i] EXCEPT !.batches = n]
             d == [c EXCEPT !.loop = "batch"]
  <2>1. n \in Int
    BY <1>1 DEF Care
  <2>2. /\ db' = db
        /\ \/ care' = [care EXCEPT ![i] = SettleCompaction(life[i], c, FALSE)]
           \/ care' = [care EXCEPT ![i] = d]
    BY <1>7 DEF CompactionPause
  <2> HIDE DEF n
  <2>3. /\ c \in Care /\ c.loop = care[i].loop /\ c.timers = care[i].timers
        /\ c.prune = care[i].prune /\ c.pruning = care[i].pruning
    BY <1>1, <2>1 DEF Care
  <2> HIDE DEF c
  <2>4. /\ d \in Care /\ d.loop = "batch" /\ d.timers = care[i].timers
        /\ d.prune = care[i].prune /\ d.pruning = care[i].pruning
    BY <2>3 DEF Care, Loops
  <2> HIDE DEF d
  <2>5. OneSweep(c) /\ CareFits(life[i], d)
    BY <1>1, <1>5, <2>3, <2>4 DEF OneSweep
  <2>6. /\ SettleCompaction(life[i], c, FALSE) \in Care
        /\ CareFits(life[i], SettleCompaction(life[i], c, FALSE))
    BY <1>1, <1>3, <2>3, <2>5, Settling
  <2> QED BY <1>1, <1>2, <2>2, <2>4, <2>5, <2>6, OneCares
<1> QED BY <1>6, <1>7

\* A retention sweep enters its next stage, or is over.
LEMMA Entering ==
    ASSUME NEW c \in Care, NEW l, CareFits(l, c), l.init = "ready",
           NEW s \in Slots, NEW stage \in PruneStages, c.prune[s] # "none"
    PROVE  LET d == IF stage = "none" THEN SettlePrune(c, s) ELSE [c EXCEPT !.prune[s] = stage]
           IN  d \in Care /\ CareFits(l, d)
<1> DEFINE d == IF stage = "none" THEN SettlePrune(c, s) ELSE [c EXCEPT !.prune[s] = stage]
<1>1. c.pruning = s /\ OneSweep(c)
  BY DEF CareFits, OneSweep
<1>2. CASE stage = "none"
  <2> DEFINE p == [c.prune EXCEPT ![s] = "none"]
             e == [c EXCEPT !.prune = p, !.pruning = "none"]
  <2>1. d = e
    BY <1>1, <1>2 DEF SettlePrune, Care
  <2>2. p \in [Slots -> PruneStages] /\ \A t \in Slots : p[t] # "none" => c.prune[t] # "none"
    BY DEF Care, PruneStages
  <2> HIDE DEF p
  <2>3. /\ e \in Care /\ e.loop = c.loop /\ e.timers = c.timers /\ e.guard = c.guard
        /\ e.prune = p /\ e.pruning = "none"
    BY <2>2 DEF Care
  <2>4. \A t \in Slots : p[t] = "none"
    <3>1. p[s] = "none"
      BY DEF p, Care
    <3> QED BY <1>1, <2>2, <3>1 DEF OneSweep
  <2> HIDE DEF e
  <2>5. CareFits(l, e)
    BY <2>3, <2>4 DEF CareFits, OneSweep
  <2> QED BY <2>1, <2>3, <2>5
<1>3. CASE stage # "none"
  <2> DEFINE p == [c.prune EXCEPT ![s] = stage]
             e == [c EXCEPT !.prune = p]
  <2>1. d = e
    BY <1>3 DEF Care
  <2>2. p \in [Slots -> PruneStages] /\ \A t \in Slots : p[t] # "none" => t = s \/ c.prune[t] # "none"
    BY DEF Care
  <2> HIDE DEF p
  <2>3. /\ e \in Care /\ e.loop = c.loop /\ e.timers = c.timers /\ e.guard = c.guard
        /\ e.prune = p /\ e.pruning = c.pruning
    BY <2>2 DEF Care
  <2> HIDE DEF e
  <2>4. CareFits(l, e)
    BY <1>1, <2>2, <2>3 DEF CareFits, OneSweep
  <2> QED BY <2>1, <2>3, <2>4
<1> QED BY <1>2, <1>3

\* The steps of a retention sweep.
LEMMA Retaining ==
    ASSUME IInv, NEW i \in Load, NEW s \in Slots, RetentionCall(i, s) \/ RetentionPause(i, s)
    PROVE  IInv'
<1> DEFINE Store == [open : SUBSET Load, backlog : Int, expired : Int, free : Int]
           entered(stage) == IF stage = "none" THEN SettlePrune(care[i], s)
                             ELSE [care[i] EXCEPT !.prune[s] = stage]
<1>1. /\ life[i] \in Life /\ care[i] \in Care /\ OneSweep(care[i]) /\ care \in [Load -> Care]
      /\ CareFits(life[i], care[i]) /\ db \in Store
  BY DEF IInv, LifeInv, Shapes, CareInv, CareFits
<1>2. UNCHANGED <<layoutReady, tracked, life>> /\ care[i].prune[s] # "none"
  <2>1. CASE RetentionCall(i, s)
    <3>1. care[i].prune[s] \in {"delete", "metadata", "series", "vacuum"}
      BY <2>1 DEF RetentionCall
    <3>2. UNCHANGED <<layoutReady, tracked, life>>
      BY <2>1, Zenon DEF RetentionCall
    <3> QED BY <3>1, <3>2
  <2>2. CASE RetentionPause(i, s)
    BY <2>2 DEF RetentionPause
  <2> QED BY <2>1, <2>2
<1>3. life[i].init = "ready"
  BY <1>2, AtWork
<1>4. ASSUME NEW stage \in PruneStages, Enter(i, s, stage), db' \in Store, db'.open = db.open
      PROVE  IInv'
  <2>1. care' = [care EXCEPT ![i] = entered(stage)]
    BY <1>1, <1>4 DEF Enter
  <2>2. entered(stage) \in Care /\ CareFits(life[i], entered(stage))
    BY <1>1, <1>2, <1>3, Entering
  <2> HIDE DEF entered
  <2> QED BY <1>2, <1>4, <2>1, <2>2, OneCares
<1>5. ASSUME NEW stage \in PruneStages, EnterUnlessStopping(i, s, stage),
             db' \in Store, db'.open = db.open
      PROVE  IInv'
  BY <1>4, <1>5 DEF EnterUnlessStopping, PruneStages
<1>6. CASE RetentionCall(i, s)
  <2> DEFINE stage == care[i].prune[s]
             reclaimed == Lower(care[i].pages, db.free)
             fewer == db.expired - 1
             more == db.free + 1
             all == db.free + db.expired
             less == db.free - reclaimed
  <2>1. fewer \in Int /\ more \in Int /\ all \in Int /\ less \in Int
    BY <1>1 DEF Lower, Care
  <2>2. \/ Enter(i, s, "none") /\ db' = db
        \/ db' = [db EXCEPT !.expired = fewer, !.free = more] /\ Enter(i, s, "delete pause")
        \/ db' = [db EXCEPT !.expired = 0, !.free = all] /\ EnterUnlessStopping(i, s, "metadata")
        \/ db' = db /\ EnterUnlessStopping(i, s, "metadata pause")
        \/ db' = db /\ EnterUnlessStopping(i, s, "series pause")
        \/ db' = [db EXCEPT !.free = less] /\ Enter(i, s, "none")
        \/ /\ db' = [db EXCEPT !.free = less]
           /\ \E d \in Durations : care' = [care EXCEPT ![i].prune[s] = "vacuum pause",
                                              ![i].pages = NextLimit(@, d)]
    BY <1>1, <1>6 DEF RetentionCall
  <2> HIDE DEF fewer, more, all, less
  <2>3. /\ {"none", "delete pause", "metadata", "metadata pause", "series pause",
            "vacuum pause"} \subseteq PruneStages
        /\ 0 \in Int
    BY DEF PruneStages
  <2>4. CASE Enter(i, s, "none") /\ db' = db
    BY <1>1, <1>4, <2>3, <2>4
  <2>5. CASE db' = [db EXCEPT !.expired = fewer, !.free = more] /\ Enter(i, s, "delete pause")
    <3>1. db' \in Store /\ db'.open = db.open
      BY <1>1, <2>1, <2>5
    <3> QED BY <1>4, <2>3, <2>5, <3>1
  <2>6. CASE db' = [db EXCEPT !.expired = 0, !.free = all] /\ EnterUnlessStopping(i, s, "metadata")
    <3> DEFINE zero == 0
    <3>1. db' = [db EXCEPT !.expired = zero, !.free = all] /\ zero \in Int
      BY <2>6
    <3> HIDE DEF zero
    <3>2. db' \in Store /\ db'.open = db.open
      BY <1>1, <2>1, <3>1
    <3> QED BY <1>5, <2>3, <2>6, <3>2
  <2>7. CASE db' = db /\ EnterUnlessStopping(i, s, "metadata pause")
    BY <1>1, <1>5, <2>3, <2>7
  <2>8. CASE db' = db /\ EnterUnlessStopping(i, s, "series pause")
    BY <1>1, <1>5, <2>3, <2>8
  <2>9. CASE db' = [db EXCEPT !.free = less]
    <3>1. db' \in Store /\ db'.open = db.open
      BY <1>1, <2>1, <2>9
    <3>2. CASE Enter(i, s, "none")
      BY <1>4, <2>3, <3>1, <3>2
    <3>3. CASE \E d \in Durations : care' = [care EXCEPT ![i].prune[s] = "vacuum pause",
                                               ![i].pages = NextLimit(@, d)]
      <4>1. PICK d \in Durations : care' = [care EXCEPT ![i].prune[s] = "vacuum pause",
                                              ![i].pages = NextLimit(@, d)]
        BY <3>3
      <4> DEFINE n == NextLimit(care[i].pages, d)
                 e == [care[i] EXCEPT !.prune[s] = "vacuum pause"]
                 c == [e EXCEPT !.pages = n]
      <4>2. n \in Int
        BY <1>1, Pacing DEF Care
      <4>3. e.pages = care[i].pages
        BY <1>1 DEF Care
      <4>4. care' = [care EXCEPT ![i] = c]
        BY <1>1, <4>1, <4>3
      <4>5. e \in Care /\ CareFits(life[i], e)
        <5>1. "vacuum pause" \in PruneStages /\ "vacuum pause" # "none"
          BY DEF PruneStages
        <5> QED BY <1>1, <1>2, <1>3, <5>1, Entering
      <4> HIDE DEF n, e
      <4>6. /\ c \in Care /\ c.timers = e.timers /\ c.loop = e.loop /\ c.guard = e.guard
            /\ c.prune = e.prune /\ c.pruning = e.pruning
        BY <4>2, <4>5 DEF Care
      <4> HIDE DEF c
      <4>7. CareFits(life[i], c)
        BY <4>5, <4>6 DEF CareFits, OneSweep
      <4> QED BY <1>2, <3>1, <4>4, <4>6, <4>7, OneCares
    <3> QED BY <2>2, <2>4, <2>5, <2>6, <2>7, <2>8, <3>2, <3>3
  <2> QED BY <2>2, <2>4, <2>5, <2>6, <2>7, <2>8, <2>9
<1>7. CASE RetentionPause(i, s)
  <2>1. /\ db' = db
        /\ \E stage \in {"delete", "series", "vacuum"} :
              Enter(i, s, stage) \/ EnterUnlessStopping(i, s, stage)
    BY <1>7 DEF RetentionPause
  <2>2. {"delete", "series", "vacuum"} \subseteq PruneStages
    BY DEF PruneStages
  <2> QED BY <1>1, <1>4, <1>5, <2>1, <2>2
<1> QED BY <1>6, <1>7

\* A load comes, goes on in its start, or is unloaded.
LEMMA LivesChange ==
    ASSUME IInv, NEW i \in Load,
           \/ Onload(i) \/ Onunload(i) \/ WaitForPreviousTeardown(i)
           \/ LoadSettings(i) \/ OpenFails(i) \/ RetryOpen(i) \/ CloseLate(i)
    PROVE  IInv'
<1>1. life \in [Load -> Life] /\ life[i] \in Life
  BY DEF IInv, LifeInv, Shapes
<1>2. LifeInv'
  BY Loading, Unloading, WaitEnds, StartGoesOn DEF IInv
<1>3. care' = care
  BY DEF Onload, Onunload, WaitForPreviousTeardown, LoadSettings, OpenFails, RetryOpen, CloseLate
<1>4. ASSUME NEW l, life' = [life EXCEPT ![i] = l],
             l.init = "ready" <=> life[i].init = "ready",
             life[i].unloading => l.unloading
      PROVE  CareInv'
  BY <1>1, <1>3, <1>4, CareStays DEF IInv
<1>5. CASE Onload(i)
  <2> DEFINE l == [life[i] EXCEPT !.loaded = TRUE]
             m == IF layoutReady THEN StartRuntimeInitialization(l) ELSE l
  <2>1. life' = [life EXCEPT ![i] = m]
    BY <1>5 DEF Onload
  <2>2. (m.init = "ready" <=> life[i].init = "ready") /\ m.unloading = life[i].unloading
    BY <1>1 DEF StartRuntimeInitialization, Life
  <2> HIDE DEF m
  <2> QED BY <1>2, <1>4, <2>1, <2>2 DEF IInv
<1>6. CASE Onunload(i)
  <2> DEFINE l == [life[i] EXCEPT !.unloading = TRUE, !.teardown = "waits"]
  <2>1. life' = [life EXCEPT ![i] = l] /\ l.init = life[i].init /\ l.unloading
    BY <1>1, <1>6 DEF Onunload, Life
  <2> HIDE DEF l
  <2> QED BY <1>2, <1>4, <2>1 DEF IInv
<1>7. ASSUME NEW stage, stage # "ready", life[i].init # "ready",
             life' = [life EXCEPT ![i].init = stage]
      PROVE  IInv'
  <2> DEFINE l == [life[i] EXCEPT !.init = stage]
  <2>1. life' = [life EXCEPT ![i] = l] /\ l.init = stage /\ l.unloading = life[i].unloading
    BY <1>1, <1>7 DEF Life
  <2> HIDE DEF l
  <2> QED BY <1>2, <1>4, <1>7, <2>1 DEF IInv
<1>8. CASE WaitForPreviousTeardown(i)
  BY <1>7, <1>8 DEF WaitForPreviousTeardown
<1>9. CASE CloseLate(i)
  BY <1>7, <1>9 DEF CloseLate
<1>10. ASSUME NEW stage, NEW n, stage # "ready", life[i].init # "ready",
              life' = [life EXCEPT ![i].init = stage, ![i].attempt = n]
       PROVE  IInv'
  <2> DEFINE l == [life[i] EXCEPT !.init = stage, !.attempt = n]
  <2>1. life' = [life EXCEPT ![i] = l] /\ l.init = stage /\ l.unloading = life[i].unloading
    BY <1>1, <1>10 DEF Life
  <2> HIDE DEF l
  <2> QED BY <1>2, <1>4, <1>10, <2>1 DEF IInv
<1>11. CASE LoadSettings(i)
  <2> DEFINE stage == IF life[i].unloading THEN "left" ELSE "opening"
             first == 1
  <2>1. /\ stage # "ready" /\ life[i].init # "ready"
        /\ life' = [life EXCEPT ![i].init = stage, ![i].attempt = first]
    BY <1>11 DEF LoadSettings
  <2> HIDE DEF stage, first
  <2> QED BY <1>10, <2>1
<1>12. CASE RetryOpen(i)
  <2> DEFINE n == life[i].attempt + 1
  <2>1. life[i].init = "retry" /\ life' = [life EXCEPT ![i].init = "opening", ![i].attempt = n]
    BY <1>1, <1>12 DEF RetryOpen
  <2> HIDE DEF n
  <2> QED BY <1>10, <2>1
<1>13. CASE OpenFails(i)
  <2> DEFINE l == AfterFailure(life[i])
  <2>1. /\ life' = [life EXCEPT ![i] = l] /\ l.init # "ready" /\ life[i].init # "ready"
        /\ l.unloading = life[i].unloading
    BY <1>1, <1>13 DEF OpenFails, AfterFailure, Life
  <2> HIDE DEF l
  <2> QED BY <1>2, <1>4, <2>1 DEF IInv
<1> QED BY <1>5, <1>6, <1>8, <1>9, <1>11, <1>12, <1>13

\* A load is taken down; its timers are cleared first.
LEMMA TakenDown ==
    ASSUME IInv, NEW i \in Load, TearsDown(i)
    PROVE  IInv'
<1>1. life \in [Load -> Life] /\ life[i] \in Life /\ care \in [Load -> Care]
  BY DEF IInv, LifeInv, Shapes
<1>2. LifeInv'
  BY TeardownGoesOn, TeardownDone DEF IInv, TearsDown
<1>3. CASE TeardownBegins(i)
  <2> DEFINE l == [life[i] EXCEPT !.teardown = "server"]
             c == [care[i] EXCEPT !.timers = {}]
  <2>1. /\ life[i].teardown = "waits" /\ life' = [life EXCEPT ![i] = l]
        /\ care' = [care EXCEPT ![i] = c]
    BY <1>1, <1>3 DEF TeardownBegins
  <2>2. /\ l.init = life[i].init /\ l.unloading = life[i].unloading /\ l.unloading
        /\ c.timers = {} /\ c.loop = care[i].loop /\ c.guard = care[i].guard
        /\ c.prune = care[i].prune /\ c.pruning = care[i].pruning
    <3>1. life[i].unloading
      BY <2>1 DEF IInv, LifeInv, StagesFit
    <3> QED BY <1>1, <3>1 DEF Life, Care
  <2> HIDE DEF l, c
  <2>3. CareFits(l, c)
    BY <2>2 DEF IInv, CareInv, CareFits, OneSweep
  <2>4. CareInv'
    BY <1>1, <2>1, <2>3 DEF IInv, CareInv
  <2> QED BY <1>2, <2>4 DEF IInv
<1>4. ASSUME NEW l, life' = [life EXCEPT ![i] = l], care' = care,
             l.init = life[i].init, l.unloading = life[i].unloading
      PROVE  IInv'
  BY <1>1, <1>2, <1>4, CareStays DEF IInv
<1>5. CASE TeardownServerStopped(i)
  <2> DEFINE stage == IF life[i].store THEN "close" ELSE "settles"
             l == [life[i] EXCEPT !.teardown = stage]
  <2>1. life' = [life EXCEPT ![i] = l] /\ care' = care
    BY <1>1, <1>5 DEF TeardownServerStopped
  <2> HIDE DEF stage
  <2>2. l.init = life[i].init /\ l.unloading = life[i].unloading
    BY <1>1 DEF Life
  <2> HIDE DEF l
  <2> QED BY <1>4, <2>1, <2>2
<1>6. CASE TeardownStoreCloses(i)
  <2> DEFINE l == [life[i] EXCEPT !.teardown = "settles"]
  <2>1. /\ life' = [life EXCEPT ![i] = l] /\ care' = care
        /\ l.init = life[i].init /\ l.unloading = life[i].unloading
    BY <1>1, <1>6 DEF TeardownStoreCloses, Life
  <2> HIDE DEF l
  <2> QED BY <1>4, <2>1
<1>7. CASE TeardownEnds(i)
  <2> DEFINE l == [life[i] EXCEPT !.teardown = "done", !.store = FALSE]
  <2>1. /\ life' = [life EXCEPT ![i] = l] /\ care' = care
        /\ l.init = life[i].init /\ l.unloading = life[i].unloading
    BY <1>1, <1>7 DEF TeardownEnds, Life
  <2> HIDE DEF l
  <2> QED BY <1>4, <2>1
<1> QED BY <1>3, <1>5, <1>6, <1>7 DEF TearsDown

-----------------------------------------------------------------------------
(* The invariant, and what it gives.                                       *)

\* The invariant holds at the start.
LEMMA InitIInv == Init => IInv
<1> SUFFICES ASSUME Init PROVE IInv
  OBVIOUS
<1>1. Unborn \in Life /\ \A i \in Load : life[i] = Unborn
  <2> DEFINE none == 0
  <2>1. none \in 0..Loads /\ none \in Int
    BY PluginAssumption
  <2>2. Unborn = [loaded |-> FALSE, unloading |-> FALSE, init |-> "idle", waits |-> none,
                  attempt |-> none, teardown |-> "none", store |-> FALSE]
    BY DEF Unborn
  <2> HIDE DEF none
  <2>3. Unborn \in Life
    BY <2>1, <2>2 DEF Life, InitStages, Teardowns
  <2> QED BY <2>3 DEF Init
<1>2. /\ Unborn.loaded = FALSE /\ Unborn.unloading = FALSE /\ Unborn.init = "idle"
      /\ Unborn.teardown = "none"
  BY DEF Unborn
<1>3. /\ Quiet \in Care /\ \A i \in Load : care[i] = Quiet
      /\ Quiet.timers = {} /\ Quiet.loop = "none" /\ ~Quiet.guard
      /\ \A s \in Slots : Quiet.prune[s] = "none"
  <2> DEFINE none == 0
             idle == [s \in Slots |-> "none"]
  <2>1. none \in Int /\ MaxPoints \in Int /\ InitialPages \in Int
        /\ idle \in [Slots -> PruneStages] /\ \A s \in Slots : idle[s] = "none"
    BY PluginAssumption DEF PruneStages
  <2>2. Quiet = [timers |-> {}, loop |-> "none", batches |-> none, points |-> MaxPoints,
                 prune |-> idle, pruning |-> "none", guard |-> FALSE, pages |-> InitialPages]
    BY DEF Quiet
  <2> HIDE DEF none, idle
  <2>3. Quiet \in Care
    BY <2>1, <2>2 DEF Care, Loops
  <2>4. /\ Quiet.timers = {} /\ Quiet.loop = "none" /\ ~Quiet.guard /\ Quiet.prune = idle
    BY <2>2
  <2> QED BY <2>1, <2>3, <2>4 DEF Init
<1>4. Shapes
  <2>1. tracked \in 0..Loads
    <3>1. tracked = 0
      BY Zenon DEF Init
    <3> QED BY <3>1, PluginAssumption
  <2>0. layoutReady \in BOOLEAN
    BY Zenon DEF Init
  <2>2. life \in [Load -> Life] /\ care \in [Load -> Care]
    BY <1>1, <1>3 DEF Init
  <2>3. db \in [open : SUBSET Load, backlog : Int, expired : Int, free : Int]
    BY PluginAssumption DEF Init
  <2> QED BY <2>0, <2>1, <2>2, <2>3 DEF Shapes
<1>5. \A i \in Load : StagesFit(life[i])
  BY <1>1, <1>2 DEF StagesFit
<1>6. InTurn /\ WaitsForOthers /\ TracksTheLast /\ OpenFits
  BY <1>1, <1>2 DEF Init, InTurn, WaitsForOthers, TracksTheLast, OpenFits
<1>7. CareInv
  BY <1>1, <1>2, <1>3 DEF CareInv, CareFits, OneSweep
<1> QED BY <1>4, <1>5, <1>6, <1>7 DEF IInv, LifeInv

\* Every step keeps the invariant.
LEMMA StepIInv == IInv /\ [Next]_vars => IInv'
<1> SUFFICES ASSUME IInv, [Next]_vars PROVE IInv'
  OBVIOUS
<1>1. ASSUME UNCHANGED <<layoutReady, tracked, life, care, db>> PROVE IInv'
  <2>1. LifeInv'
    BY <1>1, LivesStay DEF IInv, LifeInv, Shapes
  <2>2. CareInv'
    BY <1>1 DEF IInv, CareInv
  <2> QED BY <2>1, <2>2 DEF IInv
<1>2. CASE LayoutReady
  <2>1. LifeInv'
    BY <1>2, Starting DEF IInv
  <2>2. \A k \in Load : /\ life'[k].init = "ready" <=> life[k].init = "ready"
                        /\ life[k].unloading => life'[k].unloading
    <3> TAKE k \in Load
    <3>1. life[k] \in Life /\ life'[k] = IF life[k].loaded THEN StartRuntimeInitialization(life[k])
                               ELSE life[k]
      BY <1>2 DEF LayoutReady, IInv, LifeInv, Shapes
    <3> QED BY <3>1 DEF StartRuntimeInitialization, Life
  <2>3. CareInv'
    BY <1>2, <2>2, CareStays DEF LayoutReady, IInv
  <2> QED BY <2>1, <2>3 DEF IInv
<1>3. CASE Finished \/ UNCHANGED vars
  BY <1>1, <1>3 DEF Finished, vars
<1>4. ASSUME NEW i \in Load, NEW t, UserServes(i, t) \/ Bind(i, t) \/ Closed(i, t) PROVE IInv'
  BY <1>1, <1>4 DEF UserServes, Bind, Closed
<1>5. ASSUME NEW i \in Load,
             \/ Onload(i) \/ Onunload(i) \/ WaitForPreviousTeardown(i)
             \/ LoadSettings(i) \/ OpenFails(i) \/ RetryOpen(i) \/ CloseLate(i)
      PROVE  IInv'
  BY <1>5, LivesChange
<1>6. ASSUME NEW i \in Load, OpenSucceeds(i) \/ ServerStarted(i) PROVE IInv'
  BY <1>6, BecomesReady
<1>7. ASSUME NEW i \in Load, TearsDown(i) PROVE IInv'
  BY <1>7, TakenDown
<1>8. ASSUME NEW i \in Load,
             Ingest(i) \/ CompactionTimer(i) \/ RetentionTimer(i)
               \/ CheckStoreSize(i) \/ StoreSizeKnown(i)
      PROVE  IInv'
  BY <1>8, TimersFire
<1>9. ASSUME NEW i \in Load, CompactionBatch(i) \/ CompactionPause(i) PROVE IInv'
  BY <1>9, Compacting
<1>10. ASSUME NEW i \in Load, NEW s \in Slots, RetentionCall(i, s) \/ RetentionPause(i, s)
       PROVE  IInv'
  BY <1>10, Retaining
<1> QED BY <1>2, <1>3, <1>4, <1>5, <1>6, <1>7, <1>8, <1>9, <1>10 DEF Next, TearsDown

\* The stages of the loads, their timers and who has the store fit together in every state.
THEOREM LoadsFit == Spec => []IInv
BY InitIInv, StepIInv, PTL DEF Spec

\* A set whose members are all equal has at most one.
LEMMA AtMostOne ==
    ASSUME NEW S, \A x, y \in S : x = y
    PROVE  Cardinality(S) <= 1
<1>1. CASE S = {}
  <2>1. Cardinality(S) = 0
    BY <1>1, FS_EmptySet
  <2> QED BY <2>1
<1>2. CASE S # {}
  <2>1. PICK x \in S : TRUE
    BY <1>2
  <2>2. S = {x}
    BY <2>1
  <2>3. Cardinality(S) = 1
    BY <2>2, FS_Singleton
  <2> QED BY <2>3
<1> QED BY <1>1, <1>2

\* For any number of loads and attempts: two loads never have the database open at once.
\* The promise on the window makes the start of a load wait for the teardown before it,
\* and by the order of the loads for all earlier ones.
THEOREM DatabaseOpenOnce == Spec => []OneOpenStore
<1>1. ASSUME IInv PROVE OneOpenStore
  <2>1. ASSUME NEW i \in db.open, NEW j \in db.open PROVE ~(j < i)
    <3>1. /\ i \in Load /\ j \in Load /\ MayHold(life[i]) /\ MayHold(life[j])
      BY <1>1, <2>1 DEF IInv, LifeInv, Shapes, OpenFits
    <3>2. life[i].init \notin {"idle", "waits"} /\ ~Over(j)
      BY <3>1 DEF MayHold, Over
    <3> QED BY <1>1, <3>1, <3>2 DEF IInv, LifeInv, WaitsForOthers
  <2>2. \A i, j \in db.open : i \in Int /\ j \in Int
    BY <1>1 DEF IInv, LifeInv, Shapes, Load
  <2>3. \A i, j \in db.open : i = j
    BY <2>1, <2>2
  <2> QED BY <2>3, AtMostOne DEF OneOpenStore
<1> QED BY <1>1, LoadsFit, PTL

\* While a load runs, a compaction sweep is under way or a timer will start one, never both
\* and never neither, whatever fails, for any limits and any number of faults.
THEOREM CompactionStays == Spec => []CompactionGoesOn
<1>1. IInv => CompactionGoesOn
  BY DEF IInv, CareInv, CareFits, CompactionGoesOn
<1> QED BY <1>1, LoadsFit, PTL

\* The timers, the size guard and a full disk never put two retention sweeps side by side.
THEOREM RetentionOnce == Spec => []OneRetentionSweep
<1>1. ASSUME IInv PROVE OneRetentionSweep
  <2>1. ASSUME NEW i \in Load
        PROVE  Cardinality({s \in Slots : care[i].prune[s] # "none"}) <= 1
    <3>1. \A s \in Slots : care[i].prune[s] # "none" => care[i].pruning = s
      BY <1>1 DEF IInv, CareInv, CareFits, OneSweep
    <3>2. \A s, t \in {x \in Slots : care[i].prune[x] # "none"} : s = t
      BY <3>1
    <3> QED BY <3>2, AtMostOne
  <2> QED BY <2>1 DEF OneRetentionSweep
<1> QED BY <1>1, LoadsFit, PTL

-----------------------------------------------------------------------------
(***************************************************************************)
(* What a load leaves behind.  Its server and its timers fit its stages: a *)
(* port that listens for a load is the one its handle names, and nothing   *)
(* listens while an operation is under way or the teardown is past its     *)
(* wait.  Of a load that is crossed this is false, and so is what follows  *)
(* from it: there a handle is overwritten while its port still listens, or *)
(* a port is bound when the teardown has already asked.                    *)
(***************************************************************************)
Task == [do : {"idle", "bind", "closing"}, at : Int, restart : BOOLEAN]
Web == [api : BOOLEAN, handle : Int, closer : Tasks \cup {"none"}, tasks : [Tasks -> Task]]
Own(i) == {p \in Ports : port[p] = i}

\* The server w of a load with life l, when it listens on the ports S.
ListensAlone(l, w, S) ==
    \A p \in S :
        /\ w.handle = p /\ w.api
        /\ \A t \in Tasks : w.tasks[t] = Idle
        /\ l.init \in {"serving", "ready", "left"} /\ l.teardown \in {"none", "waits"}
TasksFit(l, w) ==
    /\ \A t, u \in Tasks : w.tasks[t] # Idle /\ w.tasks[u] # Idle => t = u
    /\ w.tasks["startup"] # Idle => l.init = "serving"
    /\ w.tasks["teardown"] # Idle =>
        /\ l.teardown = "server" /\ w.tasks["teardown"].do = "closing"
        /\ ~w.tasks["teardown"].restart
    /\ \A t \in Handlers : w.tasks[t] # Idle => ~l.unloading
    /\ \A t \in Tasks : w.tasks[t].do = "bind" => w.tasks[t].at \in Ports
    /\ \A t \in Tasks : w.tasks[t] # Idle => w.api
    /\ w.api => l.init \in {"serving", "ready"} \/ l.unloading
ServerFits(l, w, S) == ListensAlone(l, w, S) /\ TasksFit(l, w)
TimersGone(l, c) == l.teardown \notin {"none", "waits"} => c.timers = {}

ServerInv ==
    /\ web \in [Load -> Web] /\ port \in [Ports -> Int] /\ crossed \subseteq Load
    /\ \A i \in Load \ crossed : ServerFits(life[i], web[i], Own(i))
TimersInv == \A i \in Load : TimersGone(life[i], care[i])

\* An idle operation is an operation.
LEMMA IdleIsIdle == Idle \in Task /\ Idle.do = "idle"
<1> DEFINE none == 0
<1>1. none \in Int /\ Idle = [do |-> "idle", at |-> none, restart |-> FALSE]
  BY DEF Idle
<1> HIDE DEF none
<1>2. [do |-> "idle", at |-> none, restart |-> FALSE] \in Task
  BY <1>1 DEF Task
<1>3. Idle \in Task
  BY <1>1, <1>2
<1> QED BY <1>1, <1>3

\* The life l of a load becomes m, and its server w on the ports S need not notice.
Unnoticed(l, m, w, S) ==
    /\ \/ m.init = l.init
       \/ l.init \notin {"serving", "ready", "left"}
       \/ /\ l.init = "serving" /\ w.tasks["startup"] = Idle
          /\ m.init = "ready" \/ (m.init = "left" /\ m.unloading)
    /\ m.unloading = l.unloading \/ (m.unloading /\ \A t \in Handlers : w.tasks[t] = Idle)
    /\ m.teardown = l.teardown \/ S = {} \/ m.teardown = "waits"
    /\ m.teardown = l.teardown \/ w.tasks["teardown"] = Idle

\* A server fits a life that changes, unless the change is one the server must take part in.
LEMMA LivesOn ==
    ASSUME NEW l \in Life, NEW m \in Life, NEW w \in Web, NEW S, ServerFits(l, w, S),
           Unnoticed(l, m, w, S)
    PROVE  ServerFits(m, w, S)
<1> USE DEF Unnoticed
<1>1. ListensAlone(m, w, S)
  BY DEF ServerFits, ListensAlone, TasksFit
<1>2. TasksFit(m, w)
  <2>1. w.tasks["startup"] # Idle => m.init = "serving"
    BY DEF ServerFits, TasksFit
  <2>2. \A t \in Handlers : w.tasks[t] # Idle => ~m.unloading
    BY DEF ServerFits, TasksFit, Life
  <2>3. w.api => m.init \in {"serving", "ready"} \/ m.unloading
    BY DEF ServerFits, TasksFit, Life
  <2> QED BY <2>1, <2>2, <2>3 DEF ServerFits, TasksFit
<1> QED BY <1>1, <1>2 DEF ServerFits

\* A start gives the server a first port to try, or nothing to do.
LEMMA StartingServer ==
    ASSUME NEW i, NEW w \in Web, NEW t \in Tasks
    PROVE  LET v == StartServer(i, w, t) IN
           /\ v \in Web /\ v.api = w.api
           /\ \A u \in Tasks \ {t} : v.tasks[u] = w.tasks[u]
           /\ \/ v.tasks[t] = Idle
              \/ v.api /\ v.tasks[t].do = "bind" /\ v.tasks[t].at \in Ports
<1> DEFINE one == 1
           b == [do |-> "bind", at |-> one, restart |-> FALSE]
           x == IF ~w.api \/ Listening(w, i) THEN Idle ELSE b
           v == StartServer(i, w, t)
<1>1. one \in Int /\ one \in Ports
  BY PluginAssumption DEF Ports
<1>2. v = [w EXCEPT !.tasks[t] = x]
  BY DEF StartServer
<1> HIDE DEF one
<1>3. b \in Task /\ b.do = "bind" /\ b.at \in Ports
  BY <1>1 DEF Task
<1>4. \/ x = Idle
      \/ w.api /\ x = b
  BY DEF Web
<1> HIDE DEF b
<1>5. x \in Task
  BY <1>3, <1>4, IdleIsIdle
<1> HIDE DEF x, v
<1>6. /\ v \in Web /\ v.api = w.api /\ v.tasks[t] = x
      /\ \A u \in Tasks \ {t} : v.tasks[u] = w.tasks[u]
  BY <1>2, <1>5 DEF Web
<1>7. v.tasks[t] = Idle \/ (v.api /\ v.tasks[t].do = "bind" /\ v.tasks[t].at \in Ports)
  BY <1>3, <1>4, <1>6
<1> QED BY <1>6, <1>7 DEF v

\* One load and its server change, and the ports of the others are as before.
LEMMA OneServes ==
    ASSUME ServerInv, NEW i \in Load, web' \in [Load -> Web], port' \in [Ports -> Int],
           crossed' \in {crossed, crossed \cup {i}},
           \A k \in Load \ {i} : life'[k] = life[k] /\ web'[k] = web[k] /\ Own(k)' = Own(k),
           i \notin crossed' => ServerFits(life'[i], web'[i], Own(i)')
    PROVE  ServerInv'
<1>1. crossed' \subseteq Load /\ crossed \subseteq crossed'
  BY DEF ServerInv
<1>2. \A k \in (Load \ crossed') \ {i} : ServerFits(life'[k], web'[k], Own(k)')
  BY <1>1 DEF ServerInv
<1> QED BY <1>1, <1>2 DEF ServerInv

\* One load goes on and its server does not notice.
LEMMA OneLives ==
    ASSUME ServerInv, NEW i \in Load, NEW m \in Life, life[i] \in Life,
           life' = [life EXCEPT ![i] = m], life \in [Load -> Life], UNCHANGED <<web, port>>,
           crossed' \in {crossed, crossed \cup {i}},
           i \notin crossed' => Unnoticed(life[i], m, web[i], Own(i))
    PROVE  ServerInv'
<1>1. /\ web[i] \in Web /\ web' \in [Load -> Web] /\ port' \in [Ports -> Int]
      /\ web' = web
  BY DEF ServerInv
<1>2. \A k \in Load : Own(k)' = Own(k)
  BY DEF Own
<1>3. \A k \in Load \ {i} : life'[k] = life[k] /\ life'[i] = m
  OBVIOUS
<1>4. i \notin crossed' => ServerFits(m, web[i], Own(i))
  <2>1. SUFFICES ASSUME i \notin crossed' PROVE ServerFits(m, web[i], Own(i))
    OBVIOUS
  <2>2. ServerFits(life[i], web[i], Own(i))
    BY <2>1 DEF ServerInv
  <2> QED BY <1>1, <2>1, <2>2, LivesOn
<1>5. life'[i] = m
  OBVIOUS
<1> QED BY <1>1, <1>2, <1>3, <1>4, <1>5, OneServes

\* A server that is not listening owns no port.
LEMMA NotListening ==
    ASSUME ServerInv, NEW i \in Load \ crossed, ~Listening(web[i], i) \/ ~web[i].api
    PROVE  Own(i) = {}
<1>1. ASSUME NEW p \in Own(i) PROVE FALSE
  <2>1. web[i].handle = p /\ web[i].api /\ port[p] = i /\ p \in 1..LastPort
    BY <1>1 DEF ServerInv, ServerFits, ListensAlone, Own, Ports
  <2>2. p # 0
    BY <2>1, PluginAssumption
  <2> QED BY <2>1, <2>2 DEF Listening
<1> QED BY <1>1

\* Nor does one with an operation under way.
LEMMA NobodyListens ==
    ASSUME ServerInv, NEW i \in Load \ crossed, NEW t \in Tasks, web[i].tasks[t] # Idle
    PROVE  Own(i) = {}
  BY DEF ServerInv, ServerFits, ListensAlone

\* A task becomes idle or binds, while no other is busy and nothing listens.
LEMMA BecomesBusy ==
    ASSUME NEW l \in Life, NEW w \in Web, NEW v \in Web, NEW t \in Tasks, TasksFit(l, w),
           \A u \in Tasks \ {t} : w.tasks[u] = Idle /\ v.tasks[u] = Idle, v.api => w.api,
           v.tasks[t] = Idle
           \/ /\ v.api
              /\ v.tasks[t].do = "bind" => v.tasks[t].at \in Ports
              /\ t = "startup" => l.init = "serving"
              /\ t = "teardown" => l.teardown = "server" /\ v.tasks[t].do = "closing"
                                   /\ ~v.tasks[t].restart
              /\ t \in Handlers => ~l.unloading
    PROVE  ServerFits(l, v, {})
<1>1. "startup" \in Tasks /\ "teardown" \in Tasks /\ \A u \in Handlers : u \in Tasks
  BY DEF Tasks
<1>2. TasksFit(l, v)
  <2>1. \A x, y \in Tasks : v.tasks[x] # Idle /\ v.tasks[y] # Idle => x = y
    OBVIOUS
  <2>2. \A x \in Tasks : v.tasks[x].do = "bind" => v.tasks[x].at \in Ports
    BY IdleIsIdle
  <2> QED BY <1>1, <2>1, <2>2, PluginAssumption DEF TasksFit
<1> QED BY <1>2 DEF ServerFits, ListensAlone

\* To stop a server frees its port and no other, and gives the server a well-formed state.
LEMMA StoppingTypes ==
    ASSUME web \in [Load -> Web], port \in [Ports -> Int],
           NEW i \in Load, NEW t \in Tasks, NEW restart \in BOOLEAN, StopServer(i, t, restart)
    PROVE  /\ web' \in [Load -> Web] /\ port' \in [Ports -> Int]
           /\ \A k \in Load \ {i} : web'[k] = web[k] /\ Own(k)' = Own(k)
<1>1. CASE web[i].api /\ Listening(web[i], i)
  <2> DEFINE h == web[i].handle
             none == 0
             x == [do |-> "closing", at |-> none, restart |-> restart]
             w == [web[i] EXCEPT !.closer = t, !.tasks[t] = x]
  <2>1. port[h] = i /\ port' = [port EXCEPT ![h] = none] /\ web' = [web EXCEPT ![i] = w]
    BY <1>1 DEF StopServer, Listening
  <2>2. none \in Int /\ none \notin Load
    BY DEF Load
  <2> HIDE DEF none
  <2>3. x \in Task
    BY <2>2 DEF Task
  <2> HIDE DEF x, h
  <2>4. w \in Web
    BY <2>3 DEF Web
  <2> HIDE DEF w
  <2>5. \A k \in Load \ {i} : Own(k)' = Own(k)
    BY <2>1, <2>2 DEF Own
  <2> QED BY <2>1, <2>2, <2>4, <2>5
<1>2. CASE ~(web[i].api /\ Listening(web[i], i))
  <2> DEFINE w == IF restart THEN StartServer(i, web[i], t) ELSE [web[i] EXCEPT !.tasks[t] = Idle]
  <2>1. web' = [web EXCEPT ![i] = w] /\ port' = port
    BY <1>2 DEF StopServer
  <2>2. [web[i] EXCEPT !.tasks[t] = Idle] \in Web
    BY IdleIsIdle DEF Web
  <2>3. w \in Web
    BY <2>2, StartingServer
  <2> HIDE DEF w
  <2> QED BY <2>1, <2>3 DEF Own
<1> QED BY <1>1, <1>2

\* The server of a load is stopped, and may start again.
LEMMA StoppingServer ==
    ASSUME ServerInv, NEW i \in Load \ crossed, NEW t \in Tasks, NEW restart \in BOOLEAN,
           NEW l \in Life,
           StopServer(i, t, restart), \A u \in Tasks : web[i].tasks[u] = Idle,
           TasksFit(l, web[i]),
           t = "startup" => l.init = "serving",
           t = "teardown" => l.teardown = "server" /\ ~restart,
           t \in Handlers => ~l.unloading
    PROVE  ServerFits(l, web'[i], Own(i)')
<1>1. web \in [Load -> Web] /\ web[i] \in Web /\ port \in [Ports -> Int]
  BY DEF ServerInv
<1>2. CASE web[i].api /\ Listening(web[i], i)
  <2> DEFINE h == web[i].handle
             none == 0
             x == [do |-> "closing", at |-> none, restart |-> restart]
             w == [web[i] EXCEPT !.closer = t, !.tasks[t] = x]
  <2>1. port[h] = i /\ port' = [port EXCEPT ![h] = none]
    BY <1>2 DEF StopServer, Listening
  <2>2. none \in Int /\ none \notin Load
    BY DEF Load
  <2>3. web' = [web EXCEPT ![i] = w]
    BY <1>1, <1>2 DEF StopServer
  <2> HIDE DEF none
  <2>4. x \in Task /\ x.do = "closing" /\ x.restart = restart
    BY <2>2 DEF Task
  <2> HIDE DEF x, h
  <2>5. /\ w \in Web /\ w.tasks[t] = x /\ w.api = web[i].api
        /\ \A u \in Tasks \ {t} : w.tasks[u] = web[i].tasks[u]
    BY <1>1, <2>4 DEF Web
  <2> HIDE DEF w
  <2>6. ServerFits(l, w, {})
    <3>1. /\ w.api
          /\ w.tasks[t].do = "bind" => w.tasks[t].at \in Ports
          /\ t = "startup" => l.init = "serving"
          /\ t = "teardown" => l.teardown = "server" /\ w.tasks[t].do = "closing"
                               /\ ~w.tasks[t].restart
          /\ t \in Handlers => ~l.unloading
      BY <1>2, <2>4, <2>5
    <3>2. \A u \in Tasks \ {t} : web[i].tasks[u] = Idle /\ w.tasks[u] = Idle
      BY <2>5
    <3> QED BY ONLY <1>1, <2>5, <3>1, <3>2, TasksFit(l, web[i]), l \in Life, t \in Tasks, BecomesBusy
  <2>9. Own(i)' = {}
    <3>1. ASSUME NEW p \in Ports, port'[p] = i PROVE FALSE
      <4>1. p # h /\ port[p] = i
        BY <1>1, <2>1, <2>2, <3>1
      <4>2. web[i].handle = p
        BY <4>1 DEF ServerInv, ServerFits, ListensAlone, Own
      <4> QED BY <4>1, <4>2 DEF h
    <3> QED BY <3>1 DEF Own
  <2> QED BY <1>1, <2>3, <2>6, <2>9
<1>3. CASE ~(web[i].api /\ Listening(web[i], i))
  <2> DEFINE w == IF restart THEN StartServer(i, web[i], t) ELSE [web[i] EXCEPT !.tasks[t] = Idle]
  <2>1. web' = [web EXCEPT ![i] = w] /\ port' = port
    BY <1>1, <1>3 DEF StopServer
  <2>2. Own(i) = {}
    BY <1>3, NotListening
  <2>3. Own(i)' = Own(i)
    BY <2>1 DEF Own
  <2>4. w \in Web /\ ServerFits(l, w, {})
    <3>1. CASE restart
      <4>1. /\ w \in Web /\ w.api = web[i].api /\ \A u \in Tasks \ {t} : w.tasks[u] = web[i].tasks[u]
            /\ \/ w.tasks[t] = Idle
               \/ w.api /\ w.tasks[t].do = "bind" /\ w.tasks[t].at \in Ports
        BY <1>1, <3>1, StartingServer
      <4> HIDE DEF w
      <4>4. t # "teardown" /\ \A u \in Tasks \ {t} : web[i].tasks[u] = Idle /\ w.tasks[u] = Idle
        BY <3>1, <4>1
      <4>5. \/ w.tasks[t] = Idle
            \/ /\ w.api
               /\ w.tasks[t].do = "bind" => w.tasks[t].at \in Ports
               /\ t = "startup" => l.init = "serving"
               /\ t = "teardown" => l.teardown = "server" /\ w.tasks[t].do = "closing"
                                    /\ ~w.tasks[t].restart
               /\ t \in Handlers => ~l.unloading
        BY <4>1, <4>4
      <4> QED BY ONLY <1>1, <4>1, <4>4, <4>5, TasksFit(l, web[i]), l \in Life, t \in Tasks, BecomesBusy
    <3>2. CASE ~restart
      <4>1. w \in Web /\ w.api = web[i].api /\ \A u \in Tasks : w.tasks[u] = Idle
        BY <1>1, <3>2, IdleIsIdle DEF Web
      <4> HIDE DEF w
      <4> QED BY <1>1, <4>1, BecomesBusy
    <3> QED BY <3>1, <3>2
  <2> HIDE DEF w
  <2> QED BY <1>1, <2>1, <2>2, <2>3, <2>4
<1> QED BY <1>2, <1>3

\* A server that is disposed of has no handle and one operation less.
LEMMA DisposedServer ==
    ASSUME NEW w \in Web
    PROVE  /\ DisposeServer(w) \in Web /\ DisposeServer(w).api = w.api
           /\ \A t \in Tasks : w.tasks[t] = Idle => DisposeServer(w).tasks[t] = Idle
<1> DEFINE none == 0
           x == [t \in Tasks |-> IF t = w.closer THEN Idle ELSE w.tasks[t]]
           d == [w EXCEPT !.handle = none, !.closer = "none", !.tasks = x]
<1>1. DisposeServer(w) = d /\ none \in Int
  BY DEF DisposeServer
<1>2. x \in [Tasks -> Task] /\ \A t \in Tasks : w.tasks[t] = Idle => x[t] = Idle
  BY IdleIsIdle DEF Web
<1> HIDE DEF none, x
<1>3. d \in Web /\ d.api = w.api /\ d.tasks = x
  BY <1>1, <1>2 DEF Web
<1> HIDE DEF d
<1> QED BY <1>1, <1>2, <1>3

\* What every load's stages say of its server.
LEMMA LoadFacts ==
    ASSUME IInv, ServerInv, NEW i \in Load
    PROVE  /\ life \in [Load -> Life] /\ life[i] \in Life /\ web[i] \in Web /\ StagesFit(life[i])
           /\ i \notin crossed =>
                ServerFits(life[i], web[i], Own(i)) /\ TasksFit(life[i], web[i])
  BY DEF IInv, LifeInv, Shapes, ServerInv, ServerFits

\* A step of one load's server leaves well-formed servers, and the others alone.
LEMMA ServerTypes ==
    ASSUME IInv, ServerInv, NEW i \in Load,
           \/ \E t \in Handlers : UserServes(i, t)
           \/ \E t \in Tasks : Bind(i, t) \/ Closed(i, t)
           \/ OpenSucceeds(i) \/ TeardownBegins(i) \/ TeardownServerStopped(i) \/ TeardownEnds(i)
    PROVE  /\ web' \in [Load -> Web] /\ port' \in [Ports -> Int]
           /\ crossed' \in {crossed, crossed \cup {i}}
           /\ \A k \in Load \ {i} : life'[k] = life[k] /\ web'[k] = web[k] /\ Own(k)' = Own(k)
<1> DEFINE v == web[i]
           none == 0
           Kept == \A k \in Load \ {i} : web'[k] = web[k] /\ Own(k)' = Own(k)
<1>1. /\ life \in [Load -> Life] /\ v \in Web
      /\ web \in [Load -> Web] /\ port \in [Ports -> Int]
  BY LoadFacts DEF ServerInv
<1>2. /\ crossed' \in {crossed, crossed \cup {i}}
      /\ \A k \in Load \ {i} : life'[k] = life[k]
  BY <1>1 DEF UserServes, Bind, Closed, OpenSucceeds, TeardownBegins, TeardownServerStopped,
              TeardownEnds
<1>3. ASSUME NEW w \in Web, web' = [web EXCEPT ![i] = w], port' = port
      PROVE  web' \in [Load -> Web] /\ port' \in [Ports -> Int] /\ Kept
  BY <1>1, <1>3 DEF Own
<1>4. ASSUME NEW t \in Tasks, NEW restart \in BOOLEAN, StopServer(i, t, restart)
      PROVE  web' \in [Load -> Web] /\ port' \in [Ports -> Int] /\ Kept
  BY <1>1, <1>4, StoppingTypes
<1>5. none \in Int /\ none \notin Load /\ Handlers \subseteq Tasks /\ "teardown" \in Tasks
      /\ "startup" \in Tasks
  BY DEF Load, Tasks
<1> HIDE DEF Kept
<1>6. ASSUME NEW t \in Handlers, UserServes(i, t)
      PROVE  web' \in [Load -> Web] /\ port' \in [Ports -> Int] /\ Kept
  <2>1. CASE StopServer(i, t, TRUE) \/ StopServer(i, t, FALSE)
    BY <1>4, <1>5, <2>1
  <2>2. CASE web' = [web EXCEPT ![i] = StartServer(i, @, t)] /\ UNCHANGED port
    <3>1. StartServer(i, v, t) \in Web
      BY <1>1, <1>5, StartingServer
    <3>2. web' = [web EXCEPT ![i] = StartServer(i, v, t)]
      BY <1>1, <2>2
    <3> QED BY <1>3, <2>2, <3>1, <3>2
  <2> QED BY <1>6, <2>1, <2>2 DEF UserServes
<1>7. ASSUME NEW t \in Tasks, Bind(i, t)
      PROVE  web' \in [Load -> Web] /\ port' \in [Ports -> Int] /\ Kept
  <2> DEFINE task == v.tasks[t]
             h == task.at
             n == h + 1
             next == [task EXCEPT !.at = n]
             x == IF n > LastPort THEN Idle ELSE next
             a == [v EXCEPT !.handle = h, !.closer = "none", !.tasks[t] = Idle]
             b == [v EXCEPT !.handle = none, !.closer = "none", !.tasks[t] = x]
  <2>1. task \in Task /\ h \in Int /\ n \in Int
    BY <1>1 DEF Web, Task
  <2>2. CASE port[h] = none
    <3>1. port' = [port EXCEPT ![h] = i] /\ web' = [web EXCEPT ![i] = a]
      BY <1>1, <1>7, <2>2 DEF Bind
    <3>2. a \in Web
      <4> HIDE DEF h
      <4> QED BY <1>1, <2>1, IdleIsIdle DEF Web
    <3>3. i \in Int
      BY DEF Load
    <3> HIDE DEF a, h, v, none
    <3>4. \A k \in Load \ {i} : Own(k)' = Own(k)
      BY <1>1, <1>5, <2>2, <3>1 DEF Own
    <3> QED BY <1>1, <3>1, <3>2, <3>3, <3>4 DEF Kept
  <2>3. CASE port[h] # none
    <3>1. next.at = n
      <4> HIDE DEF n
      <4> QED BY <2>1 DEF Task
    <3>2. port' = port /\ web' = [web EXCEPT ![i] = b]
      <4>1. x = IF next.at > LastPort THEN Idle ELSE next
        BY <3>1
      <4>2. next = [task EXCEPT !.at = @ + 1]
        OBVIOUS
      <4> HIDE DEF x, next
      <4> QED BY <1>1, <1>7, <2>3, <4>1, <4>2 DEF Bind
    <3>3. x \in Task
      <4> HIDE DEF n, task
      <4> QED BY <2>1, IdleIsIdle DEF Task
    <3>4. b \in Web
      <4> HIDE DEF x, none
      <4> QED BY <1>1, <1>5, <3>3 DEF Web
    <3> HIDE DEF b
    <3> QED BY <1>3, <3>2, <3>4
  <2> QED BY <2>2, <2>3
<1>8. ASSUME NEW t \in Tasks, Closed(i, t)
      PROVE  web' \in [Load -> Web] /\ port' \in [Ports -> Int] /\ Kept
  <2> DEFINE a == [v EXCEPT !.handle = none, !.closer = "none", !.tasks[t] = Idle]
             w == IF v.tasks[t].restart THEN StartServer(i, a, t) ELSE a
  <2>1. port' = port /\ web' = [web EXCEPT ![i] = w]
    BY <1>1, <1>8 DEF Closed
  <2> HIDE DEF none
  <2>2. a \in Web
    BY <1>1, <1>5, IdleIsIdle DEF Web
  <2> HIDE DEF a
  <2>3. w \in Web
    BY <2>2, StartingServer
  <2> HIDE DEF w
  <2> QED BY <1>3, <2>1, <2>3
<1>9. ASSUME OpenSucceeds(i)
      PROVE  web' \in [Load -> Web] /\ port' \in [Ports -> Int] /\ Kept
  <2> DEFINE o == [v EXCEPT !.api = TRUE]
  <2>1. /\ port' = port
        /\ \/ web' = [web EXCEPT ![i] = v] \/ web' = [web EXCEPT ![i] = o]
           \/ web' = [web EXCEPT ![i] = StartServer(i, o, "startup")]
    BY <1>1, <1>9 DEF OpenSucceeds
  <2>2. o \in Web
    BY <1>1 DEF Web
  <2> HIDE DEF o
  <2>3. StartServer(i, o, "startup") \in Web
    BY <1>5, <2>2, StartingServer
  <2> QED BY <1>1, <1>3, <2>1, <2>2, <2>3
<1>10. ASSUME TeardownServerStopped(i) \/ TeardownEnds(i)
       PROVE  web' \in [Load -> Web] /\ port' \in [Ports -> Int] /\ Kept
  <2> DEFINE d == DisposeServer(v)
             e == [v EXCEPT !.api = FALSE]
  <2>1. port' = port /\ (web' = [web EXCEPT ![i] = d] \/ web' = [web EXCEPT ![i] = e])
    BY <1>1, <1>10 DEF TeardownServerStopped, TeardownEnds
  <2>2. d \in Web
    BY <1>1, DisposedServer
  <2>3. e \in Web
    BY <1>1 DEF Web
  <2> HIDE DEF d, e
  <2> QED BY <1>3, <2>1, <2>2, <2>3
<1>11. ASSUME TeardownBegins(i)
       PROVE  web' \in [Load -> Web] /\ port' \in [Ports -> Int] /\ Kept
  BY <1>4, <1>5, <1>11 DEF TeardownBegins
<1> QED BY <1>2, <1>6, <1>7, <1>8, <1>9, <1>10, <1>11 DEF Kept

\* The user's operations.
LEMMA Serving ==
    ASSUME IInv, ServerInv, NEW i \in Load, NEW t \in Handlers, UserServes(i, t)
    PROVE  ServerInv'
<1>1. life' = life /\ ~life[i].unloading
  BY DEF UserServes
<1>2. t \in Tasks /\ t # "startup" /\ t # "teardown"
  BY PluginAssumption DEF Tasks
<1>3. ASSUME i \notin crossed' PROVE ServerFits(life'[i], web'[i], Own(i)')
  <2>1. i \notin crossed /\ \A u \in Tasks : web[i].tasks[u] = Idle
    BY <1>3 DEF UserServes
  <2>2. web[i] \in Web /\ TasksFit(life[i], web[i]) /\ life[i] \in Life
    BY <2>1, LoadFacts
  <2>3. CASE \E restart \in BOOLEAN : StopServer(i, t, restart)
    BY <1>1, <1>2, <2>1, <2>2, <2>3, StoppingServer
  <2>4. CASE ~Listening(web[i], i) /\ port' = port /\ web' = [web EXCEPT ![i] = StartServer(i, @, t)]
    <3> DEFINE w == StartServer(i, web[i], t)
    <3>1. /\ w \in Web /\ w.api = web[i].api /\ \A u \in Tasks \ {t} : w.tasks[u] = web[i].tasks[u]
          /\ \/ w.tasks[t] = Idle
             \/ w.api /\ w.tasks[t].do = "bind" /\ w.tasks[t].at \in Ports
      BY <1>2, <2>2, StartingServer
    <3>2. web'[i] = w
      BY <2>4 DEF ServerInv
    <3> HIDE DEF w
    <3>3. \A u \in Tasks \ {t} : web[i].tasks[u] = Idle /\ w.tasks[u] = Idle
      BY <2>1, <3>1
    <3>4. ServerFits(life[i], w, {})
      BY ONLY <1>1, <1>2, <2>2, <3>1, <3>3, BecomesBusy
    <3>5. Own(i)' = {}
      BY <2>1, <2>4, NotListening DEF Own
    <3> QED BY <1>1, <3>2, <3>4, <3>5
  <2> QED BY <2>3, <2>4 DEF UserServes
<1> QED BY <1>3, ServerTypes, OneServes

\* The server listens, or the port is taken.
LEMMA Binding ==
    ASSUME IInv, ServerInv, NEW i \in Load, NEW t \in Tasks, Bind(i, t)
    PROVE  ServerInv'
<1> DEFINE task == web[i].tasks[t]
           l == life[i]
<1>1. life' = life /\ crossed' = crossed /\ web[i] \in Web /\ web \in [Load -> Web]
      /\ port \in [Ports -> Int]
  BY LoadFacts DEF Bind, ServerInv
<1>2. ASSUME i \notin crossed PROVE ServerFits(l, web'[i], Own(i)')
  <2>1. /\ task # Idle /\ task.do = "bind" /\ task.at \in Ports /\ task \in Task
        /\ Own(i) = {} /\ \A u \in Tasks \ {t} : web[i].tasks[u] = Idle
        /\ TasksFit(l, web[i]) /\ l \in Life /\ StagesFit(l)
    BY <1>2, IdleIsIdle, LoadFacts, NobodyListens DEF Bind, TasksFit, Web
  <2>2. /\ t = "startup" => l.init = "serving"
        /\ t # "teardown" /\ web[i].api
        /\ t \in Handlers => ~l.unloading /\ l.init \in {"serving", "ready"}
    BY <2>1 DEF TasksFit
  <2>3. CASE port[task.at] = 0
    <3> DEFINE h == task.at
               w == [web[i] EXCEPT !.handle = h, !.closer = "none", !.tasks[t] = Idle]
    <3>1. port' = [port EXCEPT ![h] = i] /\ web'[i] = w
      BY <1>1, <2>3 DEF Bind
    <3>2. h \in Ports /\ h \in Int /\ i \in Int
      BY <2>1 DEF Ports, Load
    <3> HIDE DEF h
    <3>3. /\ w \in Web /\ w.handle = h /\ w.api = web[i].api
          /\ \A u \in Tasks : w.tasks[u] = Idle
      BY <1>1, <2>1, <3>2, IdleIsIdle DEF Web
    <3> HIDE DEF w
    <3>4. Own(i)' = {h}
      BY <1>1, <2>1, <3>1, <3>2 DEF Own
    <3>5. ListensAlone(l, w, {h})
      BY <2>1, <2>2, <3>3 DEF ListensAlone, StagesFit, PendingStages, InitStages, Tasks
    <3>6. TasksFit(l, w)
      BY <2>1, <3>3, IdleIsIdle DEF TasksFit, Tasks
    <3> QED BY <3>1, <3>4, <3>5, <3>6 DEF ServerFits
  <2>4. CASE port[task.at] # 0
    <3> DEFINE none == 0
               next == [task EXCEPT !.at = @ + 1]
               x == IF next.at > LastPort THEN Idle ELSE next
               w == [web[i] EXCEPT !.handle = none, !.closer = "none", !.tasks[t] = x]
    <3>1. port' = port /\ web'[i] = w
      BY <1>1, <2>4 DEF Bind
    <3>2. x \in Task /\ (x = Idle \/ (x.do = "bind" /\ x.at \in Ports)) /\ none \in Int
      <4>1. task \in Task /\ task.at \in 1..LastPort /\ LastPort \in Nat
        BY <2>1, PluginAssumption DEF Ports
      <4> HIDE DEF task
      <4>2. next \in Task /\ next.do = task.do /\ next.at = task.at + 1
        BY <4>1 DEF Task
      <4>3. next.at > LastPort \/ next.at \in Ports
        BY <4>1, <4>2 DEF Ports
      <4> HIDE DEF next
      <4> QED BY <2>1, <4>1, <4>2, <4>3, IdleIsIdle
    <3> HIDE DEF x, none
    <3>3. /\ w \in Web /\ w.tasks[t] = x /\ w.api = web[i].api
          /\ \A u \in Tasks \ {t} : w.tasks[u] = web[i].tasks[u]
      BY <1>1, <3>2 DEF Web
    <3> HIDE DEF w, task
    <3>4. ServerFits(l, w, {})
      <4>1. \A u \in Tasks \ {t} : web[i].tasks[u] = Idle /\ w.tasks[u] = Idle
        BY <2>1, <3>3
      <4>2. \/ w.tasks[t] = Idle
            \/ /\ w.api
               /\ w.tasks[t].do = "bind" => w.tasks[t].at \in Ports
               /\ t = "startup" => l.init = "serving"
               /\ t = "teardown" => l.teardown = "server" /\ w.tasks[t].do = "closing"
                                    /\ ~w.tasks[t].restart
               /\ t \in Handlers => ~l.unloading
        BY <2>2, <3>2, <3>3
      <4> QED BY ONLY <1>1, <2>1, <3>3, <4>1, <4>2, t \in Tasks, BecomesBusy
    <3>5. Own(i)' = {}
      BY <2>1, <3>1 DEF Own
    <3> QED BY <3>1, <3>4, <3>5
  <2> QED BY <2>3, <2>4
<1> QED BY <1>1, <1>2, ServerTypes, OneServes

\* The server has closed, and may start again.
LEMMA ServerCloses ==
    ASSUME IInv, ServerInv, NEW i \in Load, NEW t \in Tasks, Closed(i, t)
    PROVE  ServerInv'
<1> DEFINE task == web[i].tasks[t]
           none == 0
           v == [web[i] EXCEPT !.handle = none, !.closer = "none", !.tasks[t] = Idle]
           w == IF task.restart THEN StartServer(i, v, t) ELSE v
<1>1. life' = life /\ crossed' = crossed /\ web[i] \in Web /\ web'[i] = w /\ port' = port
  BY LoadFacts DEF Closed, ServerInv
<1>2. none \in Int
  OBVIOUS
<1> HIDE DEF none
<1>3. v \in Web /\ v.api = web[i].api
  BY <1>1, <1>2, IdleIsIdle DEF Web
<1>4. v.tasks = [web[i].tasks EXCEPT ![t] = Idle]
  BY <1>1, <1>2 DEF Web
<1> HIDE DEF v
<1>5. ASSUME i \notin crossed PROVE ServerFits(life[i], w, Own(i)')
  <2>1. /\ task # Idle /\ task.do = "closing"
        /\ Own(i) = {} /\ \A u \in Tasks \ {t} : web[i].tasks[u] = Idle
        /\ life[i] \in Life /\ TasksFit(life[i], web[i])
    BY <1>5, IdleIsIdle, LoadFacts, NobodyListens DEF Closed, TasksFit
  <2>2. \A u \in Tasks : v.tasks[u] = Idle
    BY <1>1, <1>4, <2>1 DEF Web
  <2>3. Own(i)' = {}
    BY <1>1, <2>1 DEF Own
  <2>4. CASE ~task.restart
    <3>1. w = v
      BY <2>4
    <3> HIDE DEF w, task
    <3> QED BY ONLY <1>1, <1>3, <2>1, <2>2, <2>3, <3>1, t \in Tasks, BecomesBusy
  <2>5. CASE task.restart
    <3>1. /\ w \in Web /\ w.api = v.api /\ \A u \in Tasks \ {t} : w.tasks[u] = v.tasks[u]
          /\ \/ w.tasks[t] = Idle
             \/ w.api /\ w.tasks[t].do = "bind" /\ w.tasks[t].at \in Ports
      BY <1>3, <2>5, StartingServer
    <3>2. /\ t = "startup" => life[i].init = "serving"
          /\ t # "teardown"
          /\ t \in Handlers => ~life[i].unloading
      BY <2>1, <2>5 DEF TasksFit
    <3> HIDE DEF w, task
    <3>3. \A u \in Tasks \ {t} : web[i].tasks[u] = Idle /\ w.tasks[u] = Idle
      BY <2>1, <2>2, <3>1
    <3> QED BY ONLY <1>1, <1>3, <2>1, <2>3, <3>1, <3>2, <3>3, t \in Tasks, BecomesBusy
  <2> QED BY <2>4, <2>5
<1> HIDE DEF w, task
<1> QED BY <1>1, <1>5, ServerTypes, OneServes

\* The store is open: the server of the load starts with it, or not at all.
LEMMA ServerWithStore ==
    ASSUME IInv, IInv', ServerInv, NEW i \in Load, OpenSucceeds(i)
    PROVE  ServerInv'
<1> DEFINE l == life[i]
           o == [web[i] EXCEPT !.api = TRUE]
<1>1. /\ life \in [Load -> Life] /\ life[i] \in Life /\ web[i] \in Web /\ web \in [Load -> Web]
      /\ life' \in [Load -> Life] /\ life'[i] \in Life
      /\ life[i].init \in {"opening", "fallback"} /\ life[i].teardown \in {"none", "waits"}
      /\ port' = port /\ crossed' = crossed
  BY DEF OpenSucceeds, IInv, LifeInv, Shapes, ServerInv, StagesFit, PendingStages, InitStages
<1>2. CASE web' = web /\ life' = [life EXCEPT ![i].init = "late"]
  <2> DEFINE m == [life[i] EXCEPT !.init = "late"]
  <2>1. life' = [life EXCEPT ![i] = m]
    BY <1>1, <1>2
  <2>2. m \in Life /\ m.unloading = life[i].unloading /\ m.teardown = life[i].teardown
    BY <1>1 DEF Life, InitStages
  <2>3. Unnoticed(life[i], m, web[i], Own(i))
    BY <1>1, <2>2 DEF Unnoticed
  <2> HIDE DEF m
  <2> QED BY <1>1, <1>2, <2>1, <2>2, <2>3, OneLives
<1>3. ASSUME i \notin crossed, web'[i] \in {o, StartServer(i, o, "startup")},
             life'[i].init \in {"serving", "ready"},
             web'[i] = o \/ life'[i].init = "serving"
      PROVE  ServerFits(life'[i], web'[i], Own(i)')
  <2>1. Own(i) = {} /\ \A t \in Tasks : web[i].tasks[t] = Idle
    BY <1>1, <1>3, LoadFacts DEF ServerFits, ListensAlone, TasksFit, Tasks
  <2>2. o \in Web /\ \A t \in Tasks : o.tasks[t] = Idle
    BY <1>1, <2>1 DEF Web
  <2> HIDE DEF o
  <2>3. Own(i)' = {}
    BY <1>1, <2>1 DEF Own
  <2>4. TasksFit(life'[i], o)
    BY <1>3, <2>2, IdleIsIdle DEF TasksFit, Tasks
  <2>5. CASE web'[i] = o
    BY <2>3, <2>4, <2>5 DEF ServerFits, ListensAlone
  <2>6. CASE web'[i] = StartServer(i, o, "startup") /\ life'[i].init = "serving"
    <3> DEFINE w == StartServer(i, o, "startup")
    <3>1. "startup" \in Tasks /\ "startup" \notin Handlers
      BY PluginAssumption DEF Tasks
    <3>2. /\ w \in Web /\ w.api = o.api /\ \A u \in Tasks \ {"startup"} : w.tasks[u] = o.tasks[u]
          /\ \/ w.tasks["startup"] = Idle
             \/ w.api /\ w.tasks["startup"].do = "bind" /\ w.tasks["startup"].at \in Ports
      BY <2>2, <3>1, StartingServer
    <3> HIDE DEF w
    <3>3. ServerFits(life'[i], w, {})
      BY ONLY <1>1, <2>2, <2>4, <2>6, <3>1, <3>2, BecomesBusy
    <3> QED BY <2>3, <2>6, <3>3 DEF w
  <2> QED BY <1>3, <2>5, <2>6
<1>4. \/ web' = web /\ life' = [life EXCEPT ![i].init = "late"]
      \/ /\ web'[i] \in {o, StartServer(i, o, "startup")}
         /\ life'[i].init \in {"serving", "ready"}
         /\ web'[i] = o \/ life'[i].init = "serving"
  <2> DEFINE a == [l EXCEPT !.store = TRUE]
             b == [a EXCEPT !.init = "serving"]
             c == [a EXCEPT !.init = "ready"]
  <2>1. \/ web' = web /\ life' = [life EXCEPT ![i].init = "late"]
        \/ web' = [web EXCEPT ![i] = o] /\ life' = [life EXCEPT ![i] = c]
        \/ web' = [web EXCEPT ![i] = StartServer(i, o, "startup")] /\ life' = [life EXCEPT ![i] = b]
    BY DEF OpenSucceeds
  <2>2. b.init = "serving" /\ c.init = "ready"
    BY <1>1 DEF Life
  <2> HIDE DEF b, c, o
  <2> QED BY <1>1, <2>1, <2>2
<1> HIDE DEF o
<1>5. CASE web'[i] \in {o, StartServer(i, o, "startup")}
           /\ life'[i].init \in {"serving", "ready"}
           /\ (web'[i] = o \/ life'[i].init = "serving")
  BY <1>1, <1>3, <1>5, ServerTypes, OneServes
<1> QED BY <1>2, <1>4, <1>5

\* The teardown stops the server, drops its handle, and ends.
LEMMA ServerTakenDown ==
    ASSUME IInv, IInv', ServerInv, NEW i \in Load,
           TeardownBegins(i) \/ TeardownServerStopped(i) \/ TeardownEnds(i)
    PROVE  ServerInv'
<1>1. /\ life \in [Load -> Life] /\ life[i] \in Life /\ web[i] \in Web /\ life'[i] \in Life
      /\ life' \in [Load -> Life] /\ StagesFit(life[i])
      /\ web \in [Load -> Web] /\ port \in [Ports -> Int] /\ crossed' = crossed
  BY LoadFacts DEF IInv, LifeInv, Shapes, ServerInv, TeardownBegins, TeardownServerStopped,
                   TeardownEnds
<1>2. "teardown" \in Tasks /\ "teardown" \notin Handlers /\ "startup" # "teardown"
  BY PluginAssumption DEF Tasks
<1>3. /\ life[i].unloading /\ life[i].init \notin PendingStages
      /\ life'[i].init = life[i].init /\ life'[i].unloading = life[i].unloading
  <2>1. /\ life[i].unloading /\ life[i].init \notin PendingStages
    BY <1>1 DEF TeardownBegins, InitializationOver, TeardownServerStopped, TeardownEnds, StagesFit
  <2>2. ASSUME NEW x, life' = [life EXCEPT ![i].teardown = x]
        PROVE  /\ life'[i].init = life[i].init /\ life'[i].unloading = life[i].unloading
    BY <1>1, <2>2 DEF Life
  <2>3. ASSUME NEW x, NEW y, life' = [life EXCEPT ![i].teardown = x, ![i].store = y]
        PROVE  /\ life'[i].init = life[i].init /\ life'[i].unloading = life[i].unloading
    BY <1>1, <2>3 DEF Life
  <2>4. \/ \E x : life' = [life EXCEPT ![i].teardown = x]
        \/ \E x, y : life' = [life EXCEPT ![i].teardown = x, ![i].store = y]
    BY Zenon DEF TeardownBegins, TeardownServerStopped, TeardownEnds
  <2> QED BY <2>1, <2>2, <2>3, <2>4
<1>4. ASSUME i \notin crossed PROVE ServerFits(life'[i], web'[i], Own(i)')
  <2>1. TasksFit(life[i], web[i]) /\ ServerFits(life[i], web[i], Own(i))
    BY <1>4, LoadFacts
  <2>2. \A t \in Tasks \ {"teardown"} : web[i].tasks[t] = Idle
    BY <1>3, <2>1 DEF TasksFit, PendingStages, InitStages, Tasks
  <2>3. CASE TeardownBegins(i)
    <3>1. life'[i].teardown = "server" /\ life[i].teardown = "waits" /\ StopServer(i, "teardown", FALSE)
      BY <1>1, <2>3 DEF TeardownBegins, Life
    <3>2. \A t \in Tasks : web[i].tasks[t] = Idle
      BY <2>1, <2>2, <3>1 DEF TasksFit
    <3>3. TasksFit(life'[i], web[i])
      BY <1>3, <3>2, IdleIsIdle DEF TasksFit, Tasks
    <3> QED BY <1>1, <1>2, <1>4, <3>1, <3>2, <3>3, StoppingServer
  <2>4. CASE TeardownServerStopped(i) \/ TeardownEnds(i)
    <3>1. /\ life[i].teardown \notin {"none", "waits"} /\ port' = port
          /\ life[i].teardown = "server" => web[i].tasks["teardown"] = Idle
      BY <2>4 DEF TeardownServerStopped, TeardownEnds
    <3>2. Own(i) = {} /\ \A t \in Tasks : web[i].tasks[t] = Idle
      BY <2>1, <2>2, <3>1 DEF ServerFits, ListensAlone, TasksFit
    <3>3. \A t \in Tasks : web'[i].tasks[t] = Idle
      <4> DEFINE d == DisposeServer(web[i])
                 e == [web[i] EXCEPT !.api = FALSE]
      <4>1. web'[i] = d \/ web'[i] = e
        BY <1>1, <2>4 DEF TeardownServerStopped, TeardownEnds
      <4>2. \A t \in Tasks : d.tasks[t] = Idle
        BY <1>1, <3>2, DisposedServer
      <4>3. \A t \in Tasks : e.tasks[t] = Idle
        BY <1>1, <3>2 DEF Web
      <4> HIDE DEF d, e
      <4> QED BY <4>1, <4>2, <4>3
    <3>4. TasksFit(life'[i], web'[i])
      BY <1>3, <3>3, IdleIsIdle DEF TasksFit, Tasks
    <3>5. Own(i)' = {}
      BY <3>1, <3>2 DEF Own
    <3> QED BY <3>4, <3>5 DEF ServerFits, ListensAlone
  <2> QED BY <2>3, <2>4
<1> QED BY <1>1, <1>4, ServerTypes, OneServes

\* The other steps of a load leave its server alone.
LEMMA ServerStays ==
    ASSUME IInv, IInv', ServerInv, NEW i \in Load,
           \/ Onload(i) \/ Onunload(i) \/ WaitForPreviousTeardown(i) \/ LoadSettings(i)
           \/ OpenFails(i) \/ RetryOpen(i) \/ CloseLate(i) \/ ServerStarted(i)
           \/ TeardownStoreCloses(i)
    PROVE  ServerInv'
<1> DEFINE m == life'[i]
           l == life[i]
<1>1. /\ life \in [Load -> Life] /\ l \in Life /\ web[i] \in Web /\ m \in Life
      /\ life' \in [Load -> Life] /\ StagesFit(l)
      /\ i \notin crossed => TasksFit(l, web[i]) /\ ServerFits(l, web[i], Own(i))
      /\ web \in [Load -> Web] /\ port \in [Ports -> Int]
  BY LoadFacts DEF IInv, LifeInv, Shapes, ServerInv
<1>2. UNCHANGED <<web, port>> /\ crossed' \in {crossed, crossed \cup {i}}
  BY DEF Onload, Onunload, WaitForPreviousTeardown, LoadSettings, OpenFails, RetryOpen,
         CloseLate, ServerStarted, TeardownStoreCloses
<1>3. ASSUME NEW x \in Life, life' = [life EXCEPT ![i] = x],
             i \notin crossed' => Unnoticed(l, x, web[i], Own(i))
      PROVE  ServerInv'
  BY <1>1, <1>2, <1>3, OneLives
<1>4. m \in Life => life' = [life EXCEPT ![i] = m]
  BY <1>1 DEF Onload, Onunload, WaitForPreviousTeardown, LoadSettings, OpenFails, RetryOpen,
              CloseLate, ServerStarted, TeardownStoreCloses
<1>5. CASE Onload(i) \/ WaitForPreviousTeardown(i) \/ LoadSettings(i) \/ OpenFails(i)
           \/ RetryOpen(i) \/ CloseLate(i)
  <2>1. l.init \notin {"serving", "ready", "left"}
    BY <1>1, <1>5 DEF Onload, WaitForPreviousTeardown, LoadSettings, OpenFails, RetryOpen,
                      CloseLate, StagesFit
  <2>2. m.unloading = l.unloading /\ m.teardown = l.teardown
    <3>1. CASE Onload(i)
      <4>1. m = [l EXCEPT !.loaded = TRUE]
            \/ m = StartRuntimeInitialization([l EXCEPT !.loaded = TRUE])
        BY <1>1, <3>1 DEF Onload
      <4> HIDE DEF l, m
      <4> QED BY <1>1, <4>1 DEF StartRuntimeInitialization, Life
    <3>2. CASE OpenFails(i)
      <4>1. m = AfterFailure(l)
        BY <1>1, <3>2 DEF OpenFails
      <4> HIDE DEF l, m
      <4> QED BY <1>1, <4>1 DEF AfterFailure, Life
    <3>3. CASE WaitForPreviousTeardown(i)
      <4>1. m = [l EXCEPT !.init = IF l.unloading THEN "left" ELSE "settings"]
        BY <1>1, <3>3 DEF WaitForPreviousTeardown
      <4> HIDE DEF l, m
      <4> QED BY <1>1, <4>1 DEF Life
    <3>4. CASE LoadSettings(i)
      <4>1. m = [l EXCEPT !.init = IF l.unloading THEN "left" ELSE "opening", !.attempt = 1]
        BY <1>1, <3>4 DEF LoadSettings
      <4> HIDE DEF l, m
      <4> QED BY <1>1, <4>1 DEF Life
    <3>5. CASE RetryOpen(i)
      <4>1. m = [l EXCEPT !.init = "opening", !.attempt = @ + 1]
        BY <1>1, <3>5 DEF RetryOpen
      <4> HIDE DEF l, m
      <4> QED BY <1>1, <4>1 DEF Life
    <3>6. CASE CloseLate(i)
      <4>1. m = [l EXCEPT !.init = "left"]
        BY <1>1, <3>6 DEF CloseLate
      <4> HIDE DEF l, m
      <4> QED BY <1>1, <4>1 DEF Life
    <3> QED BY <1>5, <3>1, <3>2, <3>3, <3>4, <3>5, <3>6
  <2> HIDE DEF l, m
  <2>3. Unnoticed(l, m, web[i], Own(i))
    BY <2>1, <2>2 DEF Unnoticed
  <2> QED BY <1>1, <1>3, <1>4, <2>3
<1>6. CASE ServerStarted(i)
  <2>1. /\ (m = [l EXCEPT !.init = "left"] /\ l.unloading) \/ m = [l EXCEPT !.init = "ready"]
        /\ l.init = "serving" /\ web[i].tasks["startup"] = Idle
    BY <1>1, <1>6 DEF ServerStarted
  <2> HIDE DEF l, m
  <2>2. /\ m.unloading = l.unloading /\ m.teardown = l.teardown
        /\ m.init = "ready" \/ (m.init = "left" /\ m.unloading)
    BY <1>1, <2>1 DEF Life
  <2>3. Unnoticed(l, m, web[i], Own(i))
    BY <2>1, <2>2 DEF Unnoticed
  <2> QED BY <1>1, <1>3, <1>4, <2>3
<1>7. CASE Onunload(i)
  <2>1. /\ m = [l EXCEPT !.unloading = TRUE, !.teardown = "waits"] /\ ~l.unloading
        /\ i \notin crossed' => i \notin crossed /\ \A t \in Handlers : web[i].tasks[t] = Idle
    BY <1>1, <1>7 DEF Onunload
  <2>2. i \notin crossed => web[i].tasks["teardown"] = Idle
    BY <1>1, <2>1 DEF StagesFit, TasksFit
  <2> HIDE DEF l, m
  <2>3. m.init = l.init /\ m.teardown = "waits" /\ m.unloading
    BY <1>1, <2>1 DEF Life
  <2>4. i \notin crossed' => Unnoticed(l, m, web[i], Own(i))
    BY <2>1, <2>2, <2>3 DEF Unnoticed
  <2> QED BY <1>1, <1>3, <1>4, <2>4
<1>8. CASE TeardownStoreCloses(i)
  <2>1. m = [l EXCEPT !.teardown = "settles"] /\ l.teardown = "close"
    BY <1>1, <1>8 DEF TeardownStoreCloses
  <2>2. crossed' = crossed /\ (i \notin crossed => web[i].tasks["teardown"] = Idle /\ Own(i) = {})
    BY <1>1, <1>8, <2>1 DEF TasksFit, ServerFits, ListensAlone, TeardownStoreCloses
  <2> HIDE DEF l, m
  <2>3. m.init = l.init /\ m.unloading = l.unloading
    BY <1>1, <2>1 DEF Life
  <2>4. i \notin crossed' => Unnoticed(l, m, web[i], Own(i))
    BY <2>2, <2>3 DEF Unnoticed
  <2> QED BY <1>1, <1>3, <1>4, <2>4
<1> QED BY <1>5, <1>6, <1>7, <1>8

\* The layout is ready: no load serves yet.
LEMMA ServerBeforeLayout ==
    ASSUME IInv, IInv', ServerInv, LayoutReady
    PROVE  ServerInv'
<1>1. web \in [Load -> Web] /\ port \in [Ports -> Int] /\ UNCHANGED <<web, port, crossed>>
      /\ crossed \subseteq Load
  BY DEF LayoutReady, ServerInv
<1>2. ASSUME NEW k \in Load \ crossed PROVE ServerFits(life'[k], web[k], Own(k))
  <2> DEFINE l == life[k]
             m == life'[k]
  <2>1. /\ life \in [Load -> Life] /\ l \in Life /\ web[k] \in Web /\ m \in Life
        /\ ServerFits(l, web[k], Own(k)) /\ l.init = "idle"
    BY LoadFacts DEF IInv, LifeInv, Shapes, InTurn, LayoutReady
  <2>2. m = l \/ m = [l EXCEPT !.init = "waits", !.waits = tracked]
    BY DEF LayoutReady, StartRuntimeInitialization
  <2> HIDE DEF l, m
  <2>3. m.unloading = l.unloading /\ m.teardown = l.teardown
    BY <2>1, <2>2 DEF Life
  <2>4. m.init = l.init \/ l.init \notin {"serving", "ready", "left"}
    BY <2>1
  <2>5. ServerFits(m, web[k], Own(k))
    BY <2>1, <2>3, <2>4, LivesOn DEF Unnoticed
  <2> QED BY <2>5 DEF m
<1>3. \A k \in Load : Own(k)' = Own(k)
  BY <1>1 DEF Own
<1> QED BY <1>1, <1>2, <1>3 DEF ServerInv

\* No load serves at the start.
LEMMA ServerInvInit == Init => ServerInv
<1> SUFFICES ASSUME Init PROVE ServerInv
  OBVIOUS
<1> DEFINE none == 0
           w == [api |-> FALSE, handle |-> none, closer |-> "none", tasks |-> [t \in Tasks |-> Idle]]
<1>1. none \in Int
  OBVIOUS
<1>2. web = [i \in Load |-> w] /\ port \in [Ports -> {0, Other}] /\ crossed = {}
  BY DEF Init
<1> HIDE DEF none
<1>3. w \in Web /\ w.tasks = [t \in Tasks |-> Idle] /\ ~w.api
  BY <1>1, IdleIsIdle DEF Web
<1> HIDE DEF w
<1>4. port \in [Ports -> Int] /\ \A i \in Load : Own(i) = {}
  BY <1>2 DEF Own, Other, Load
<1>5. \A i \in Load : ServerFits(life[i], web[i], Own(i))
  BY <1>2, <1>3, <1>4, IdleIsIdle DEF ServerFits, ListensAlone, TasksFit, Tasks
<1> QED BY <1>2, <1>3, <1>4, <1>5 DEF ServerInv

\* Every step keeps the servers fitting.
LEMMA StepServerInv ==
    ASSUME IInv, IInv', ServerInv, [Next]_vars
    PROVE  ServerInv'
<1>1. CASE UNCHANGED <<life, web, port, crossed>>
  BY <1>1 DEF ServerInv, Own
<1>2. CASE LayoutReady
  BY <1>2, ServerBeforeLayout
<1>3. ASSUME NEW i \in Load,
             \/ Onload(i) \/ Onunload(i) \/ WaitForPreviousTeardown(i) \/ LoadSettings(i)
             \/ OpenFails(i) \/ RetryOpen(i) \/ CloseLate(i) \/ ServerStarted(i)
             \/ TeardownStoreCloses(i)
      PROVE  ServerInv'
  BY <1>3, ServerStays
<1>4. ASSUME NEW i \in Load,
             TeardownBegins(i) \/ TeardownServerStopped(i) \/ TeardownEnds(i)
      PROVE  ServerInv'
  BY <1>4, ServerTakenDown
<1>5. ASSUME NEW i \in Load, OpenSucceeds(i) PROVE ServerInv'
  BY <1>5, ServerWithStore
<1>6. ASSUME NEW i \in Load, NEW t \in Handlers, UserServes(i, t) PROVE ServerInv'
  BY <1>6, Serving
<1>7. ASSUME NEW i \in Load, NEW t \in Tasks, Bind(i, t) \/ Closed(i, t) PROVE ServerInv'
  BY <1>7, Binding, ServerCloses
<1>8. ASSUME NEW i \in Load,
             \/ Ingest(i) \/ CompactionTimer(i) \/ RetentionTimer(i) \/ CheckStoreSize(i)
             \/ StoreSizeKnown(i) \/ CompactionBatch(i) \/ CompactionPause(i)
             \/ \E s \in Slots : RetentionCall(i, s) \/ RetentionPause(i, s)
      PROVE  UNCHANGED <<life, web, port, crossed>>
  BY <1>8 DEF Ingest, CompactionTimer, RetentionTimer, CheckStoreSize, StoreSizeKnown,
              CompactionBatch, CompactionPause, RetentionCall, RetentionPause
<1>9. CASE Finished \/ UNCHANGED vars
  BY <1>1, <1>9 DEF Finished, vars
<1> QED BY <1>1, <1>2, <1>3, <1>4, <1>5, <1>6, <1>7, <1>8, <1>9 DEF Next

\* A teardown leaves its first two stages by its own first step only.
LEMMA TeardownFrom ==
    ASSUME IInv, IInv', [Next]_vars, NEW k \in Load, life[k].teardown \in {"none", "waits"},
           life'[k].teardown \notin {"none", "waits"}
    PROVE  TeardownBegins(k)
<1>1. /\ life \in [Load -> Life] /\ life[k] \in Life
  BY DEF IInv, LifeInv, Shapes
<1>2. CASE life' = life
  BY <1>2
<1>3. ASSUME NEW i \in Load, NEW l, life' = [life EXCEPT ![i] = l],
             i = k => l.teardown \in {life[k].teardown, "waits"}
      PROVE  FALSE
  BY <1>1, <1>3
<1>4. ASSUME NEW i \in Load,
             \/ Onload(i) \/ Onunload(i) \/ WaitForPreviousTeardown(i) \/ LoadSettings(i)
             \/ OpenFails(i) \/ RetryOpen(i) \/ CloseLate(i) \/ ServerStarted(i) \/ OpenSucceeds(i)
      PROVE  FALSE
  <2> DEFINE l == life[i]
             a == [l EXCEPT !.loaded = TRUE]
             o == [l EXCEPT !.store = TRUE]
  <2>1. l \in Life
    BY <1>1 DEF IInv, LifeInv, Shapes
  <2>2. \/ life' = [life EXCEPT ![i] = a]
        \/ life' = [life EXCEPT ![i] = StartRuntimeInitialization(a)]
        \/ life' = [life EXCEPT ![i] = [l EXCEPT !.unloading = TRUE, !.teardown = "waits"]]
        \/ life' = [life EXCEPT ![i] = AfterFailure(l)]
        \/ \E x : life' = [life EXCEPT ![i] = [l EXCEPT !.init = x]]
        \/ \E x, y : life' = [life EXCEPT ![i] = [l EXCEPT !.init = x, !.attempt = y]]
        \/ \E x : life' = [life EXCEPT ![i] = [o EXCEPT !.init = x]]
    <3>1. CASE Onload(i)
      BY <1>1, <3>1 DEF Onload
    <3>2. CASE Onunload(i)
      BY <1>1, <3>2 DEF Onunload
    <3>3. CASE OpenFails(i)
      BY <1>1, <3>3 DEF OpenFails
    <3>4. CASE OpenSucceeds(i)
      BY <1>1, <3>4 DEF OpenSucceeds
    <3>5. CASE WaitForPreviousTeardown(i) \/ CloseLate(i) \/ ServerStarted(i)
      BY <1>1, <3>5 DEF WaitForPreviousTeardown, CloseLate, ServerStarted
    <3>6. CASE LoadSettings(i)
      <4> DEFINE x == IF life[i].unloading THEN "left" ELSE "opening"
      <4>1. life' = [life EXCEPT ![i] = [l EXCEPT !.init = x, !.attempt = 1]]
        BY <1>1, <3>6 DEF LoadSettings
      <4> QED BY <4>1
    <3>7. CASE RetryOpen(i)
      <4> DEFINE y == life[i].attempt + 1
      <4>1. life' = [life EXCEPT ![i] = [l EXCEPT !.init = "opening", !.attempt = y]]
        BY <1>1, <3>7 DEF RetryOpen
      <4> QED BY <4>1
    <3> QED BY <1>4, <3>1, <3>2, <3>3, <3>4, <3>5, <3>6, <3>7
  <2>3. /\ a.teardown = l.teardown /\ StartRuntimeInitialization(a).teardown = l.teardown
        /\ [l EXCEPT !.unloading = TRUE, !.teardown = "waits"].teardown = "waits"
        /\ AfterFailure(l).teardown = l.teardown
        /\ \A x : [l EXCEPT !.init = x].teardown = l.teardown
        /\ \A x, y : [l EXCEPT !.init = x, !.attempt = y].teardown = l.teardown
        /\ \A x : [o EXCEPT !.init = x].teardown = l.teardown
    <3> HIDE DEF l
    <3> QED BY <2>1 DEF Life, StartRuntimeInitialization, AfterFailure
  <2>4. PICK m : /\ life' = [life EXCEPT ![i] = m]
                 /\ m.teardown = l.teardown \/ m.teardown = "waits"
    <3> DEFINE Went(m) == /\ life' = [life EXCEPT ![i] = m]
                          /\ m.teardown = l.teardown \/ m.teardown = "waits"
    <3>1. ASSUME NEW m, life' = [life EXCEPT ![i] = m],
                 m.teardown = l.teardown \/ m.teardown = "waits"
          PROVE  \E n : Went(n)
      BY <3>1
    <3> DEFINE b == StartRuntimeInitialization(a)
               c == [l EXCEPT !.unloading = TRUE, !.teardown = "waits"]
               d == AfterFailure(l)
               e(x) == [l EXCEPT !.init = x]
               f(x, y) == [l EXCEPT !.init = x, !.attempt = y]
               g(x) == [o EXCEPT !.init = x]
               To(m) == life' = [life EXCEPT ![i] = m]
    <3>2. \/ To(a) \/ To(b) \/ To(c) \/ To(d) \/ (\E x : To(e(x)))
          \/ (\E x, y : To(f(x, y))) \/ (\E x : To(g(x)))
      BY <2>2
    <3>3. /\ a.teardown = l.teardown /\ b.teardown = l.teardown /\ c.teardown = "waits"
          /\ d.teardown = l.teardown /\ (\A x : e(x).teardown = l.teardown)
          /\ (\A x, y : f(x, y).teardown = l.teardown)
          /\ (\A x : g(x).teardown = l.teardown)
      BY <2>3
    <3>4. \A m : To(m) /\ (m.teardown = l.teardown \/ m.teardown = "waits") => \E n : Went(n)
      BY <3>1
    <3> HIDE DEF a, o, l, b, c, d, e, f, g, To, Went
    <3>5. \E n : Went(n)
      BY <3>2, <3>3, <3>4
    <3> QED BY <3>5 DEF Went
  <2> QED BY <1>3, <2>4
<1>5. ASSUME NEW i \in Load,
             TeardownServerStopped(i) \/ TeardownStoreCloses(i) \/ TeardownEnds(i)
      PROVE  FALSE
  <2>1. life[i].teardown \notin {"none", "waits"}
    BY <1>5 DEF TeardownServerStopped, TeardownStoreCloses, TeardownEnds
  <2>2. i # k => life'[k] = life[k]
    BY <1>1, <1>5 DEF TeardownServerStopped, TeardownStoreCloses, TeardownEnds
  <2> QED BY <2>1, <2>2
<1>6. ASSUME NEW i \in Load, TeardownBegins(i) PROVE TeardownBegins(k)
  <2>1. i # k => life'[k] = life[k]
    BY <1>1, <1>6 DEF TeardownBegins
  <2> QED BY <1>6, <2>1
<1>7. CASE LayoutReady
  <2>1. life'[k] = life[k] \/ life'[k] = [life[k] EXCEPT !.init = "waits", !.waits = tracked]
    BY <1>7 DEF LayoutReady, StartRuntimeInitialization
  <2>2. [life[k] EXCEPT !.init = "waits", !.waits = tracked].teardown = life[k].teardown
    BY <1>1 DEF Life
  <2> QED BY <2>1, <2>2
<1>8. ASSUME NEW i \in Load,
             \/ Ingest(i) \/ CompactionTimer(i) \/ RetentionTimer(i) \/ CheckStoreSize(i)
             \/ StoreSizeKnown(i) \/ CompactionBatch(i) \/ CompactionPause(i)
             \/ \E s \in Slots : RetentionCall(i, s) \/ RetentionPause(i, s)
             \/ \E t \in Handlers : UserServes(i, t)
             \/ \E t \in Tasks : Bind(i, t) \/ Closed(i, t)
      PROVE  life' = life
  BY <1>8 DEF Ingest, CompactionTimer, RetentionTimer, CheckStoreSize, StoreSizeKnown,
              CompactionBatch, CompactionPause, RetentionCall, RetentionPause, UserServes,
              Bind, Closed
<1>9. CASE Finished \/ UNCHANGED vars
  BY <1>2, <1>9 DEF Finished, vars
<1> QED BY <1>2, <1>4, <1>5, <1>6, <1>7, <1>8, <1>9 DEF Next

\* Once a load unloads, nothing it does starts a timer.
LEMMA NoNewTimers ==
    ASSUME NEW l \in Life, l.unloading, NEW c \in Care
    PROVE  /\ ScheduleCompaction(l, c) = c /\ PruneOldSamples(l, c) = c
           /\ CompactClosedBuckets(l, c).timers = c.timers
           /\ SettleCompaction(l, c, TRUE).timers = c.timers
           /\ SettleCompaction(l, c, FALSE).timers = c.timers
           /\ ForceMaintenance(l, c).timers \subseteq c.timers
           /\ \A s \in Slots : SettlePrune(c, s).timers = c.timers
<1>1. ScheduleCompaction(l, c) = c /\ PruneOldSamples(l, c) = c
  BY DEF ScheduleCompaction, PruneOldSamples, Life
<1>2. CompactClosedBuckets(l, c).timers = c.timers
  BY <1>1 DEF CompactClosedBuckets, Life
<1>3. ASSUME NEW failed PROVE SettleCompaction(l, c, failed).timers = c.timers
  <2>1. [c EXCEPT !.loop = "none"].timers = c.timers
    BY DEF Care
  <2> QED BY <2>1 DEF SettleCompaction, ScheduleCompaction, Life
<1>4. ForceMaintenance(l, c).timers \subseteq c.timers
  <2>1. [c EXCEPT !.timers = @ \ {"compaction"}].timers \subseteq c.timers
    BY DEF Care
  <2> QED BY <1>1, <2>1 DEF ForceMaintenance, ScheduleCompaction, Life
<1>5. ASSUME NEW s \in Slots PROVE SettlePrune(c, s).timers = c.timers
  <2> DEFINE p == [c.prune EXCEPT ![s] = "none"]
             q == IF c.pruning = s THEN "none" ELSE c.pruning
  <2>1. SettlePrune(c, s) = [c EXCEPT !.prune = p, !.pruning = q]
    BY DEF SettlePrune
  <2> HIDE DEF p, q
  <2> QED BY <2>1 DEF Care
<1> QED BY <1>1, <1>2, <1>3, <1>4, <1>5

\* So no step adds a timer to a load that unloads.
LEMMA TimersFall ==
    ASSUME IInv, [Next]_vars, NEW k \in Load, life[k].unloading
    PROVE  care'[k].timers \subseteq care[k].timers
<1>1. /\ care \in [Load -> Care] /\ life \in [Load -> Life]
      /\ \A i \in Load : care[i] \in Care /\ life[i] \in Life
  BY DEF IInv, LifeInv, Shapes
<1>2. CASE care' = care
  BY <1>2
<1>3. ASSUME NEW i \in Load, NEW c, care' = [care EXCEPT ![i] = c],
             i = k => c.timers \subseteq care[k].timers
      PROVE  care'[k].timers \subseteq care[k].timers
  BY <1>1, <1>3
<1> DEFINE Falls(x, c) == x.timers \subseteq c.timers
<1>16. /\ life[k] \in Life /\ care[k] \in Care
       /\ \A c \in Care :
            /\ Falls(PruneOldSamples(life[k], c), c) /\ Falls(CompactClosedBuckets(life[k], c), c)
            /\ Falls(SettleCompaction(life[k], c, TRUE), c)
            /\ Falls(SettleCompaction(life[k], c, FALSE), c)
            /\ Falls(ForceMaintenance(life[k], c), c)
            /\ \A s \in Slots : Falls(SettlePrune(c, s), c)
  BY <1>1, NoNewTimers
<1>17. ASSUME NEW i \in Load, NEW x, NEW c \in Care, care' = [care EXCEPT ![i] = x],
              i = k => Falls(x, c), c.timers \subseteq care[i].timers
       PROVE  care'[k].timers \subseteq care[k].timers
  <2>1. i = k => x.timers \subseteq care[k].timers
    BY <1>17
  <2> QED BY <1>3, <1>17, <2>1
<1> HIDE DEF Falls
<1>4. ASSUME NEW i \in Load, Ingest(i) PROVE care'[k].timers \subseteq care[k].timers
  <2>1. care' = care \/ care' = [care EXCEPT ![i] = ForceMaintenance(life[i], care[i])]
    BY <1>4 DEF Ingest
  <2> QED BY <1>1, <1>2, <1>16, <1>17, <2>1
<1>5. ASSUME NEW i \in Load, CompactionTimer(i) PROVE care'[k].timers \subseteq care[k].timers
  <2> DEFINE c == [care[i] EXCEPT !.timers = @ \ {"compaction"}]
  <2>1. care' = [care EXCEPT ![i] = CompactClosedBuckets(life[i], c)]
    BY <1>5 DEF CompactionTimer
  <2>2. c \in Care /\ c.timers \subseteq care[i].timers
    BY <1>1 DEF Care
  <2> HIDE DEF c
  <2> QED BY <1>1, <1>3, <1>16, <1>17, <2>1, <2>2
<1>6. ASSUME NEW i \in Load, RetentionTimer(i) PROVE care'[k].timers \subseteq care[k].timers
  <2>1. PICK once \in {"startupRetention", "retention"} \cap care[i].timers :
          LET fired == [care[i] EXCEPT !.timers = @ \ ({once} \ {"retention"})]
          IN care' = [care EXCEPT ![i] = PruneOldSamples(life[i], fired)]
    BY <1>6 DEF RetentionTimer
  <2> DEFINE c == [care[i] EXCEPT !.timers = @ \ ({once} \ {"retention"})]
  <2>2. care' = [care EXCEPT ![i] = PruneOldSamples(life[i], c)]
    BY <2>1
  <2>3. c \in Care /\ c.timers \subseteq care[i].timers
    BY <1>1 DEF Care
  <2> HIDE DEF c
  <2> QED BY <1>1, <1>3, <1>16, <1>17, <2>2, <2>3
<1>7. ASSUME NEW i \in Load, CheckStoreSize(i) \/ StoreSizeKnown(i)
      PROVE  care'[k].timers \subseteq care[k].timers
  <2> DEFINE c == [care[i] EXCEPT !.guard = FALSE]
             d == [care[i] EXCEPT !.guard = TRUE]
  <2>1. \/ care' = [care EXCEPT ![i] = c] \/ care' = [care EXCEPT ![i] = d]
        \/ care' = [care EXCEPT ![i] = ForceMaintenance(life[i], c)]
    BY <1>1, <1>7 DEF CheckStoreSize, StoreSizeKnown
  <2>2. c \in Care /\ c.timers = care[i].timers /\ d.timers = care[i].timers
    BY <1>1 DEF Care
  <2> HIDE DEF c, d
  <2> QED BY <1>1, <1>3, <1>16, <1>17, <2>1, <2>2
<1>8. ASSUME NEW i \in Load, CompactionBatch(i) PROVE care'[k].timers \subseteq care[k].timers
  <2>1. \/ care' = [care EXCEPT ![i] = SettleCompaction(life[i], care[i], FALSE)]
        \/ care' = [care EXCEPT ![i] = SettleCompaction(life[i], care[i], TRUE)]
        \/ \E d \in Durations : care' = [care EXCEPT ![i].loop = "pause",
                                            ![i].points = NextLimit(@, d)]
    BY <1>8 DEF CompactionBatch
  <2>2. ASSUME NEW x, NEW y, care' = [care EXCEPT ![i].loop = x, ![i].points = y]
        PROVE  care'[k].timers \subseteq care[k].timers
    BY <1>1, <2>2 DEF Care
  <2>3. ASSUME NEW d \in Durations,
               care' = [care EXCEPT ![i].loop = "pause", ![i].points = NextLimit(@, d)]
        PROVE  \E x, y : care' = [care EXCEPT ![i].loop = x, ![i].points = y]
    BY <1>1, <2>3
  <2> QED BY <1>1, <1>3, <1>16, <1>17, <2>1, <2>2, <2>3
<1>9. ASSUME NEW i \in Load, CompactionPause(i) PROVE care'[k].timers \subseteq care[k].timers
  <2> DEFINE n == care[i].batches + 1
             c == [care[i] EXCEPT !.batches = n]
  <2>1. \/ care' = [care EXCEPT ![i] = SettleCompaction(life[i], c, FALSE)]
        \/ care' = [care EXCEPT ![i] = [c EXCEPT !.loop = "batch"]]
    BY <1>9 DEF CompactionPause
  <2>2. n \in Int
    BY <1>1 DEF Care
  <2> HIDE DEF n
  <2>3. c \in Care /\ c.timers = care[i].timers
    BY <1>1, <2>2 DEF Care
  <2> HIDE DEF c
  <2>4. [c EXCEPT !.loop = "batch"].timers = c.timers
    BY <2>3 DEF Care
  <2> QED BY <1>1, <1>3, <1>16, <1>17, <2>1, <2>3, <2>4
<1>10. ASSUME NEW i \in Load, NEW s \in Slots, NEW stage, Enter(i, s, stage)
       PROVE  care'[k].timers \subseteq care[k].timers
  <2> DEFINE p == [care[i].prune EXCEPT ![s] = stage]
             c == [care[i] EXCEPT !.prune = p]
  <2>1. \/ care' = [care EXCEPT ![i] = SettlePrune(care[i], s)]
        \/ care' = [care EXCEPT ![i] = c]
    BY <1>1, <1>10 DEF Enter
  <2> HIDE DEF p
  <2>2. c.timers = care[i].timers
    BY <1>1 DEF Care
  <2> HIDE DEF c
  <2> QED BY <1>1, <1>3, <1>16, <1>17, <2>1, <2>2
<1>11. ASSUME NEW i \in Load, NEW s \in Slots, RetentionCall(i, s) \/ RetentionPause(i, s)
       PROVE  care'[k].timers \subseteq care[k].timers
  <2>1. ASSUME NEW x, NEW y, care' = [care EXCEPT ![i].prune[s] = x, ![i].pages = y]
        PROVE  care'[k].timers \subseteq care[k].timers
    <3> DEFINE p == [care[i].prune EXCEPT ![s] = x]
               c == [care[i] EXCEPT !.prune = p, !.pages = y]
    <3>1. care' = [care EXCEPT ![i] = c]
      BY <1>1, <2>1
    <3> HIDE DEF p
    <3>2. c.timers = care[i].timers
      BY <1>1 DEF Care
    <3> HIDE DEF c
    <3> QED BY <1>3, <3>1, <3>2
  <2>2. \/ \E stage : Enter(i, s, stage)
        \/ \E x, y : care' = [care EXCEPT ![i].prune[s] = x, ![i].pages = y]
    <3>1. ASSUME NEW d \in Durations,
                 care' = [care EXCEPT ![i].prune[s] = "vacuum pause", ![i].pages = NextLimit(@, d)]
          PROVE  \E x, y : care' = [care EXCEPT ![i].prune[s] = x, ![i].pages = y]
      BY <1>1, <3>1
    <3> QED BY <1>11, <3>1 DEF RetentionCall, RetentionPause, EnterUnlessStopping
  <2> QED BY <1>10, <2>1, <2>2
<1>12. ASSUME NEW i \in Load, TearsDown(i) PROVE care'[k].timers \subseteq care[k].timers
  <2>1. care' = care \/ care' = [care EXCEPT ![i].timers = {}]
    BY <1>12 DEF TearsDown, TeardownBegins, TeardownServerStopped, TeardownStoreCloses, TeardownEnds
  <2> QED BY <1>1, <2>1 DEF Care
<1>13. ASSUME NEW i \in Load, OpenSucceeds(i) \/ ServerStarted(i)
       PROVE  care'[k].timers \subseteq care[k].timers
  <2>1. care' = care \/ (i # k /\ \E c : care' = [care EXCEPT ![i] = c])
    BY <1>13 DEF OpenSucceeds, ServerStarted
  <2> QED BY <1>3, <2>1
<1>14. ASSUME NEW i \in Load,
              \/ Onload(i) \/ Onunload(i) \/ WaitForPreviousTeardown(i) \/ LoadSettings(i)
              \/ OpenFails(i) \/ RetryOpen(i) \/ CloseLate(i)
              \/ \E t \in Handlers : UserServes(i, t)
              \/ \E t \in Tasks : Bind(i, t) \/ Closed(i, t)
       PROVE  care' = care
  BY <1>14 DEF Onload, Onunload, WaitForPreviousTeardown, LoadSettings, OpenFails, RetryOpen,
              CloseLate, UserServes, Bind, Closed
<1>15. CASE LayoutReady \/ Finished \/ UNCHANGED vars
  BY <1>15 DEF LayoutReady, Finished, vars
<1> QED BY <1>2, <1>4, <1>5, <1>6, <1>7, <1>8, <1>9, <1>11, <1>12, <1>13, <1>14, <1>15
        DEF Next, TearsDown

\* Every step keeps the timers gone.
LEMMA StepTimersInv ==
    ASSUME IInv, IInv', TimersInv, [Next]_vars
    PROVE  TimersInv'
<1>1. ASSUME NEW k \in Load, life'[k].teardown \notin {"none", "waits"}
      PROVE  care'[k].timers = {}
  <2>1. /\ life \in [Load -> Life] /\ care \in [Load -> Care] /\ StagesFit(life[k])
        /\ care' \in [Load -> Care]
    BY DEF IInv, LifeInv, Shapes
  <2>2. CASE life[k].teardown \notin {"none", "waits"}
    <3>1. life[k].unloading /\ care[k].timers = {}
      BY <2>1, <2>2 DEF StagesFit, TimersInv, TimersGone
    <3> QED BY <3>1, TimersFall
  <2>3. CASE life[k].teardown \in {"none", "waits"}
    <3>1. TeardownBegins(k)
      BY <1>1, <2>1, <2>3, TeardownFrom
    <3> QED BY <2>1, <3>1 DEF TeardownBegins, Care
  <2> QED BY <2>2, <2>3
<1> QED BY <1>1 DEF TimersInv, TimersGone

\* The timers of the loads, and the servers of those whose operations came one after the
\* other, fit their stages in every state.
THEOREM ServersFit == Spec => [](IInv /\ ServerInv /\ TimersInv)
<1> DEFINE I == IInv /\ ServerInv /\ TimersInv
<1>1. Init => I
  <2>1. Init => TimersInv
    BY DEF Init, Unborn, TimersInv, TimersGone
  <2> QED BY <2>1, InitIInv, ServerInvInit
<1>2. I /\ [Next]_vars => I'
  BY StepIInv, StepServerInv, StepTimersInv
<1> QED BY <1>1, <1>2, PTL DEF Spec

\* What listens for a load whose server operations came one after the other is what its
\* handle says: the port the settings show is the one that is bound.
THEOREM PortsAreTold == Spec => []BoundPortTells
<1>1. ServerInv => BoundPortTells
  BY DEF ServerInv, ServerFits, ListensAlone, Own, BoundPortTells
<1> QED BY <1>1, ServersFit, PTL

\* A load that is taken down leaves nothing behind, for any number of loads, ports and user
\* operations: no open store and no timer, whatever was under way; and no port that listens
\* for it, unless an operation of the user was under way at the unload or two overlapped.
THEOREM NothingStays == Spec => []NothingLeftBehind
<1> DEFINE I == IInv /\ ServerInv /\ TimersInv
<1>1. I => NothingLeftBehind
  <2>1. ASSUME I, NEW i \in Load, life[i].teardown = "done"
        PROVE  /\ i \notin db.open /\ care[i].timers = {}
               /\ i \notin crossed => \A p \in Ports : port[p] # i
    <3>1. i \notin db.open
      BY <2>1 DEF IInv, LifeInv, OpenFits, MayHold
    <3>2. care[i].timers = {}
      BY <2>1 DEF TimersInv, TimersGone
    <3>3. i \notin crossed => \A p \in Ports : port[p] # i
      BY <2>1 DEF ServerInv, ServerFits, ListensAlone, Own
    <3> QED BY <3>1, <3>2, <3>3
  <2> QED BY <2>1 DEF NothingLeftBehind
<1> QED BY <1>1, ServersFit, PTL

-----------------------------------------------------------------------------
(***************************************************************************)
(* The scraper, which every load starts and disposes of: for every set of  *)
(* metric stores and of targets, every number of restarts and of           *)
(* redirects.                                                              *)
(*                                                                         *)
(* The inductive invariant.  That a scrape is alone needs to know what its *)
(* mark says: a task of this generation has its key's mark, so the timer   *)
(* leaves the key alone; and no task or mark is of a generation to come,   *)
(* so those of a new generation start out without rivals.                  *)
(***************************************************************************)
\* Nothing belongs to a generation that has not begun, and start always has room left.
NothingFromTheFuture ==
    /\ \A t \in tasks : t.of <= generation
    /\ \A k \in Keys : inFlight[k] <= generation
    /\ ~disposed => generation < MaxGeneration

\* A task of this generation scrapes a key that runs, and holds its mark.
CurrentIsMarked ==
    \A t \in tasks : Current(t) => t.key \in running /\ inFlight[t.key] = generation

ScraperIInv ==
    /\ ScraperTypeOK
    /\ NothingFromTheFuture
    /\ CurrentIsMarked
    /\ OneScrapePerTarget
    /\ StatusesAreCurrent

\* What the invariant says of the tasks and the marks.
TasksInOrder ==
    /\ tasks \subseteq ScrapeTask /\ inFlight \in [Keys -> 0..MaxGeneration]
    /\ NothingFromTheFuture /\ CurrentIsMarked /\ OneScrapePerTarget

\* What it says of the statuses.
StatusesInOrder ==
    /\ DOMAIN statuses \subseteq Keys /\ \A k \in DOMAIN statuses : statuses[k] \in Status
    /\ StatusesAreCurrent

\* And of everything else.
TheRest ==
    /\ generation \in 0..MaxGeneration /\ running \subseteq Keys
    /\ stored \subseteq Keys \X (0..MaxTime) /\ now \in 0..MaxTime /\ disposed \in BOOLEAN

\* The invariant in three parts, and how they make it up after a step.
LEMMA IInvParts == ScraperIInv => TasksInOrder /\ StatusesInOrder /\ TheRest
  BY DEF ScraperIInv, ScraperTypeOK, TasksInOrder, StatusesInOrder, TheRest

\* The three parts are the invariant,
LEMMA PartsMake == TasksInOrder /\ StatusesInOrder /\ TheRest => ScraperIInv
  BY DEF ScraperIInv, ScraperTypeOK, TasksInOrder, StatusesInOrder, TheRest

\* in the next state too.
LEMMA PartsMakeNext == TasksInOrder' /\ StatusesInOrder' /\ TheRest' => ScraperIInv'
  BY DEF ScraperIInv, ScraperTypeOK, TasksInOrder, StatusesInOrder, TheRest

-----------------------------------------------------------------------------
(* The steps of a scrape.                                                  *)

\* A task that goes on keeps its key, its generation and its mark.
LEMMA GoingOn ==
    ASSUME ScraperIInv, NEW t \in tasks, NEW u \in ScrapeTask, u.key = t.key, u.of = t.of, Goes(t, u),
           UNCHANGED <<generation, running, disposed>>
    PROVE  TasksInOrder'
<1>1. tasks' \subseteq ScrapeTask /\ inFlight' \in [Keys -> 0..MaxGeneration]
  BY IInvParts DEF TheRest, Goes, TasksInOrder
<1>2. NothingFromTheFuture'
  BY IInvParts DEF TheRest, Goes, TasksInOrder, NothingFromTheFuture
<1>3. CurrentIsMarked'
  BY IInvParts DEF TheRest, Goes, TasksInOrder, CurrentIsMarked, Current
<1>4. OneScrapePerTarget'
  BY IInvParts DEF TheRest, Goes, TasksInOrder, OneScrapePerTarget, Current
<1> QED BY <1>1, <1>2, <1>3, <1>4 DEF TasksInOrder

\* A task that ends takes its own mark only: the mark of a rival is of another generation.
LEMMA Finishing ==
    ASSUME ScraperIInv, NEW t \in tasks, Finish(t), UNCHANGED <<generation, running, disposed>>
    PROVE  TasksInOrder'
<1> t \in ScrapeTask /\ MaxGeneration \in Nat
  BY IInvParts, ScraperAssumption DEF TheRest, TasksInOrder, MaxGeneration
<1> t.key \in Keys /\ t.of \in 1..MaxGeneration
  BY DEF ScrapeTask
<1>1. tasks' \subseteq ScrapeTask /\ inFlight' \in [Keys -> 0..MaxGeneration]
  BY IInvParts DEF TheRest, Finish, Cleared, TasksInOrder
<1>2. NothingFromTheFuture'
  BY IInvParts DEF TheRest, Finish, Cleared, TasksInOrder, NothingFromTheFuture
<1>3. CurrentIsMarked'
  <2>1. SUFFICES ASSUME NEW u \in tasks', u.of = generation
                 PROVE  u.key \in running /\ inFlight'[u.key] = generation
    BY DEF CurrentIsMarked, Current
  <2>2. u \in tasks /\ u # t
    BY <2>1 DEF Finish
  <2>3. u.key \in running /\ inFlight[u.key] = generation /\ u.key \in Keys
    BY <2>1, <2>2, IInvParts DEF TheRest, TasksInOrder, CurrentIsMarked, Current
  <2>4. u.key # t.key \/ t.of # generation
    BY <2>1, <2>2, IInvParts DEF TheRest, TasksInOrder, OneScrapePerTarget, Current
  <2> QED BY <2>3, <2>4, IInvParts DEF TheRest, Finish, Cleared, TasksInOrder
<1>4. OneScrapePerTarget'
  BY IInvParts DEF TheRest, Finish, TasksInOrder, OneScrapePerTarget, Current
<1> QED BY <1>1, <1>2, <1>3, <1>4 DEF TasksInOrder

\* A task of this generation reports on a key that is listed.
LEMMA Reporting ==
    ASSUME ScraperIInv, NEW t \in tasks, Current(t), NEW up \in BOOLEAN, statuses' = SetStatus(t, up),
           up => <<t.key, t.started>> \in stored', stored \subseteq stored',
           UNCHANGED <<generation, running>>
    PROVE  StatusesInOrder'
<1>1. t \in ScrapeTask /\ t.of = generation /\ t.key \in running /\ DOMAIN statuses = running
  BY IInvParts DEF TheRest, TasksInOrder, StatusesInOrder, StatusesAreCurrent, CurrentIsMarked, Current
<1>2. [last |-> t.started, up |-> up, of |-> t.of] \in Status
  BY <1>1 DEF ScrapeTask, Status
<1>3. DOMAIN statuses' = running
  BY <1>1 DEF SetStatus
<1>4. \A k \in running :
        /\ k = t.key => statuses'[k] = [last |-> t.started, up |-> up, of |-> t.of]
        /\ k # t.key => statuses'[k] = statuses[k]
  BY <1>1 DEF SetStatus
<1>5. DOMAIN statuses' \subseteq Keys /\ \A k \in DOMAIN statuses' : statuses'[k] \in Status
  BY <1>2, <1>3, <1>4, IInvParts DEF TheRest, StatusesInOrder, StatusesAreCurrent
<1>6. ASSUME NEW k \in running
      PROVE  statuses'[k].of = generation /\ (statuses'[k].up = TRUE => <<k, statuses'[k].last>> \in stored')
  <2>1. CASE k = t.key
    BY <2>1, <1>1, <1>4
  <2>2. CASE k # t.key
    BY <2>2, <1>4, IInvParts DEF TheRest, StatusesInOrder, StatusesAreCurrent
  <2> QED BY <2>1, <2>2
<1> QED BY <1>3, <1>5, <1>6 DEF StatusesInOrder, StatusesAreCurrent

\* Statuses nobody touches stay true while what is stored grows.
LEMMA StatusesStay ==
    ASSUME ScraperIInv, UNCHANGED <<generation, running, statuses>>, stored \subseteq stored'
    PROVE  StatusesInOrder'
  BY IInvParts DEF TheRest, StatusesInOrder, StatusesAreCurrent

\* A failed scrape: over at once if it is an old one, else it records the failure.
LEMMA Failing ==
    ASSUME ScraperIInv, NEW t \in tasks, Failed(t), UNCHANGED <<generation, running, stored, disposed>>
    PROVE  TasksInOrder' /\ StatusesInOrder'
<1>1. CASE ~Current(t)
  BY <1>1, Finishing, StatusesStay DEF Failed
<1>2. CASE Current(t)
  <2>1. [t EXCEPT !.at = "record"] \in ScrapeTask /\ [t EXCEPT !.at = "record"].key = t.key
          /\ [t EXCEPT !.at = "record"].of = t.of
    BY IInvParts DEF TheRest, TasksInOrder, ScrapeTask
  <2>2. TasksInOrder'
    BY <1>2, <2>1, GoingOn DEF Failed
  <2>3. StatusesInOrder'
    <3>1. CASE t.key \in Targets
      BY <1>2, <3>1, Reporting DEF Failed
    <3>2. CASE t.key \notin Targets
      BY <1>2, <3>2, StatusesStay DEF Failed
    <3> QED BY <3>1, <3>2
  <2> QED BY <2>2, <2>3
<1> QED BY <1>1, <1>2

-----------------------------------------------------------------------------
(* The scraper starts, is disposed, and its timers fire.                   *)

\* A start begins a generation of its own, above the statuses and tasks there are.
LEMMA StartingScrapes ==
    ASSUME ScraperIInv, NEW K \in SUBSET Keys, Start(K)
    PROVE  ScraperIInv'
<1> DEFINE g == generation + 2
<1>1. MaxGeneration \in Nat /\ g \in 1..MaxGeneration /\ g < MaxGeneration /\ generation' = g
        /\ generation < g /\ now \in 0..MaxTime
  BY IInvParts, ScraperAssumption DEF TheRest, Start, MaxGeneration
<1> HIDE DEF g
<1>2. \A k \in K : NewTask(k, g) \in ScrapeTask /\ NewTask(k, g).key = k /\ NewTask(k, g).of = g
  BY <1>1, ScraperAssumption DEF NewTask, ScrapeTask
<1>3. \A t \in tasks' : t \in tasks \/ \E k \in K : t = NewTask(k, g)
  BY DEF Start, g
<1>4. \A t \in tasks : t \in ScrapeTask /\ t.of <= generation /\ t.of \in Nat
  BY IInvParts, <1>1 DEF TheRest, TasksInOrder, NothingFromTheFuture, ScrapeTask
<1>5. \A t \in tasks' : t.of = g => t = NewTask(t.key, g) /\ t.key \in K
  BY <1>1, <1>2, <1>3, <1>4, IInvParts DEF TheRest
<1>6. inFlight' = [k \in Keys |-> IF k \in K THEN g ELSE 0] /\ running' = K
        /\ statuses' = [k \in K |-> Pending]
  BY DEF Start, g
<1>7. TasksInOrder'
  <2>1. tasks' \subseteq ScrapeTask /\ inFlight' \in [Keys -> 0..MaxGeneration]
    BY <1>1, <1>2, <1>3, <1>4, <1>6
  <2>2. NothingFromTheFuture'
    BY <1>1, <1>2, <1>3, <1>4, <1>6, IInvParts DEF TheRest, NothingFromTheFuture
  <2>3. CurrentIsMarked'
    BY <1>1, <1>5, <1>6 DEF CurrentIsMarked, Current
  <2>4. OneScrapePerTarget'
    BY <1>1, <1>5 DEF OneScrapePerTarget, Current
  <2> QED BY <2>1, <2>2, <2>3, <2>4 DEF TasksInOrder
<1>8. Pending \in Status /\ Pending.of = g /\ Pending.up # TRUE
  BY <1>1, ScraperAssumption DEF Pending, Status, g
<1>9. StatusesInOrder'
  BY <1>1, <1>6, <1>8 DEF StatusesInOrder, StatusesAreCurrent
<1> QED BY <1>1, <1>6, <1>7, <1>9, PartsMakeNext, IInvParts DEF TheRest, Start

\* Disposing leaves no task of the current generation.
LEMMA Disposing ==
    ASSUME ScraperIInv, Dispose
    PROVE  ScraperIInv'
<1>1. MaxGeneration \in Nat /\ generation \in Nat /\ generation' = generation + 1
        /\ generation' \in 0..MaxGeneration
  BY IInvParts, ScraperAssumption DEF TheRest, Dispose, MaxGeneration, TasksInOrder, NothingFromTheFuture
<1>2. \A t \in tasks' : t \in tasks /\ t \in ScrapeTask /\ t.of <= generation /\ t.of \in Nat
  BY IInvParts, <1>1 DEF TheRest, Dispose, TasksInOrder, NothingFromTheFuture, ScrapeTask
<1>3. TasksInOrder'
  BY <1>1, <1>2, IInvParts
  DEF TheRest, Dispose, TasksInOrder, NothingFromTheFuture, CurrentIsMarked, OneScrapePerTarget, Current
<1>4. StatusesInOrder'
  BY DEF Dispose, StatusesInOrder, StatusesAreCurrent
<1> QED BY <1>1, <1>3, <1>4, PartsMakeNext, IInvParts DEF TheRest, Dispose

\* The timer of a key whose mark is not of this generation: no task of it is under way.
LEMMA TimerFires ==
    ASSUME ScraperIInv, NEW k \in Keys, Interval(k)
    PROVE  ScraperIInv'
<1> DEFINE new == NewTask(k, generation)
<1>1. MaxGeneration \in Nat /\ generation \in 1..MaxGeneration /\ now \in 0..MaxTime
  <2>1. statuses[k] \in Status /\ statuses[k].of = generation
    BY IInvParts DEF Interval, StatusesInOrder, StatusesAreCurrent
  <2>2. generation \in 1..MaxGeneration
    BY <2>1 DEF Status
  <2> QED BY <2>2, IInvParts, ScraperAssumption DEF TheRest, MaxGeneration
<1>2. new \in ScrapeTask /\ new.key = k /\ new.of = generation
  BY <1>1, ScraperAssumption DEF NewTask, ScrapeTask
<1> HIDE DEF new
<1>3. tasks' = tasks \cup {new} /\ inFlight' = [inFlight EXCEPT ![k] = generation]
        /\ k \in running /\ inFlight[k] # generation
        /\ UNCHANGED <<generation, running, statuses, stored, now, disposed>>
  BY DEF Interval, new
<1>4. TasksInOrder'
  <2>1. tasks' \subseteq ScrapeTask /\ inFlight' \in [Keys -> 0..MaxGeneration]
    BY <1>1, <1>2, <1>3, IInvParts DEF TheRest, TasksInOrder
  <2>2. NothingFromTheFuture'
    BY <1>1, <1>2, <1>3, IInvParts DEF TheRest, TasksInOrder, NothingFromTheFuture
  <2>3. CurrentIsMarked'
    BY <1>2, <1>3, IInvParts DEF TheRest, TasksInOrder, CurrentIsMarked, Current
  <2>4. OneScrapePerTarget'
    BY <1>2, <1>3, IInvParts DEF TheRest, TasksInOrder, CurrentIsMarked, OneScrapePerTarget, Current
  <2> QED BY <2>1, <2>2, <2>3, <2>4 DEF TasksInOrder
<1>5. StatusesInOrder'
  BY <1>3, StatusesStay
<1> QED BY <1>3, <1>4, <1>5, PartsMakeNext, IInvParts DEF TheRest

-----------------------------------------------------------------------------
\* The invariant holds at the start.
LEMMA InitScraperIInv == ScraperInit => ScraperIInv
<1> SUFFICES ASSUME ScraperInit PROVE ScraperIInv
  OBVIOUS
<1>1. MaxGeneration \in Nat /\ 0 < MaxGeneration /\ MaxTime \in Nat
  BY ScraperAssumption DEF MaxGeneration
<1>2. TasksInOrder
  BY <1>1 DEF ScraperInit, TasksInOrder, NothingFromTheFuture, CurrentIsMarked, OneScrapePerTarget
<1>3. StatusesInOrder
  BY DEF ScraperInit, StatusesInOrder, StatusesAreCurrent
<1>4. generation \in 0..MaxGeneration /\ now \in 0..MaxTime
  BY <1>1 DEF ScraperInit
<1>5. running \subseteq Keys /\ stored \subseteq Keys \X (0..MaxTime) /\ disposed \in BOOLEAN
  BY Zenon DEF ScraperInit
<1> QED BY <1>2, <1>3, <1>4, <1>5, PartsMake DEF TheRest

\* One step per action.
LEMMA StepScraperIInv == ScraperIInv /\ [ScraperNext]_scraperVars => ScraperIInv'
<1> SUFFICES ASSUME ScraperIInv, [ScraperNext]_scraperVars PROVE ScraperIInv'
  OBVIOUS
<1>1. ASSUME NEW K \in SUBSET Keys, Start(K) PROVE ScraperIInv'
  BY <1>1, StartingScrapes
<1>2. CASE Dispose
  BY <1>2, Disposing
<1>3. CASE Tick
  BY <1>3, PartsMakeNext, IInvParts, ScraperAssumption
  DEF TheRest, Tick, TasksInOrder, StatusesInOrder, NothingFromTheFuture, CurrentIsMarked,
      OneScrapePerTarget, StatusesAreCurrent, Current
<1>4. CASE UNCHANGED scraperVars
  BY <1>4, PartsMakeNext, IInvParts
  DEF TheRest, scraperVars, TasksInOrder, StatusesInOrder, NothingFromTheFuture, CurrentIsMarked,
      OneScrapePerTarget, StatusesAreCurrent, Current
<1>5. ASSUME NEW k \in Keys, Interval(k) PROVE ScraperIInv'
  BY <1>5, TimerFires
<1>6. ASSUME NEW t \in tasks, FetchRedirected(t) PROVE ScraperIInv'
  <2>1. [t EXCEPT !.hops = @ + 1] \in ScrapeTask /\ [t EXCEPT !.hops = @ + 1].key = t.key
          /\ [t EXCEPT !.hops = @ + 1].of = t.of
    BY <1>6, IInvParts, ScraperAssumption DEF TheRest, FetchRedirected, TasksInOrder, ScrapeTask
  <2> QED BY <1>6, <2>1, GoingOn, StatusesStay, PartsMakeNext, IInvParts DEF TheRest, FetchRedirected
<1>7. ASSUME NEW t \in tasks, FetchAnswered(t) PROVE ScraperIInv'
  <2>1. [t EXCEPT !.at = "ingest"] \in ScrapeTask /\ [t EXCEPT !.at = "ingest"].key = t.key
          /\ [t EXCEPT !.at = "ingest"].of = t.of
    BY IInvParts DEF TheRest, TasksInOrder, ScrapeTask
  <2>2. TasksInOrder'
    BY <1>7, <2>1, GoingOn, Finishing DEF FetchAnswered
  <2> QED BY <1>7, <2>2, StatusesStay, PartsMakeNext, IInvParts DEF TheRest, FetchAnswered
<1>8. ASSUME NEW t \in tasks, FetchFails(t) \/ IngestFails(t) PROVE ScraperIInv'
  BY <1>8, Failing, PartsMakeNext, IInvParts DEF TheRest, FetchFails, IngestFails
<1>9. ASSUME NEW t \in tasks, IngestAnswered(t) PROVE ScraperIInv'
  <2>1. stored' \subseteq Keys \X (0..MaxTime) /\ stored \subseteq stored' /\ <<t.key, t.started>> \in stored'
    BY <1>9, IInvParts DEF TheRest, IngestAnswered, TasksInOrder, ScrapeTask
  <2>2. TasksInOrder'
    BY <1>9, Finishing DEF IngestAnswered
  <2>3. StatusesInOrder'
    BY <1>9, <2>1, Reporting, StatusesStay DEF IngestAnswered, MayReport
  <2> QED BY <1>9, <2>1, <2>2, <2>3, PartsMakeNext, IInvParts DEF TheRest, IngestAnswered
<1>10. ASSUME NEW t \in tasks, RecordEnds(t) PROVE ScraperIInv'
  <2>1. TasksInOrder'
    BY <1>10, Finishing DEF RecordEnds
  <2>2. StatusesInOrder'
    BY <1>10, Reporting, StatusesStay DEF RecordEnds, MayReport
  <2> QED BY <1>10, <2>1, <2>2, PartsMakeNext, IInvParts DEF TheRest, RecordEnds
<1> QED
  BY <1>1, <1>2, <1>3, <1>4, <1>5, <1>6, <1>7, <1>8, <1>9, <1>10 DEF ScraperNext, ScraperFinished

-----------------------------------------------------------------------------
\* The invariant holds in every state.
LEMMA ScraperInvariant == ScraperSpec => []ScraperIInv
<1>1. ScraperInit => ScraperIInv
  BY InitScraperIInv
<1>2. ScraperIInv /\ [ScraperNext]_scraperVars => ScraperIInv'
  BY StepScraperIInv
<1> QED BY <1>1, <1>2, PTL DEF ScraperSpec

\* However often the scraper is started anew, and whenever the scrapes of earlier starts
\* end, no target is scraped twice at once within a generation.
THEOREM OneScrape == ScraperSpec => []OneScrapePerTarget
<1>1. ScraperIInv => OneScrapePerTarget
  BY DEF ScraperIInv
<1> QED BY <1>1, ScraperInvariant, PTL

\* The status list is the one of the running configuration: nothing an earlier generation
\* found is in it, and what is shown as up is in the database.
THEOREM StatusesStayCurrent == ScraperSpec => []StatusesAreCurrent
<1>1. ScraperIInv => StatusesAreCurrent
  BY DEF ScraperIInv
<1> QED BY <1>1, ScraperInvariant, PTL

-----------------------------------------------------------------------------
(***************************************************************************)
(* The health summary.  A status is pending, or up or down since a time;   *)
(* so the three counts make up the whole, and of the errors the pass over  *)
(* the statuses keeps the newest.                                          *)
(***************************************************************************)
\* A status has a time exactly if a scrape has set it.
Reported(s) == s.last = Null <=> s.up = Null
StatusesReported == \A k \in DOMAIN statuses : Reported(statuses[k])

\* Every step sets a status whole.
LEMMA StepStatusesReported ==
    ASSUME ScraperIInv, StatusesReported, [ScraperNext]_scraperVars
    PROVE  StatusesReported'
<1>1. CASE statuses' = statuses
  BY <1>1 DEF StatusesReported
<1>2. ASSUME NEW K \in SUBSET Keys, Start(K) PROVE StatusesReported'
  <2> DEFINE p == Pending
  <2>1. Reported(p)
    BY DEF Pending, Reported
  <2>2. statuses' = [k \in K |-> p]
    BY <1>2 DEF Start
  <2> HIDE DEF p
  <2> QED BY <2>1, <2>2 DEF StatusesReported
<1>3. CASE Dispose
  BY <1>3 DEF Dispose, StatusesReported
<1>4. ASSUME NEW t \in tasks, NEW up \in BOOLEAN, statuses' = SetStatus(t, up)
      PROVE  StatusesReported'
  <2> DEFINE s == [last |-> t.started, up |-> up, of |-> t.of]
  <2>1. t.started \in Int
    BY IInvParts, ScraperAssumption DEF TasksInOrder, ScrapeTask
  <2>2. Reported(s)
    BY <2>1, ScraperAssumption DEF Reported
  <2>3. statuses' = [k \in DOMAIN statuses \cup {t.key} |-> IF k = t.key THEN s ELSE statuses[k]]
    BY <1>4 DEF SetStatus
  <2> HIDE DEF s
  <2> QED BY <2>2, <2>3 DEF StatusesReported
<1>5. ASSUME NEW t \in tasks,
             \/ FetchRedirected(t) \/ FetchAnswered(t) \/ FetchFails(t)
             \/ IngestAnswered(t) \/ IngestFails(t) \/ RecordEnds(t)
      PROVE  statuses' = statuses \/ \E up \in BOOLEAN : statuses' = SetStatus(t, up)
  BY <1>5 DEF FetchRedirected, FetchAnswered, FetchFails, IngestAnswered, IngestFails,
              RecordEnds, Failed
<1>6. CASE Tick \/ ScraperFinished \/ UNCHANGED scraperVars
  BY <1>1, <1>6 DEF Tick, ScraperFinished, scraperVars
<1>7. ASSUME NEW k \in Keys, Interval(k) PROVE StatusesReported'
  BY <1>1, <1>7 DEF Interval
<1> QED BY <1>1, <1>2, <1>3, <1>4, <1>5, <1>6, <1>7 DEF ScraperNext

\* The pass over the statuses st, as a recursive function on the sets of keys.
NoError == [key |-> Null, last |-> Null]
Newer(st, k, e) ==
    IF st[k].up = FALSE /\ (e.last = Null \/ st[k].last >= e.last)
    THEN [key |-> k, last |-> st[k].last] ELSE e
ErrorStep(st, g, s) == IF s = {} THEN NoError ELSE Newer(st, Pick(s), g[s \ {Pick(s)}])
ErrorFcn(st, S) == CHOOSE g : g = [s \in SUBSET S |-> ErrorStep(st, g, s)]

\* The newest error is the function's value for all keys.
LEMMA NewestErrorDef == \A S : NewestError(S) = ErrorFcn(statuses, S)[S]
  BY DEF NewestError, ErrorFcn, ErrorStep, Newer, NoError, Pick, FoldSet, MapThenFoldSet

\* The function exists: by induction on the size of the sets it is given for.
LEMMA ErrorFcnExists ==
    ASSUME NEW st, NEW S, IsFiniteSet(S)
    PROVE  \A s \in SUBSET S : ErrorFcn(st, S)[s] = ErrorStep(st, ErrorFcn(st, S), s)
<1> DEFINE Lev(n) == {s \in SUBSET S : Cardinality(s) <= n}
           T == {n \in Nat : \E g : g = [s \in Lev(n) |-> ErrorStep(st, g, s)]}
<1>0. \A s \in SUBSET S : IsFiniteSet(s) /\ Cardinality(s) \in Nat
  BY FS_Subset, FS_CardinalityType
<1>1. 0 \in T
  <2> DEFINE g == [s \in Lev(0) |-> NoError]
  <2>1. \A s \in Lev(0) : s = {}
    BY <1>0, FS_EmptySet
  <2>2. \A s \in Lev(0) : ErrorStep(st, g, s) = NoError
    BY <2>1 DEF ErrorStep
  <2>3. g = [s \in Lev(0) |-> ErrorStep(st, g, s)]
    BY <2>2
  <2> QED BY <2>3
<1>2. ASSUME NEW n \in T PROVE n + 1 \in T
  <2>1. PICK g : g = [s \in Lev(n) |-> ErrorStep(st, g, s)]
    OBVIOUS
  <2> DEFINE next == [s \in Lev(n + 1) |-> ErrorStep(st, g, s)]
  <2>2. ASSUME NEW s \in Lev(n + 1) PROVE ErrorStep(st, next, s) = ErrorStep(st, g, s)
    <3>1. CASE s = {}
      BY <3>1 DEF ErrorStep
    <3>2. CASE s # {}
      <4> DEFINE r == s \ {Pick(s)}
      <4>1. Pick(s) \in s
        BY <3>2 DEF Pick
      <4>2. r \in Lev(n) /\ r \in Lev(n + 1)
        BY <1>0, <4>1, FS_RemoveElement
      <4>3. next[r] = ErrorStep(st, g, r) /\ g[r] = ErrorStep(st, g, r)
        BY <2>1, <4>2
      <4>4. next[r] = g[r]
        BY <4>3
      <4> HIDE DEF next
      <4> QED BY <3>2, <4>4 DEF ErrorStep
    <3> QED BY <3>1, <3>2
  <2>3. next = [s \in Lev(n + 1) |-> ErrorStep(st, next, s)]
    BY <2>2
  <2>4. \E k : k = [s \in Lev(n + 1) |-> ErrorStep(st, k, s)]
    <3> HIDE DEF next
    <3> QED BY <2>3, Zenon
  <2>5. n + 1 \in Nat
    OBVIOUS
  <2> HIDE DEF Lev
  <2> QED BY <2>4, <2>5, Zenon
<1>3. T = Nat
  BY <1>1, <1>2, NaturalInduction, Zenon
<1>4. PICK g : g = [s \in Lev(Cardinality(S)) |-> ErrorStep(st, g, s)]
  BY <1>0, <1>3
<1>5. Lev(Cardinality(S)) = SUBSET S
  BY FS_Subset
<1>6. g = [s \in SUBSET S |-> ErrorStep(st, g, s)]
  BY <1>4, <1>5
<1> DEFINE h == ErrorFcn(st, S)
<1>7. h = [s \in SUBSET S |-> ErrorStep(st, h, s)]
  BY <1>6 DEF ErrorFcn
<1> HIDE DEF h
<1>8. \A s \in SUBSET S : h[s] = ErrorStep(st, h, s)
  BY <1>7
<1> QED BY <1>8 DEF h

\* What the pass has found in the keys s: the newest of their errors.
Newest(st, s, e) ==
    /\ e.last \in Int \cup {Null}
    /\ \A k \in s : st[k].up = FALSE => e.last # Null /\ st[k].last <= e.last

\* One more key.
LEMMA NewerIsNewest ==
    ASSUME NEW st, NEW s, NEW k \in s, NEW e, Newest(st, s \ {k}, e),
           \A x \in s : st[x].up = FALSE => st[x].last \in Int
    PROVE  Newest(st, s, Newer(st, k, e))
<1>1. CASE st[k].up = FALSE /\ (e.last = Null \/ st[k].last >= e.last)
  <2> DEFINE d == [key |-> k, last |-> st[k].last]
  <2>1. Newer(st, k, e) = d /\ d.last = st[k].last /\ d.last \in Int /\ d.last # Null
    BY <1>1, ScraperAssumption DEF Newer
  <2> HIDE DEF d
  <2>2. ASSUME NEW x \in s, st[x].up = FALSE PROVE st[x].last <= d.last
    BY <1>1, <2>1, <2>2 DEF Newest
  <2> QED BY <2>1, <2>2 DEF Newest
<1>2. CASE ~(st[k].up = FALSE /\ (e.last = Null \/ st[k].last >= e.last))
  <2>1. Newer(st, k, e) = e
    BY <1>2 DEF Newer
  <2>2. ASSUME NEW x \in s, st[x].up = FALSE PROVE e.last # Null /\ st[x].last <= e.last
    BY <1>2, <2>2 DEF Newest
  <2> QED BY <2>1, <2>2 DEF Newest
<1> QED BY <1>1, <1>2

\* The pass finds the newest error of a finite set of statuses.
LEMMA NewestErrorIsNewest ==
    ASSUME NEW st, NEW S, IsFiniteSet(S), \A x \in S : st[x].up = FALSE => st[x].last \in Int
    PROVE  Newest(st, S, ErrorFcn(st, S)[S])
<1> DEFINE g == ErrorFcn(st, S)
           F == {u \in SUBSET S : ~Newest(st, u, g[u])}
<1>1. SUFFICES ASSUME F # {} PROVE FALSE
  OBVIOUS
<1>2. \A u \in F : IsFiniteSet(u)
  BY FS_Subset
<1>3. PICK u \in F : \A w \in F : Cardinality(u) <= Cardinality(w)
  BY <1>1, <1>2, SmallestSet, Zenon
<1>4. g[u] = ErrorStep(st, g, u)
  BY ErrorFcnExists
<1> HIDE DEF g
<1>5. u # {}
  <2>1. CASE u = {}
    <3>1. g[u] = NoError
      BY <1>4, <2>1 DEF ErrorStep
    <3> QED BY <2>1, <3>1 DEF Newest, NoError
  <2> QED BY <2>1
<1>6. Pick(u) \in u
  BY <1>5 DEF Pick
<1>7. u \ {Pick(u)} \notin F
  BY <1>2, <1>3, <1>6, FS_RemoveElement, FS_CardinalityType
<1>8. Newest(st, u \ {Pick(u)}, g[u \ {Pick(u)}])
  BY <1>7
<1>9. Newest(st, u, Newer(st, Pick(u), g[u \ {Pick(u)}]))
  BY <1>6, <1>8, NewerIsNewest
<1> QED BY <1>4, <1>5, <1>9 DEF ErrorStep

\* Three disjoint parts of a finite set make up its size.
LEMMA ThreeParts ==
    ASSUME NEW S, IsFiniteSet(S), NEW A, NEW B, NEW C, A \cup B \cup C = S,
           A \cap B = {}, A \cap C = {}, B \cap C = {}
    PROVE  Cardinality(A) + Cardinality(B) + Cardinality(C) = Cardinality(S)
<1>1. IsFiniteSet(A) /\ IsFiniteSet(B) /\ IsFiniteSet(C) /\ IsFiniteSet(A \cup B)
  BY FS_Subset
<1>0. Cardinality({}) = 0 /\ Cardinality(A) \in Nat /\ Cardinality(B) \in Nat
      /\ Cardinality(C) \in Nat /\ Cardinality(A \cup B) \in Nat
  BY <1>1, FS_EmptySet, FS_CardinalityType
<1>2. Cardinality(A \cup B) = Cardinality(A) + Cardinality(B)
  <2>1. Cardinality(A \cup B) = Cardinality(A) + Cardinality(B) - Cardinality(A \cap B)
    BY <1>1, FS_Union
  <2>2. Cardinality(A \cap B) = 0
    BY <1>0, Zenon
  <2> QED BY <1>0, <2>1, <2>2
<1>3. Cardinality((A \cup B) \cup C) = Cardinality(A \cup B) + Cardinality(C)
  <2>1. (A \cup B) \cap C = {}
    OBVIOUS
  <2>2. Cardinality((A \cup B) \cup C)
          = Cardinality(A \cup B) + Cardinality(C) - Cardinality((A \cup B) \cap C)
    BY <1>1, FS_Union
  <2>3. Cardinality((A \cup B) \cap C) = 0
    BY <1>0, <2>1, Zenon
  <2> QED BY <1>0, <2>2, <2>3
<1> QED BY <1>2, <1>3

\* However often the scraper is started anew, and however late the answers of earlier
\* starts: the status list is the one of the running configuration, the health summary
\* counts every status once, and shows the newest of the errors.
THEOREM HealthIsTrue == ScraperSpec => []StatusTellsTheTruth
<1>1. ScraperInit => StatusesReported
  BY DEF ScraperInit, StatusesReported
<1>2. ScraperIInv /\ StatusesReported => StatusTellsTheTruth
  <2>1. ASSUME ScraperIInv, StatusesReported PROVE HealthFollowsStatuses
    <3> DEFINE K == DOMAIN statuses
               U == {k \in K : statuses[k].up = TRUE}
               D == {k \in K : statuses[k].up = FALSE}
               P == {k \in K : statuses[k].last = Null}
    <3>1. \A k \in K : statuses[k] \in Status /\ Reported(statuses[k])
      BY <2>1, IInvParts DEF StatusesInOrder, StatusesReported
    <3>2. IsFiniteSet(K)
      BY <2>1, IInvParts, ScraperAssumption, FS_Subset DEF StatusesInOrder
    <3>3. \A k \in K : statuses[k].up \in BOOLEAN \cup {Null} /\ statuses[k].last \in Int \cup {Null}
      BY <3>1, ScraperAssumption DEF Status
    <3>4. U \cup D \cup P = K /\ U \cap D = {} /\ U \cap P = {} /\ D \cap P = {}
      BY <3>1, <3>3, ScraperAssumption DEF Reported
    <3>5. Health.up + Health.down + Health.pending = Cardinality(K)
      <4>1. Health.up = Cardinality(U) /\ Health.down = Cardinality(D)
            /\ Health.pending = Cardinality(P)
        BY DEF Health
      <4> HIDE DEF U, D, P, K
      <4> QED BY <3>2, <3>4, <4>1, ThreeParts
    <3>6. \A k \in K : statuses[k].up = FALSE => statuses[k].last \in Int
      BY <3>1, <3>3, ScraperAssumption DEF Reported
    <3>7. Newest(statuses, K, Health.error)
      <4>1. Health.error = NewestError(K)
        BY DEF Health
      <4> HIDE DEF K
      <4> QED BY <3>2, <3>6, <4>1, NewestErrorDef, NewestErrorIsNewest
    <3> QED BY <3>5, <3>7 DEF Newest, HealthFollowsStatuses
  <2> QED BY <2>1 DEF ScraperIInv, StatusTellsTheTruth
<1> QED BY <1>1, <1>2, StepStatusesReported, InitScraperIInv, StepScraperIInv, PTL DEF ScraperSpec

================================================================================
