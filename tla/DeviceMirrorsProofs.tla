------------------------- MODULE DeviceMirrorsProofs -------------------------
(* Proofs about DeviceMirrors, for every script of the two threads, every set  *)
(* of cells and every number of polynomials per mirror.                        *)
EXTENDS DeviceMirrors, SequenceTheorems, TLAPS

(* Where the two threads can be. *)
Control ==
    /\ pc["main"] \in {"next", "upload", "deref", "sync", "launch", "drain", "leave", "finished"}
    /\ pc["warm"] \in {"bind", "next", "upload", "ended", "panicked", "joined"}
    /\ pc["warm"] = "bind" => at["warm"] = 1
    /\ pc["warm"] \in {"next", "upload"} => at["warm"] \in DOMAIN WarmScript
    /\ pc["main"] = "finished" => pc["warm"] \in {"ended", "panicked", "joined"}

(* What the prover holds: at every access it is through with, the answer, a    *)
(* launched kernel, or the fenced mirror it has borrowed.                      *)
Launched(i) == \E k \in running : k[1] = i
Holds(i)    == answer[i] # "none" \/ Launched(i) \/ cell[CellAt("main", i)] \in synced

Holding ==
    /\ pc["main"] \in {"deref", "sync"} => cell[Wanted("main")] \in Buffers
    /\ pc["main"] \in {"launch", "drain"} => Holds(at["main"])
    /\ pc["main"] \notin {"leave", "finished"} => \A i \in Uses : i < at["main"] => Holds(i)

Shape == TypeOK /\ Control /\ Holding

LEMMA ScriptFacts ==
    /\ Uses = 1..Len(MainScript)
    /\ Len(MainScript) \in Nat \ {0}
    /\ DOMAIN WarmScript = 1..Len(WarmScript)
    /\ Len(WarmScript) \in Nat
    /\ WarmScript # <<>> => 1 \in DOMAIN WarmScript
    /\ \A i \in Uses : /\ CellAt("main", i) \in Cells
                       /\ MainScript[i].absent \in Policies
                       /\ MainScript[i].then \in Modes
    /\ \A i \in DOMAIN WarmScript : CellAt("warm", i) \in Cells
    /\ \A b \in Buffers : CellAt(b[1], b[2]) \in Cells
<1>1. /\ Uses = 1..Len(MainScript)
      /\ Len(MainScript) \in Nat \ {0}
  BY ScriptAssumption DEF Uses
<1>2. /\ DOMAIN WarmScript = 1..Len(WarmScript)
      /\ Len(WarmScript) \in Nat
      /\ WarmScript # <<>> => 1 \in DOMAIN WarmScript
  BY ScriptAssumption, EmptySeq
<1>3. ASSUME NEW i \in Uses
      PROVE  /\ CellAt("main", i) \in Cells
             /\ MainScript[i].absent \in Policies
             /\ MainScript[i].then \in Modes
  <2>1. MainScript[i] \in [cell : Cells, absent : Policies, then : Modes]
    BY <1>1, ElementOfSeq, ScriptAssumption
  <2> QED BY <2>1 DEF CellAt
<1>4. ASSUME NEW i \in DOMAIN WarmScript PROVE CellAt("warm", i) \in Cells
  BY ScriptAssumption DEF CellAt
<1>5. ASSUME NEW b \in Buffers PROVE CellAt(b[1], b[2]) \in Cells
  BY <1>3, <1>4 DEF Buffers
<1> QED BY <1>1, <1>2, <1>3, <1>4, <1>5

(* The script position of an active thread names a buffer and a cell. *)
LEMMA ActiveThread ==
    ASSUME Shape, NEW t \in Threads, pc[t] \in {"next", "upload"}
    PROVE  /\ Mine(t) \in Buffers
           /\ Wanted(t) \in Cells
           /\ Wanted(t) = CellAt(Mine(t)[1], Mine(t)[2])
           /\ at[t] \in 1..Length(t)
           /\ Polys[Wanted(t)] \in Nat \ {0}
  BY ScriptFacts, ScriptAssumption
     DEF Shape, TypeOK, Control, Threads, Buffers, Mine, Wanted, Length, CellAt

LEMMA ShapeInit == Init => Shape
  BY ScriptFacts DEF Init, Shape, TypeOK, Control, Holding, Threads, Uses, Outcomes

(* ----------------------------- type correctness --------------------------- *)

LEMMA TypeNext == ASSUME Shape, [Next]_vars PROVE TypeOK' /\ Control'
<1> USE DEF Shape, TypeOK, Control, Goto, Threads, cells, bufs, comm, kernels
<1> DEFINE Goal == TypeOK' /\ Control'
<1>1. CASE Bind
  BY <1>1, ScriptFacts DEF Bind
<1>2. CASE BindFail
  BY <1>2 DEF BindFail
<1>3. ASSUME NEW t \in Threads, Hit(t) PROVE Goal
  BY <1>3, ActiveThread, ScriptFacts DEF Hit, MayStart, Advance, Length
<1>4. ASSUME NEW t \in Threads, Miss(t) PROVE Goal
  BY <1>4, ActiveThread DEF Miss, MayStart
<1>5. ASSUME NEW t \in Threads, Upload(t) PROVE Goal
  <2>1. Mine(t) \in Buffers /\ pc' = pc /\ at' = at
    BY <1>5, ActiveThread DEF Upload
  <2> QED BY <1>5, <2>1 DEF Upload
<1>6. ASSUME NEW t \in Threads, UploadFailPk(t) PROVE Goal
  <2>1. /\ Mine(t) \in Buffers /\ at[t] \in 1..Length(t)
        /\ pc[t] = "upload"
        /\ UNCHANGED <<cell, filling, synced, count, lastCopy, done, fence, running>>
    BY <1>6, ActiveThread DEF UploadFailPk
  <2>2. freeAt' \in [Buffers -> Nat] /\ sent' \in Nat /\ done' <= sent'
    BY <1>6, <2>1 DEF UploadFailPk, DropMine
  <2>3. CASE t = "main"
    <3>1. Absent
      BY <1>6, <2>3 DEF UploadFailPk
    <3>2. MainScript[at["main"]].absent \in Policies
      BY ScriptFacts
    <3>3. /\ pc' \in [Threads -> {"launch", "leave"} \cup {pc[u] : u \in Threads}]
          /\ pc'["main"] \in {"launch", "leave"} /\ pc'["warm"] = pc["warm"]
          /\ at' = at
          /\ answer' \in [Uses -> {"none", "bytes", "garbage"}]
          /\ outcome' \in Outcomes
      BY <3>1, <3>2 DEF Absent, GiveUp, Policies, Outcomes
    <3>4. pc' \in [Threads -> {"bind", "next", "upload", "deref", "sync", "launch", "drain",
                               "leave", "finished", "ended", "panicked", "joined"}]
      BY <3>3
    <3> QED BY <2>1, <2>2, <3>3, <3>4
  <2>4. CASE t = "warm"
    <3>1. Advance(t) /\ UNCHANGED <<answer, outcome>>
      BY <1>6, <2>4 DEF UploadFailPk
    <3> QED BY <2>1, <2>2, <2>4, <3>1, ScriptFacts DEF Advance, Length
  <2> QED BY <2>3, <2>4
<1>7. ASSUME NEW t \in Threads, UploadFailSrs(t) PROVE Goal
  BY <1>7, ActiveThread DEF UploadFailSrs, GiveUp, Outcomes
<1>8. ASSUME NEW t \in Threads, Publish(t) PROVE Goal
  <2>1. /\ Mine(t) \in Buffers /\ at[t] \in 1..Length(t)
        /\ pc[t] = "upload"
        /\ UNCHANGED <<synced, count, lastCopy, done, fence, running, answer, outcome>>
    BY <1>8, ActiveThread DEF Publish
  <2>2. /\ cell' \in [Cells -> Buffers \cup {NoBuf}]
        /\ filling' \subseteq SrsCells
        /\ freeAt' \in [Buffers -> Nat] /\ sent' \in Nat /\ done' <= sent'
    BY <1>8, <2>1 DEF Publish, DropMine
  <2>3. IF t = "main" THEN Goto(t, "deref") /\ at' = at ELSE Advance(t)
    BY <1>8 DEF Publish
  <2>4. CASE t = "main"
    BY <2>1, <2>2, <2>3, <2>4
  <2>5. CASE t = "warm"
    <3>1. /\ pc' = [pc EXCEPT !["warm"] = "ended"] /\ at' = at
          \/ /\ pc' = [pc EXCEPT !["warm"] = "next"]
             /\ at["warm"] < Len(WarmScript)
             /\ at' = [at EXCEPT !["warm"] = @ + 1]
      BY <2>3, <2>5 DEF Advance, Length
    <3>2. TypeOK'
      <4>1. /\ pc' \in [Threads -> {pc["main"], pc["warm"], "ended", "next"}]
            /\ at' \in [Threads -> Nat] /\ at'["main"] = at["main"]
        BY <3>1
      <4>2. pc' \in [Threads -> {"bind", "next", "upload", "deref", "sync", "launch", "drain",
                                 "leave", "finished", "ended", "panicked", "joined"}]
        BY <4>1
      <4> QED BY <2>1, <2>2, <4>1, <4>2
    <3>3. Control'
      BY <2>1, <2>5, <3>1, ScriptFacts
    <3> QED BY <3>2, <3>3
  <2> QED BY <2>4, <2>5
<1>9. CASE Deref
  BY <1>9 DEF Deref
<1>10. CASE SyncEnd
  BY <1>10 DEF SyncEnd, Holding
<1>11. CASE Launch
  <2>1. \A i \in Borrowed : i \in Uses /\ cell[CellAt("main", i)] \in Buffers
    <3>1. TAKE i \in Borrowed
    <3>2. i \in Uses /\ i <= at["main"] /\ answer[i] = "none" /\ ~Launched(i)
      BY ScriptFacts DEF Borrowed, Launched
    <3>3. Holds(i)
      BY <1>11, <3>2, ScriptFacts DEF Launch, Holding
    <3> QED BY <3>2, <3>3 DEF Holds
  <2>2. running' \subseteq Uses \X Buffers
    BY <1>11, <2>1 DEF Launch
  <2> QED BY <1>11, <2>2, ScriptFacts DEF Launch, Advance, Length
<1>12. CASE Drained
  BY <1>12, ScriptFacts DEF Drained, Advance, Length
<1>13. CASE GpuError
  BY <1>13 DEF GpuError, GiveUp, Outcomes
<1>14. CASE Join
  BY <1>14 DEF Join, GiveUp, Outcomes
<1>15. CASE Leave
  BY <1>15 DEF Leave, Outcomes
<1>16. CASE CommStep
  BY <1>16 DEF CommStep
<1>17. CASE KernelStep
  BY <1>17 DEF KernelStep
<1>18. CASE UNCHANGED vars
  BY <1>18 DEF vars
<1> QED
  BY <1>1, <1>2, <1>3, <1>4, <1>5, <1>6, <1>7, <1>8, <1>9, <1>10, <1>11, <1>12,
     <1>13, <1>14, <1>15, <1>16, <1>17, <1>18
     DEF Next, MainStep, WarmStep, ThreadStep, Quiet

(* ------------------------ what the prover has borrowed --------------------- *)

(* A step that only adds to the cells, the fenced buffers, the kernels and the *)
(* answers takes nothing from the prover.                                      *)
LEMMA HoldsKept ==
    ASSUME Shape, NEW i \in Uses, Holds(i),
           \A c \in Cells : cell[c] # NoBuf => cell'[c] = cell[c],
           synced \subseteq synced',
           running \subseteq running',
           answer[i] # "none" => answer'[i] # "none"
    PROVE  Holds(i)'
<1>1. CellAt("main", i) \in Cells /\ CellAt("main", i)' = CellAt("main", i)
  BY ScriptFacts DEF CellAt
<1>2. synced \subseteq Buffers /\ NoBuf \notin Buffers
  BY ScriptAssumption DEF Shape, TypeOK
<1>3. CASE answer[i] # "none"
  BY <1>3 DEF Holds
<1>4. CASE Launched(i)
  BY <1>4 DEF Holds, Launched
<1>5. CASE cell[CellAt("main", i)] \in synced
  BY <1>1, <1>2, <1>5 DEF Holds
<1> QED BY <1>3, <1>4, <1>5 DEF Holds

(* Cells are only filled, by Publish, until the pk is dropped.                 *)
LEMMA CellsKept ==
    ASSUME Shape, [Next]_vars, ~Leave
    PROVE  \A c \in Cells : cell[c] # NoBuf => cell'[c] = cell[c]
<1>1. ASSUME NEW t \in Threads, Publish(t)
      PROVE  \A c \in Cells : cell[c] # NoBuf => cell'[c] = cell[c]
  BY <1>1 DEF Publish, Shape, TypeOK
<1>2. CASE \A t \in Threads : ~Publish(t)
  BY <1>2 DEF Next, MainStep, WarmStep, ThreadStep, Quiet, vars, cells, Threads,
       Bind, BindFail, Hit, Miss, Upload, UploadFailPk, UploadFailSrs, Deref, SyncEnd,
       Launch, Drained, GpuError, Join, CommStep, KernelStep
<1> QED BY <1>1, <1>2

LEMMA HoldingNext == ASSUME Shape, [Next]_vars, TypeOK', Control' PROVE Holding'
<1> DEFINE Kept == \A i \in Uses : Holds(i) => Holds(i)'
<1> USE DEF cells, bufs, comm, kernels
<1>1. CASE Leave
  BY <1>1 DEF Leave, Holding, Goto, Shape, TypeOK, Threads
<1>2. CASE KernelStep
  <2>1. Kept
    <3>1. SUFFICES ASSUME NEW i \in Uses, Holds(i) PROVE Holds(i)'
      OBVIOUS
    <3>2. PICK k \in running :
            /\ running' = running \ {k}
            /\ answer' = [answer EXCEPT ![k[1]] =
                             IF Copied(k[2]) /\ ~Freed(k[2]) THEN "bytes" ELSE "garbage"]
      BY <1>2 DEF KernelStep
    <3>3. k[1] \in Uses
      BY DEF Shape, TypeOK
    <3>4. UNCHANGED <<cell, synced>>
      BY <1>2 DEF KernelStep
    <3>5. CASE k[1] = i
      BY <3>2, <3>3, <3>5 DEF Holds, Shape, TypeOK
    <3>6. CASE k[1] # i
      BY <3>1, <3>2, <3>3, <3>4, <3>6 DEF Holds, Launched, CellAt, Shape, TypeOK
    <3> QED BY <3>5, <3>6
  <2> QED BY <1>2, <2>1, ScriptFacts DEF KernelStep, Holding, Wanted, CellAt, Shape, TypeOK
<1>3. CASE ~Leave /\ ~KernelStep
  <2>1. \A c \in Cells : cell[c] # NoBuf => cell'[c] = cell[c]
    BY <1>3, CellsKept
  <2>2. synced \subseteq synced' /\ running \subseteq running'
    BY <1>3 DEF Next, MainStep, WarmStep, ThreadStep, Quiet, vars, Bind, BindFail, Hit, Miss,
         Upload, UploadFailPk, UploadFailSrs, Publish, Deref, SyncEnd, Launch, Drained,
         GpuError, Join, CommStep
  <2>3. \A i \in Uses : answer[i] # "none" => answer'[i] # "none"
    <3>1. CASE \E t \in Threads : UploadFailPk(t)
      <4>1. PICK t \in Threads : UploadFailPk(t)
        BY <3>1
      <4>2. MainScript[at["main"]].absent \in Policies
        BY ScriptFacts DEF Shape, TypeOK
      <4> QED BY <4>1, <4>2 DEF UploadFailPk, Absent, Shape, TypeOK, Policies
    <3>2. CASE \A t \in Threads : ~UploadFailPk(t)
      BY <1>3, <3>2 DEF Next, MainStep, WarmStep, ThreadStep, Quiet, vars, Bind, BindFail,
           Hit, Miss, Upload, UploadFailSrs, Publish, Deref, SyncEnd, Launch, Drained,
           GpuError, Join, CommStep, Threads
    <3> QED BY <3>1, <3>2
  <2>4. Kept
    BY <2>1, <2>2, <2>3, HoldsKept
  <2>5. CASE pc'["main"] = pc["main"] /\ at'["main"] = at["main"]
    BY <2>1, <2>4, <2>5, ScriptFacts, ScriptAssumption
       DEF Holding, Wanted, CellAt, Shape, TypeOK
  <2>6. CASE WarmStep \/ CommStep \/ UNCHANGED vars
    <3>1. pc'["main"] = pc["main"] /\ at'["main"] = at["main"]
      BY <2>6 DEF WarmStep, ThreadStep, CommStep, vars, Bind, BindFail, Hit, Miss, Upload,
         UploadFailPk, UploadFailSrs, Publish, Goto, Advance, Shape, TypeOK, Threads
    <3> QED BY <2>5, <3>1
  <2>7. ASSUME pc'["main"] \in {"upload", "leave"}, at'["main"] = at["main"],
               pc["main"] \notin {"leave", "finished"}
        PROVE  Holding'
    BY <2>4, <2>7 DEF Holding, Shape
  <2>8. CASE MainStep
    <3> USE DEF Shape, TypeOK, Goto, Threads
    <3>1. CASE Hit("main")
      BY <2>4, <3>1, ActiveThread, ScriptAssumption DEF Hit, MayStart, Holding, Wanted, CellAt
    <3>2. CASE Miss("main") \/ UploadFailSrs("main") \/ GpuError
      BY <2>7, <3>2 DEF Miss, MayStart, UploadFailSrs, GpuError, GiveUp
    <3>3. CASE Upload("main")
      BY <2>5, <3>3 DEF Upload
    <3>4. CASE UploadFailPk("main")
      <4>1. Absent /\ pc["main"] = "upload"
        BY <3>4 DEF UploadFailPk
      <4>2. MainScript[at["main"]].absent \in Policies
        BY ScriptFacts
      <4>3. \/ pc'["main"] = "launch" /\ at' = at /\ answer'[at["main"]] # "none"
            \/ pc'["main"] = "leave" /\ at' = at
        BY <4>1, <4>2 DEF Absent, GiveUp, Policies
      <4> QED BY <2>4, <2>7, <4>1, <4>3 DEF Holding, Holds
    <3>5. CASE Publish("main")
      <4>1. /\ pc["main"] = "upload" /\ pc'["main"] = "deref" /\ at' = at
            /\ cell'[Wanted("main")] \in Buffers
        BY <3>5, ActiveThread, ScriptAssumption DEF Publish
      <4> QED BY <2>4, <4>1 DEF Holding, Wanted, CellAt
    <3>6. CASE Deref
      <4>1. Wanted("main") \in Cells
        BY ScriptFacts DEF Wanted
      <4> QED BY <2>4, <3>6, <4>1 DEF Deref, Holding, Holds, Wanted, CellAt
    <3>7. CASE SyncEnd
      BY <2>4, <3>7 DEF SyncEnd, Holding, Holds, Wanted, CellAt
    <3>8. CASE Launch
      <4>1. pc["main"] = "launch" /\ \A i \in Uses : i <= at["main"] => Holds(i)'
        <5>1. pc["main"] = "launch" /\ \A i \in Uses : i <= at["main"] => Holds(i)
          BY <3>8, ScriptFacts DEF Launch, Holding
        <5> QED BY <2>4, <5>1
      <4>2. \/ pc'["main"] = "drain" /\ at' = at
            \/ pc'["main"] = "next" /\ at'["main"] = at["main"] + 1
            \/ pc'["main"] = "leave"
        BY <3>8 DEF Launch, Advance
      <4> QED BY <2>4, <4>1, <4>2, ScriptFacts DEF Holding
    <3>9. CASE Drained
      <4>1. pc["main"] = "drain" /\ \A i \in Uses : i <= at["main"] => Holds(i)'
        <5>1. pc["main"] = "drain" /\ \A i \in Uses : i <= at["main"] => Holds(i)
          BY <3>9, ScriptFacts DEF Drained, Holding
        <5> QED BY <2>4, <5>1
      <4>2. \/ pc'["main"] = "next" /\ at'["main"] = at["main"] + 1
            \/ pc'["main"] = "leave"
        BY <3>9 DEF Drained, Advance
      <4> QED BY <2>4, <4>1, <4>2, ScriptFacts DEF Holding
    <3>10. CASE Join
      <4>1. /\ pc["main"] = "next" /\ at' = at
            /\ pc'["main"] \in {"next", "leave"}
        BY <3>10 DEF Join, GiveUp
      <4> QED BY <2>4, <4>1 DEF Holding
    <3> QED BY <1>3, <2>8, <3>1, <3>2, <3>3, <3>4, <3>5, <3>6, <3>7, <3>8, <3>9, <3>10
            DEF MainStep, ThreadStep
  <2> QED BY <1>3, <2>6, <2>8 DEF Next, Quiet
<1> QED BY <1>1, <1>2, <1>3

LEMMA ShapeNext == ASSUME Shape, [Next]_vars PROVE Shape'
  BY TypeNext, HoldingNext DEF Shape

(* The model's variables keep their types, whatever the scripts: every state   *)
(* the two threads and the two streams of create_proof_from_advice_with_pk     *)
(* reach is one the definitions are about.                                     *)
THEOREM TypeCorrect == Spec => []TypeOK
<1>1. Init => Shape
  BY ShapeInit
<1>2. Shape /\ [Next]_vars => Shape'
  BY ShapeNext
<1>3. Shape => TypeOK
  BY DEF Shape
<1> QED BY <1>1, <1>2, <1>3, PTL DEF Spec

(* --------------------------- mirrors and their frees ----------------------- *)

Fresh(b) == count[b] = 0 /\ freeAt[b] = 0

(* Buffers of accesses not begun are untouched, the one in a thread's hands is *)
(* neither freed nor published, numbers on the comm stream were handed out by  *)
(* it, and every buffer begun is freed, published or in a thread's hands.      *)
Ahead ==
    \A t \in Threads : \A i \in 1..Length(t) :
        (i > at[t] \/ (i = at[t] /\ pc[t] \in {"bind", "next"})) => Fresh(<<t, i>>)

InHand ==
    \A t \in Threads : pc[t] = "upload" =>
        freeAt[Mine(t)] = 0 /\ \A c \in Cells : cell[c] # Mine(t)

Numbered ==
    \A b \in Buffers :
        lastCopy[b] <= sent /\ freeAt[b] <= sent /\ count[b] <= Polys[CellAt(b[1], b[2])]

Accounted ==
    \A b \in Buffers : count[b] > 0 =>
        \/ freeAt[b] > lastCopy[b]
        \/ \E c \in Cells : cell[c] = b
        \/ \E t \in Threads : pc[t] = "upload" /\ b = Mine(t)

Dropped == pc["main"] = "finished" => \A c \in Cells \ SrsCells : cell[c] = NoBuf

BufferInv == Ahead /\ InHand /\ Numbered /\ WholeMirrors /\ Accounted /\ Dropped

(* ----------------------------- reads and verdict --------------------------- *)

SyncedCopied == \A b \in synced : Copied(b)

FenceCovers == pc["main"] = "sync" => lastCopy[cell[Wanted("main")]] <= fence

KernelsPublished ==
    pc["main"] # "finished" => \A k \in running : \E c \in Cells : cell[c] = k[2]

ReadInv == SyncedCopied /\ FenceCovers /\ FencedReads /\ KernelsPublished

Answered == \A i \in Uses : answer[i] # "none"

VerdictInv ==
    /\ pc["main"] \notin {"leave", "finished"} => outcome = "proving"
    /\ pc["main"] = "drain" =>
           \A i \in Uses : i <= at["main"] => answer[i] # "none" \/ Launched(i)
    /\ pc["main"] = "leave" /\ outcome = "proving" => running = {} /\ Answered
    /\ pc["main"] = "finished" => outcome # "proving"
    /\ outcome = "ok" => pc["main"] = "finished" /\ running = {} /\ Answered
    /\ outcome \in {"proving", "ok"} => \A i \in Uses : answer[i] # "garbage"

(* An access is answered at most once, by the kernel launched for it or by the *)
(* host slice.                                                                 *)
ReadsOnce ==
    /\ \A k \in running : answer[k[1]] = "none" /\ \A m \in running : m[1] = k[1] => m = k
    /\ pc["main"] \notin {"leave", "finished"} =>
          \A i \in Uses :
             i > at["main"] \/ (i = at["main"] /\ pc["main"] \notin {"launch", "drain"}) =>
                answer[i] = "none" /\ ~Launched(i)

IInv == Shape /\ BufferInv /\ ReadInv /\ VerdictInv /\ ReadsOnce

LEMMA BufferFacts ==
    /\ \A t \in Threads : \A i \in 1..Length(t) : <<t, i>> \in Buffers
    /\ \A b \in Buffers : /\ b = <<b[1], b[2]>>
                          /\ b[1] \in Threads
                          /\ b[2] \in 1..Length(b[1])
                          /\ Polys[CellAt(b[1], b[2])] \in Nat \ {0}
    /\ Threads = {"main", "warm"}
<1>1. \A t \in Threads : \A i \in 1..Length(t) : <<t, i>> \in Buffers
  BY ScriptFacts DEF Buffers, Threads, Length
<1>2. ASSUME NEW b \in Buffers
      PROVE  b = <<b[1], b[2]>> /\ b[1] \in Threads /\ b[2] \in 1..Length(b[1])
  BY ScriptFacts DEF Buffers, Threads, Length
<1>3. ASSUME NEW b \in Buffers PROVE Polys[CellAt(b[1], b[2])] \in Nat \ {0}
  BY ScriptFacts, ScriptAssumption
<1> QED BY <1>1, <1>2, <1>3 DEF Threads

LEMMA BufferInit == Init => BufferInv
<1> SUFFICES ASSUME Init PROVE BufferInv
  OBVIOUS
<1>1. \A b \in Buffers : Fresh(b) /\ lastCopy[b] = 0
  BY DEF Init, Fresh
<1>2. Ahead
  BY <1>1, BufferFacts DEF Ahead
<1>3. InHand /\ WholeMirrors /\ Dropped
  BY DEF Init, InHand, WholeMirrors, Dropped, Threads
<1>4. Numbered /\ Accounted
  BY <1>1, BufferFacts DEF Numbered, Accounted, Fresh, Init
<1> QED BY <1>2, <1>3, <1>4 DEF BufferInv

(* A thread moves on without an upload in its hands.                           *)
Moves(t) ==
    \/ pc'[t] = pc[t] /\ at'[t] = at[t]
    \/ /\ pc[t] # "upload" /\ at'[t] = at[t]
       /\ pc'[t] \in {"bind", "next"} => pc[t] \in {"bind", "next"}
       /\ pc'[t] = "upload" => pc[t] = "next"
    \/ pc[t] # "upload" /\ at'[t] = at[t] + 1 /\ pc'[t] = "next"

LEMMA BufferKept ==
    ASSUME Shape, Shape', BufferInv, UNCHANGED <<cell, count, lastCopy, freeAt, sent>>,
           \A t \in Threads : Moves(t),
           pc'["main"] = "finished" => pc["main"] = "finished"
    PROVE  BufferInv'
<1> USE DEF BufferInv
<1>1. Ahead'
  BY DEF Ahead, Fresh, Moves, Shape, TypeOK, Length
<1>2. ASSUME NEW t \in Threads, pc'[t] = "upload"
      PROVE  freeAt'[Mine(t)'] = 0 /\ \A c \in Cells : cell'[c] # Mine(t)'
  <2>1. CASE pc[t] = "upload"
    BY <1>2, <2>1 DEF InHand, Moves, Mine
  <2>2. CASE pc[t] # "upload"
    <3>1. pc[t] = "next" /\ at'[t] = at[t]
      BY <1>2, <2>2 DEF Moves
    <3>2. at[t] \in 1..Length(t) /\ Mine(t) \in Buffers
      BY <3>1, ActiveThread
    <3>3. Fresh(Mine(t))
      BY <3>1, <3>2 DEF Ahead, Mine
    <3>4. \A c \in Cells : cell[c] # Mine(t)
      BY <3>2, <3>3, ScriptAssumption DEF WholeMirrors, Fresh
    <3> QED BY <3>1, <3>3, <3>4 DEF Fresh, Mine
  <2> QED BY <2>1, <2>2
<1>3. InHand'
  BY <1>2 DEF InHand
<1>4. Numbered' /\ WholeMirrors' /\ Dropped'
  BY DEF Numbered, WholeMirrors, Dropped, CellAt
<1>5. Accounted'
  BY DEF Accounted, Moves, Mine
<1> QED BY <1>1, <1>3, <1>4, <1>5

(* A thread leaves its upload: the buffer is published, freed, or was never    *)
(* begun.                                                                      *)
LEMMA HandOver ==
    ASSUME Shape, Shape', BufferInv, NEW t \in Threads, pc[t] = "upload",
           UNCHANGED <<count, lastCopy>>,
           \/ pc'[t] \notin {"upload", "bind", "next", "finished"} /\ at'[t] = at[t]
           \/ pc'[t] \notin {"upload", "finished"} /\ at'[t] = at[t] + 1,
           \A u \in Threads \ {t} : pc'[u] = pc[u] /\ at'[u] = at[u],
           \/ /\ freeAt' = [freeAt EXCEPT ![Mine(t)] = sent + 1]
              /\ sent' = sent + 1 /\ cell' = cell
           \/ /\ cell[Wanted(t)] = NoBuf /\ count[Mine(t)] = Polys[Wanted(t)]
              /\ cell' = [cell EXCEPT ![Wanted(t)] = Mine(t)]
              /\ UNCHANGED <<freeAt, sent>>
           \/ count[Mine(t)] = 0 /\ UNCHANGED <<cell, freeAt, sent>>
    PROVE  BufferInv'
<1> DEFINE b == Mine(t)
<1>1. /\ b \in Buffers /\ b = <<t, at[t]>> /\ Wanted(t) \in Cells
      /\ Wanted(t) = CellAt(b[1], b[2])
  BY ActiveThread DEF Mine
<1>2. freeAt[b] = 0 /\ \A c \in Cells : cell[c] # b
  BY DEF BufferInv, InHand
<1>3. \A u \in Threads \ {t} : Mine(u) # b /\ Mine(u)' = Mine(u)
  BY <1>1 DEF Mine
<1> DEFINE Given == cell[Wanted(t)] = NoBuf /\ count[b] = Polys[Wanted(t)] /\ freeAt'[b] = 0
<1>10. \A d \in Buffers : d # b => freeAt'[d] = freeAt[d]
  BY <1>1 DEF Shape, TypeOK
<1>11. \A c \in Cells : \/ cell'[c] = cell[c]
                        \/ c = Wanted(t) /\ cell'[c] = b /\ Given
  BY <1>1, <1>2 DEF Shape, TypeOK
<1>12. sent <= sent' /\ freeAt'[b] <= sent'
  BY <1>1, <1>2 DEF Shape, TypeOK
<1>13. count[b] > 0 => freeAt'[b] > lastCopy[b] \/ cell'[Wanted(t)] = b
  BY <1>1 DEF Shape, TypeOK, BufferInv, Numbered
<1>4. Ahead'
  <2>1. SUFFICES ASSUME NEW u \in Threads, NEW i \in 1..Length(u),
                        i > at'[u] \/ (i = at'[u] /\ pc'[u] \in {"bind", "next"})
                 PROVE  Fresh(<<u, i>>)'
    BY DEF Ahead, Length
  <2>2. i > at[u] \/ (i = at[u] /\ pc[u] \in {"bind", "next"})
    BY <2>1 DEF Shape, TypeOK
  <2>3. Fresh(<<u, i>>) /\ <<u, i>> \in Buffers
    BY <2>2, BufferFacts DEF BufferInv, Ahead
  <2>4. <<u, i>> # b
    BY <1>1, <2>2 DEF Shape, TypeOK
  <2> QED BY <1>1, <2>3, <2>4 DEF Fresh, Shape, TypeOK
<1>5. InHand'
  <2>1. SUFFICES ASSUME NEW u \in Threads, pc'[u] = "upload"
                 PROVE  freeAt'[Mine(u)'] = 0 /\ \A c \in Cells : cell'[c] # Mine(u)'
    BY DEF InHand
  <2>2. u # t /\ pc[u] = "upload" /\ Mine(u)' = Mine(u) /\ Mine(u) # b
    BY <1>3, <2>1
  <2>3. freeAt[Mine(u)] = 0 /\ \A c \in Cells : cell[c] # Mine(u)
    BY <2>2 DEF BufferInv, InHand
  <2>4. Mine(u) \in Buffers
    BY <2>2, ActiveThread
  <2> QED BY <1>10, <1>11, <2>2, <2>3, <2>4
<1>6. Numbered'
  <2>1. SUFFICES ASSUME NEW d \in Buffers
                 PROVE  /\ lastCopy'[d] <= sent' /\ freeAt'[d] <= sent'
                        /\ count'[d] <= Polys[CellAt(d[1], d[2])]
    BY DEF Numbered, CellAt
  <2>2. /\ lastCopy[d] <= sent /\ freeAt[d] <= sent
        /\ count[d] <= Polys[CellAt(d[1], d[2])]
    BY DEF BufferInv, Numbered
  <2> QED BY <1>10, <1>12, <2>2 DEF Shape, TypeOK
<1>7. WholeMirrors'
  <2>1. SUFFICES ASSUME NEW c \in Cells, cell'[c] # NoBuf
                 PROVE  /\ CellAt(cell'[c][1], cell'[c][2]) = c
                        /\ count[cell'[c]] = Polys[c]
                        /\ freeAt'[cell'[c]] = 0
    BY DEF WholeMirrors, CellAt
  <2>2. CASE cell'[c] = cell[c]
    BY <1>2, <1>10, <2>1, <2>2 DEF BufferInv, WholeMirrors, Shape, TypeOK
  <2>3. CASE cell'[c] # cell[c]
    BY <1>1, <1>11, <2>3
  <2> QED BY <2>2, <2>3
<1>8. Dropped'
  BY DEF Threads, Shape, Control, Dropped
<1>9. Accounted'
  <2>1. SUFFICES ASSUME NEW d \in Buffers, count[d] > 0,
                        ~(freeAt'[d] > lastCopy'[d]),
                        ~\E c \in Cells : cell'[c] = d
                 PROVE  \E u \in Threads : pc'[u] = "upload" /\ d = Mine(u)'
    BY DEF Accounted
  <2>2. d # b
    BY <1>1, <1>13, <2>1
  <2>3. ~(freeAt[d] > lastCopy[d]) /\ ~\E c \in Cells : cell[c] = d
    BY <1>10, <1>11, <2>1, <2>2, ScriptAssumption
  <2>4. PICK u \in Threads : pc[u] = "upload" /\ d = Mine(u)
    BY <2>1, <2>3 DEF BufferInv, Accounted
  <2> QED BY <1>3, <2>2, <2>4
<1> QED BY <1>4, <1>5, <1>6, <1>7, <1>8, <1>9 DEF BufferInv

LEMMA BufferNext ==
    ASSUME Shape, Shape', BufferInv, [Next]_vars
    PROVE  BufferInv'
<1> USE DEF Goto, Threads, cells, bufs, comm, kernels
<1>1. CASE Bind \/ BindFail
  <2>1. /\ UNCHANGED <<cell, count, lastCopy, freeAt, sent>>
        /\ at' = at /\ pc["warm"] = "bind" /\ pc'["warm"] \in {"next", "ended"}
        /\ pc'["main"] = pc["main"]
    BY <1>1 DEF Bind, BindFail, Shape, TypeOK
  <2> QED BY <2>1, BufferKept DEF Moves
<1>2. ASSUME NEW t \in Threads, Hit(t) \/ Miss(t) PROVE BufferInv'
  <2>1. /\ UNCHANGED <<cell, count, lastCopy, freeAt, sent>>
        /\ pc[t] = "next" /\ pc' = [pc EXCEPT ![t] = pc'[t]] /\ pc'[t] # "finished"
        /\ at' = [at EXCEPT ![t] = at'[t]]
        /\ \/ at'[t] = at[t]
           \/ at'[t] = at[t] + 1 /\ pc'[t] = "next"
    BY <1>2 DEF Hit, Miss, MayStart, Advance, Shape, TypeOK
  <2>2. \A u \in Threads : Moves(u)
    BY <2>1 DEF Moves, Shape, TypeOK
  <2> QED BY <2>1, <2>2, BufferKept DEF Shape, TypeOK
<1>3. ASSUME NEW t \in Threads, Upload(t) PROVE BufferInv'
  <2> DEFINE b == Mine(t)
  <2>1. /\ pc[t] = "upload" /\ UNCHANGED <<cell, pc, at, freeAt>>
        /\ count[b] < Polys[Wanted(t)]
        /\ sent' = sent + 1
        /\ count' = [count EXCEPT ![b] = @ + 1]
        /\ lastCopy' = [lastCopy EXCEPT ![b] = sent + 1]
    BY <1>3 DEF Upload
  <2>2. /\ b \in Buffers /\ Wanted(t) = CellAt(b[1], b[2])
        /\ b = <<t, at[t]>>
    BY <2>1, ActiveThread DEF Mine
  <2>3. freeAt[b] = 0 /\ \A c \in Cells : cell[c] # b
    BY <2>1 DEF BufferInv, InHand
  <2>4. Ahead'
    <3>1. SUFFICES ASSUME NEW u \in Threads, NEW i \in 1..Length(u),
                          i > at[u] \/ (i = at[u] /\ pc[u] \in {"bind", "next"})
                   PROVE  Fresh(<<u, i>>)'
      BY <2>1 DEF Ahead, Length
    <3>2. Fresh(<<u, i>>) /\ <<u, i>> \in Buffers
      BY <3>1, BufferFacts DEF BufferInv, Ahead
    <3>3. <<u, i>> # b
      BY <2>1, <2>2, <3>1 DEF Shape, TypeOK
    <3> QED BY <2>1, <2>2, <3>2, <3>3 DEF Fresh, Shape, TypeOK
  <2>5. InHand'
    BY <2>1 DEF BufferInv, InHand, Mine
  <2>6. Numbered'
    BY <2>1, <2>2, BufferFacts DEF BufferInv, Numbered, Shape, TypeOK, CellAt
  <2>7. WholeMirrors' /\ Dropped'
    BY <2>1, <2>2, <2>3 DEF BufferInv, WholeMirrors, Dropped, Shape, TypeOK, CellAt
  <2>8. Accounted'
    BY <2>1, <2>2 DEF BufferInv, Accounted, Shape, TypeOK, Mine
  <2> QED BY <2>4, <2>5, <2>6, <2>7, <2>8 DEF BufferInv
<1>4. ASSUME NEW t \in Threads, UploadFailPk(t) PROVE BufferInv'
  <2>1. /\ pc[t] = "upload" /\ UNCHANGED <<cell, count, lastCopy>> /\ DropMine(t)
        /\ count[Mine(t)] < Polys[Wanted(t)]
    BY <1>4 DEF UploadFailPk
  <2>2. CASE t = "main"
    <3>1. MainScript[at["main"]].absent \in Policies
      BY ScriptFacts DEF Shape, TypeOK
    <3>2. pc'["main"] \in {"launch", "leave"} /\ at' = at /\ pc'["warm"] = pc["warm"]
      BY <1>4, <2>2, <3>1 DEF UploadFailPk, Absent, Policies, GiveUp, Shape, TypeOK
    <3> QED BY <2>1, <2>2, <3>2, HandOver DEF DropMine
  <2>3. CASE t = "warm"
    <3>1. /\ pc'["main"] = pc["main"] /\ at'["main"] = at["main"]
          /\ \/ pc'["warm"] = "ended" /\ at'["warm"] = at["warm"]
             \/ pc'["warm"] = "next" /\ at'["warm"] = at["warm"] + 1
      BY <1>4, <2>3 DEF UploadFailPk, Advance, Shape, TypeOK
    <3> QED BY <2>1, <2>3, <3>1, HandOver DEF DropMine
  <2> QED BY <2>2, <2>3
<1>5. ASSUME NEW t \in Threads, UploadFailSrs(t) PROVE BufferInv'
  <2>1. /\ pc[t] = "upload" /\ UNCHANGED <<cell, count, lastCopy, freeAt, sent, at>>
        /\ Wanted(t) \in SrsCells /\ count[Mine(t)] < Polys[Wanted(t)]
        /\ pc'[t] \in {"leave", "panicked"}
        /\ \A u \in Threads \ {t} : pc'[u] = pc[u]
    BY <1>5 DEF UploadFailSrs, GiveUp, Shape, TypeOK
  <2>2. count[Mine(t)] = 0
    <3>1. Polys[Wanted(t)] = 1
      BY <2>1, ScriptAssumption
    <3>2. count[Mine(t)] \in Nat
      BY <2>1, ActiveThread DEF Shape, TypeOK
    <3> QED BY <2>1, <3>1, <3>2
  <2>3. /\ pc'[t] \notin {"upload", "bind", "next", "finished"} /\ at'[t] = at[t]
        /\ \A u \in Threads \ {t} : pc'[u] = pc[u] /\ at'[u] = at[u]
        /\ UNCHANGED <<count, lastCopy>>
    BY <2>1
  <2> QED BY <2>1, <2>2, <2>3, HandOver
<1>6. ASSUME NEW t \in Threads, Publish(t) PROVE BufferInv'
  <2>1. /\ pc[t] = "upload" /\ UNCHANGED <<count, lastCopy>>
        /\ count[Mine(t)] = Polys[Wanted(t)]
        /\ Mine(t) \in Buffers
        /\ \A u \in Threads \ {t} : pc'[u] = pc[u] /\ at'[u] = at[u]
    BY <1>6, ActiveThread DEF Publish, Advance, Shape, TypeOK
  <2>2. \/ pc'[t] = "deref" /\ at'[t] = at[t]
        \/ pc'[t] = "next" /\ at'[t] = at[t] + 1
        \/ pc'[t] = "ended" /\ at'[t] = at[t]
    BY <1>6 DEF Publish, Advance, Shape, TypeOK
  <2>3. \/ /\ freeAt' = [freeAt EXCEPT ![Mine(t)] = sent + 1]
           /\ sent' = sent + 1 /\ cell' = cell
        \/ /\ cell[Wanted(t)] = NoBuf
           /\ cell' = [cell EXCEPT ![Wanted(t)] = Mine(t)]
           /\ UNCHANGED <<freeAt, sent>>
        \/ count[Mine(t)] = 0 /\ UNCHANGED <<cell, freeAt, sent>>
    BY <1>6 DEF Publish, DropMine
  <2> QED BY <2>1, <2>2, <2>3, HandOver
<1>7. CASE Leave
  <2> DEFINE dropped == {cell[c] : c \in Cells \ SrsCells} \ {NoBuf}
  <2>1. /\ pc["main"] = "leave" /\ pc["warm"] \in {"ended", "panicked", "joined"}
        /\ pc' = [pc EXCEPT !["main"] = "finished"]
        /\ UNCHANGED <<at, count, lastCopy>>
        /\ freeAt' = [b \in Buffers |-> IF b \in dropped THEN sent + 1 ELSE freeAt[b]]
        /\ sent' = IF dropped = {} THEN sent ELSE sent + 1
        /\ cell' = [c \in Cells |-> IF c \in SrsCells THEN cell[c] ELSE NoBuf]
    BY <1>7 DEF Leave
  <2>2. \A b \in Buffers : b \in dropped => count[b] > 0
    BY ScriptAssumption DEF BufferInv, WholeMirrors
  <2>3. Ahead'
    <3>1. SUFFICES ASSUME NEW u \in Threads, NEW i \in 1..Length(u),
                          i > at[u] \/ (i = at[u] /\ pc'[u] \in {"bind", "next"})
                   PROVE  Fresh(<<u, i>>)'
      BY <2>1 DEF Ahead, Length
    <3>2. i > at[u]
      BY <2>1, <3>1 DEF Shape, TypeOK
    <3>3. Fresh(<<u, i>>) /\ <<u, i>> \in Buffers
      BY <3>2, BufferFacts DEF BufferInv, Ahead
    <3> QED BY <2>1, <2>2, <3>3 DEF Fresh
  <2>4. InHand' /\ Dropped'
    BY <2>1 DEF InHand, Dropped, Shape, TypeOK
  <2>5. Numbered'
    <3>1. SUFFICES ASSUME NEW d \in Buffers
                   PROVE  /\ lastCopy[d] <= sent' /\ freeAt'[d] <= sent'
                          /\ count[d] <= Polys[CellAt(d[1], d[2])]
      BY <2>1 DEF Numbered, CellAt
    <3>2. /\ lastCopy[d] <= sent /\ freeAt[d] <= sent
          /\ count[d] <= Polys[CellAt(d[1], d[2])]
      BY DEF BufferInv, Numbered
    <3>3. d \in dropped => sent' = sent + 1
      BY <2>1
    <3>4. sent <= sent' /\ freeAt'[d] \in {freeAt[d], sent'}
      BY <2>1, <3>3 DEF Shape, TypeOK
    <3> QED BY <3>2, <3>4 DEF Shape, TypeOK
  <2>6. WholeMirrors'
    <3>1. SUFFICES ASSUME NEW c \in Cells, cell'[c] # NoBuf
                   PROVE  /\ CellAt(cell'[c][1], cell'[c][2]) = c
                          /\ count[cell'[c]] = Polys[c]
                          /\ freeAt'[cell'[c]] = 0
      BY <2>1 DEF WholeMirrors, CellAt
    <3>2. c \in SrsCells /\ cell'[c] = cell[c] /\ cell[c] \in Buffers
      BY <2>1, <3>1 DEF Shape, TypeOK
    <3>3. /\ CellAt(cell[c][1], cell[c][2]) = c
          /\ count[cell[c]] = Polys[c]
          /\ freeAt[cell[c]] = 0
      BY <3>1, <3>2 DEF BufferInv, WholeMirrors
    <3>4. cell[c] \notin dropped
      BY <3>2, <3>3 DEF BufferInv, WholeMirrors
    <3> QED BY <2>1, <3>2, <3>3, <3>4
  <2>7. Accounted'
    <3>1. SUFFICES ASSUME NEW b \in Buffers, count[b] > 0, ~(freeAt'[b] > lastCopy'[b])
                   PROVE  \E c \in Cells : cell'[c] = b
      BY <2>1 DEF Accounted
    <3>2. b \notin dropped /\ ~(freeAt[b] > lastCopy[b])
      BY <2>1, <3>1 DEF BufferInv, Numbered, Shape, TypeOK
    <3>3. PICK c \in Cells : cell[c] = b
      BY <2>1, <3>1, <3>2 DEF BufferInv, Accounted, Mine
    <3> QED BY <2>1, <3>2, <3>3, ScriptAssumption
  <2> QED BY <2>3, <2>4, <2>5, <2>6, <2>7 DEF BufferInv
<1>9. CASE Deref \/ SyncEnd \/ Launch \/ Drained \/ GpuError \/ Join
  <2>1. /\ UNCHANGED <<cell, count, lastCopy, freeAt, sent>>
        /\ pc["main"] \in {"next", "deref", "sync", "launch", "drain"}
        /\ pc'["main"] # "finished" /\ pc'["main"] # "upload"
        /\ \/ at' = at /\ (pc'["main"] = "next" => pc["main"] = "next")
           \/ at'["main"] = at["main"] + 1 /\ pc'["main"] = "next" /\ at'["warm"] = at["warm"]
        /\ \/ pc'["warm"] = pc["warm"]
           \/ pc["warm"] = "ended" /\ pc'["warm"] = "joined" /\ at' = at
    BY <1>9 DEF Deref, SyncEnd, Launch, Drained, GpuError, GiveUp, Join, Advance, Shape, TypeOK
  <2>2. \A u \in Threads : Moves(u)
    BY <2>1 DEF Moves, Shape, Control
  <2> QED BY <2>1, <2>2, BufferKept
<1>10. CASE CommStep \/ KernelStep \/ UNCHANGED vars
  <2>1. UNCHANGED <<cell, count, lastCopy, freeAt, sent, pc, at>>
    BY <1>10 DEF CommStep, KernelStep, vars
  <2> QED BY <2>1, BufferKept DEF Moves
<1> QED
  BY <1>1, <1>2, <1>3, <1>4, <1>5, <1>6, <1>7, <1>9, <1>10
     DEF Next, MainStep, WarmStep, ThreadStep, Quiet

(* ------------------------------- reads ------------------------------------- *)

LEMMA ReadInit == Init => ReadInv
  BY DEF Init, ReadInv, SyncedCopied, FenceCovers, FencedReads, KernelsPublished, Threads

(* Copies that have executed stay executed: nothing copies to a whole buffer   *)
(* again, and the comm stream only goes on.                                    *)
LEMMA CopiedKept ==
    ASSUME Shape, BufferInv, [Next]_vars, NEW b \in Buffers, Copied(b)
    PROVE  Copied(b)'
<1>1. done <= done'
  BY DEF Next, MainStep, WarmStep, ThreadStep, Quiet, vars, comm, Bind, BindFail, Hit, Miss,
     Upload, UploadFailPk, UploadFailSrs, Publish, Deref, SyncEnd, Launch, Drained, GpuError,
     Join, Leave, CommStep, KernelStep, Shape, TypeOK
<1>2. count'[b] = count[b] /\ lastCopy'[b] = lastCopy[b]
  <2>1. ASSUME NEW t \in Threads, Upload(t)
        PROVE  count'[b] = count[b] /\ lastCopy'[b] = lastCopy[b]
    <3>1. Mine(t) # b
      BY <2>1, ActiveThread DEF Upload, Copied, Shape, TypeOK
    <3> QED BY <2>1, <3>1 DEF Upload, Shape, TypeOK
  <2>2. CASE \A t \in Threads : ~Upload(t)
    BY <2>2 DEF Next, MainStep, WarmStep, ThreadStep, Quiet, vars, bufs, Bind, BindFail, Hit,
       Miss, UploadFailPk, UploadFailSrs, Publish, Deref, SyncEnd, Launch, Drained,
       GpuError, Join, Leave, CommStep, KernelStep, Threads
  <2> QED BY <2>1, <2>2
<1>3. Shape'
  BY ShapeNext
<1> QED BY <1>1, <1>2, <1>3 DEF Copied, CellAt, Shape, TypeOK

LEMMA ReadNext ==
    ASSUME Shape, Shape', BufferInv, BufferInv', ReadInv, [Next]_vars
    PROVE  ReadInv'
<1> USE DEF cells, bufs, comm, kernels, Goto, Threads
<1>1. \A b \in Buffers : Copied(b) => Copied(b)'
  BY CopiedKept
<1>2. synced \subseteq Buffers /\ \A k \in running : k[2] \in Buffers
  BY DEF Shape, TypeOK
<1>3. ASSUME \A b \in synced' : b \in synced \/ Copied(b),
             \A k \in running' : k \in running \/ k[2] \in synced,
             synced' \subseteq Buffers, 
             \A k \in running' : k[2] \in Buffers
      PROVE  SyncedCopied' /\ FencedReads'
  BY <1>1, <1>2, <1>3 DEF ReadInv, SyncedCopied, FencedReads
<1>4. CASE SyncEnd
  <2>1. /\ pc["main"] = "sync" /\ fence <= done /\ synced' = synced \cup {cell[Wanted("main")]}
        /\ running' = running /\ cell' = cell
        /\ pc'["main"] = "launch"
    BY <1>4 DEF SyncEnd, Shape, TypeOK
  <2>2. cell[Wanted("main")] \in Buffers /\ Wanted("main") \in Cells
    BY <2>1, ScriptFacts DEF Shape, TypeOK, Holding, Wanted
  <2>3. Copied(cell[Wanted("main")])
    <3>1. lastCopy[cell[Wanted("main")]] <= fence
      BY <2>1 DEF ReadInv, FenceCovers
    <3>2. /\ CellAt(cell[Wanted("main")][1], cell[Wanted("main")][2]) = Wanted("main")
          /\ count[cell[Wanted("main")]] = Polys[Wanted("main")]
      <4>1. cell[Wanted("main")] # NoBuf
        BY <2>2, ScriptAssumption DEF Buffers
      <4> QED BY <2>2, <4>1 DEF BufferInv, WholeMirrors
    <3>3. lastCopy[cell[Wanted("main")]] \in Nat /\ fence \in Nat /\ done \in Nat
      BY <2>2 DEF Shape, TypeOK
    <3> QED BY <2>1, <3>1, <3>2, <3>3 DEF Copied
  <2>4. SyncedCopied' /\ FencedReads'
    BY <1>2, <1>3, <2>1, <2>2, <2>3
  <2> QED BY <2>1, <2>4 DEF ReadInv, FenceCovers, KernelsPublished
<1>5. CASE Launch
  <2>1. \A k \in running' : k \in running \/ \E i \in Borrowed : k = <<i, cell[CellAt("main", i)]>>
    BY <1>5 DEF Launch
  <2>2. ASSUME NEW i \in Borrowed
        PROVE  CellAt("main", i) \in Cells /\ cell[CellAt("main", i)] \in synced
    <3>1. i \in Uses /\ i <= at["main"] /\ answer[i] = "none" /\ ~Launched(i)
      BY ScriptFacts DEF Borrowed, Launched, Shape, TypeOK
    <3>2. Holds(i)
      BY <1>5, <3>1, ScriptFacts DEF Launch, Shape, TypeOK, Holding
    <3> QED BY <3>1, <3>2, ScriptFacts DEF Holds
  <2>3. /\ UNCHANGED <<cell, synced>> /\ pc["main"] = "launch"
        /\ pc'["main"] # "sync"
    BY <1>5 DEF Launch, Advance, Shape, TypeOK
  <2>4. SyncedCopied' /\ FencedReads'
    BY <1>2, <1>3, <2>1, <2>2, <2>3 DEF Shape, TypeOK
  <2>5. KernelsPublished'
    BY <2>1, <2>2, <2>3 DEF ReadInv, KernelsPublished
  <2> QED BY <2>3, <2>4, <2>5 DEF ReadInv, FenceCovers
<1>6. CASE Leave
  <2>1. UNCHANGED <<synced, running>> /\ pc'["main"] = "finished"
    BY <1>6 DEF Leave, Shape, TypeOK
  <2> QED BY <1>2, <1>3, <2>1 DEF ReadInv, FenceCovers, KernelsPublished
<1>7. CASE KernelStep
  <2>1. UNCHANGED <<synced, pc, at, cell, fence, lastCopy>> /\ running' \subseteq running
    BY <1>7 DEF KernelStep
  <2> QED BY <1>2, <1>3, <2>1 DEF ReadInv, FenceCovers, KernelsPublished, Wanted, CellAt
<1>8. CASE ~SyncEnd /\ ~Launch /\ ~Leave /\ ~KernelStep
  <2>1. UNCHANGED <<synced, running>>
    BY <1>8 DEF Next, MainStep, WarmStep, ThreadStep, Quiet, vars, Bind, BindFail, Hit, Miss,
       Upload, UploadFailPk, UploadFailSrs, Publish, Deref, Drained, GpuError, Join, CommStep
  <2>2. SyncedCopied' /\ FencedReads'
    BY <1>2, <1>3, <2>1
  <2>3. \A c \in Cells : cell[c] # NoBuf => cell'[c] = cell[c]
    BY <1>8, CellsKept
  <2>4. KernelsPublished'
    <3>1. pc["main"] = "finished" => pc'["main"] = "finished"
      BY <1>8 DEF Next, MainStep, WarmStep, ThreadStep, Quiet, vars, Bind, BindFail, Hit, Miss,
         MayStart, Upload, UploadFailPk, UploadFailSrs, Publish, Deref, Drained, GpuError, Join,
         CommStep, Shape, TypeOK, Control, Advance
    <3> QED BY <1>2, <2>1, <2>3, <3>1, ScriptAssumption DEF ReadInv, KernelsPublished
  <2>5. FenceCovers'
    <3>1. CASE Deref
      <4>1. cell' = cell /\ lastCopy' = lastCopy /\ at' = at
            /\ (pc'["main"] = "sync" => fence' = sent)
        BY <3>1 DEF Deref, Shape, TypeOK
      <4>2. cell[Wanted("main")] \in Buffers
        BY <3>1 DEF Deref, Shape, Holding
      <4> QED BY <4>1, <4>2 DEF FenceCovers, BufferInv, Numbered, Wanted, CellAt
    <3>2. CASE ~Deref
      <4>1. pc'["main"] = "sync" => /\ pc["main"] = "sync" /\ at'["main"] = at["main"]
                                   /\ fence' = fence
        <5> USE DEF Shape, TypeOK
        <5>1. CASE UploadFailPk("main")
          <6>1. MainScript[at["main"]].absent \in Policies /\ Absent
            BY <5>1, ScriptFacts DEF UploadFailPk
          <6> QED BY <6>1 DEF Absent, GiveUp, Policies
        <5>2. CASE MainStep /\ ~UploadFailPk("main")
          BY <1>8, <3>2, <5>2 DEF MainStep, ThreadStep, Hit, Miss, MayStart, Upload,
             UploadFailSrs, Publish, Drained, GpuError, GiveUp, Join, Advance
        <5>3. CASE WarmStep
          BY <5>3 DEF WarmStep, ThreadStep, Bind, BindFail, Hit, Miss, Upload,
             UploadFailPk, UploadFailSrs, Publish, Advance
        <5>4. CASE CommStep \/ UNCHANGED vars
          BY <5>4 DEF CommStep, vars
        <5> QED BY <1>8, <5>1, <5>2, <5>3, <5>4 DEF Next, Quiet
      <4>2. SUFFICES ASSUME pc'["main"] = "sync"
                     PROVE  lastCopy'[cell'[Wanted("main")']] <= fence'
        BY DEF FenceCovers
      <4>3. /\ cell[Wanted("main")] \in Buffers /\ Wanted("main") \in Cells
            /\ cell'[Wanted("main")'] = cell[Wanted("main")]
        BY <2>3, <4>1, <4>2, ScriptFacts, ScriptAssumption
           DEF Shape, TypeOK, Holding, Wanted, CellAt
      <4>4. lastCopy'[cell[Wanted("main")]] = lastCopy[cell[Wanted("main")]]
        <5>1. CASE \E t \in Threads : Upload(t)
          BY <4>3, <5>1 DEF Upload, BufferInv, InHand, Shape, TypeOK
        <5>2. CASE \A t \in Threads : ~Upload(t)
          BY <1>8, <5>2 DEF Next, MainStep, WarmStep, ThreadStep, Quiet, vars, Bind, BindFail,
             Hit, Miss, UploadFailPk, UploadFailSrs, Publish, Deref, Drained, GpuError, Join,
             CommStep
        <5> QED BY <5>1, <5>2
      <4> QED BY <4>1, <4>2, <4>3, <4>4 DEF ReadInv, FenceCovers
    <3> QED BY <3>1, <3>2
  <2> QED BY <2>2, <2>4, <2>5 DEF ReadInv
<1> QED BY <1>4, <1>5, <1>6, <1>7, <1>8

(* ------------------------------ the verdict -------------------------------- *)

LEMMA VerdictInit == Init => VerdictInv
  BY DEF Init, VerdictInv, Threads, Outcomes

(* The kernels of a proof that is still to be judged read whole live mirrors.  *)
LEMMA LiveReads ==
    ASSUME Shape, BufferInv, ReadInv, pc["main"] # "finished", NEW k \in running
    PROVE  Copied(k[2]) /\ freeAt[k[2]] = 0
<1>1. Copied(k[2])
  BY DEF ReadInv, FencedReads
<1>2. PICK c \in Cells : cell[c] = k[2]
  BY DEF ReadInv, KernelsPublished
<1>3. k[2] # NoBuf
  BY ScriptAssumption DEF Shape, TypeOK
<1> QED BY <1>1, <1>2, <1>3 DEF BufferInv, WholeMirrors

LEMMA VerdictNext ==
    ASSUME Shape, Shape', BufferInv, ReadInv, VerdictInv, [Next]_vars
    PROVE  VerdictInv'
<1> USE DEF cells, bufs, comm, kernels, Goto, Threads, Shape, TypeOK
<1>1. CASE UNCHANGED <<running, answer, outcome>> /\ pc'["main"] = pc["main"]
                                                 /\ at'["main"] = at["main"]
  BY <1>1 DEF VerdictInv, Answered, Launched
<1>2. CASE WarmStep \/ CommStep \/ UNCHANGED vars
  <2>1. UNCHANGED <<running, answer, outcome>> /\ pc'["main"] = pc["main"]
                                              /\ at'["main"] = at["main"]
    BY <1>2 DEF WarmStep, ThreadStep, CommStep, vars, Bind, BindFail, Hit, Miss, Upload,
       UploadFailPk, UploadFailSrs, Publish, Advance
  <2> QED BY <1>1, <2>1
<1>3. CASE KernelStep
  <2>1. PICK k \in running :
          /\ running' = running \ {k}
          /\ answer' = [answer EXCEPT ![k[1]] =
                           IF Copied(k[2]) /\ ~Freed(k[2]) THEN "bytes" ELSE "garbage"]
    BY <1>3 DEF KernelStep
  <2>2. k[1] \in Uses /\ UNCHANGED <<pc, at, outcome>>
    BY <1>3 DEF KernelStep
  <2>3. \A i \in Uses : answer[i] # "none" => answer'[i] # "none"
    BY <2>1, <2>2
  <2>4. \A i \in Uses : Launched(i) => Launched(i)' \/ answer'[i] # "none"
    BY <2>1, <2>2 DEF Launched
  <2>5. outcome \in {"proving", "ok"} => answer'[k[1]] = "bytes"
    <3>1. outcome \in {"proving", "ok"} => pc["main"] # "finished"
      BY <2>1 DEF VerdictInv
    <3> QED BY <2>1, <2>2, <3>1, LiveReads DEF Freed
  <2>6. outcome \in {"proving", "ok"} => \A i \in Uses : answer'[i] # "garbage"
    BY <2>1, <2>2, <2>5 DEF VerdictInv
  <2>7. outcome = "ok" => FALSE
    BY <2>1 DEF VerdictInv
  <2>8. running = {} => FALSE
    BY <2>1
  <2> QED BY <2>2, <2>3, <2>4, <2>6, <2>7, <2>8 DEF VerdictInv, Answered
<1>4. CASE MainStep
  <2>1. CASE Hit("main") \/ Miss("main") \/ Upload("main") \/ Publish("main") \/ Deref \/ SyncEnd
    <3>1. /\ UNCHANGED <<running, answer, outcome>>
          /\ pc["main"] \notin {"leave", "finished"}
          /\ pc'["main"] \notin {"drain", "leave", "finished"}
      BY <2>1 DEF Hit, Miss, MayStart, Upload, Publish, Deref, SyncEnd
    <3> QED BY <3>1 DEF VerdictInv
  <2>2. ASSUME outcome' \notin {"proving", "ok"}, pc'["main"] = "leave"
        PROVE  VerdictInv'
    BY <2>2 DEF VerdictInv
  <2>3. CASE UploadFailSrs("main") \/ GpuError
    BY <2>2, <2>3 DEF UploadFailSrs, GpuError, GiveUp
  <2>4. CASE UploadFailPk("main")
    <3>1. MainScript[at["main"]].absent \in Policies /\ Absent /\ pc["main"] = "upload"
          /\ running' = running
      BY <2>4, ScriptFacts DEF UploadFailPk
    <3>2. \/ outcome' \notin {"proving", "ok"} /\ pc'["main"] = "leave"
          \/ /\ pc'["main"] = "launch" /\ outcome' = outcome
             /\ answer' = [answer EXCEPT ![at["main"]] = "bytes"]
      BY <3>1 DEF Absent, GiveUp, Policies
    <3> QED BY <2>2, <3>1, <3>2 DEF VerdictInv
  <2>5. CASE Launch
    <3>1. /\ pc["main"] = "launch" /\ UNCHANGED <<answer, outcome>>
          /\ pc'["main"] \in {"next", "drain", "leave"}
          /\ outcome = "proving"
      BY <2>5 DEF Launch, Advance, VerdictInv
    <3>2. ASSUME pc'["main"] = "leave" PROVE FALSE
      <4>1. MainScript[at["main"]].then # "drain" /\ ~(at["main"] < Len(MainScript))
        BY <2>5, <3>2 DEF Launch, Advance, Length
      <4>2. at["main"] = Len(MainScript)
        BY <4>1, ScriptFacts
      <4> QED BY <4>1, <4>2, ScriptAssumption
    <3>3. ASSUME pc'["main"] = "drain", NEW i \in Uses, i <= at'["main"], answer[i] = "none"
          PROVE  Launched(i)'
      <4>1. /\ at' = at
            /\ running' = running \cup {<<j, cell[CellAt("main", j)]>> : j \in Borrowed}
        BY <2>5, <3>3 DEF Launch, Advance
      <4>2. Launched(i) \/ i \in Borrowed
        BY <3>3, <4>1, ScriptFacts DEF Borrowed, Launched
      <4>3. ASSUME i \in Borrowed PROVE <<i, cell[CellAt("main", i)]>> \in running'
        BY <4>1, <4>3
      <4> QED BY <4>1, <4>2, <4>3 DEF Launched
    <3> QED BY <3>1, <3>2, <3>3 DEF VerdictInv
  <2>6. CASE Drained
    <3>1. /\ pc["main"] = "drain" /\ running = {} /\ UNCHANGED <<running, answer, outcome>>
          /\ \/ pc'["main"] = "next"
             \/ pc'["main"] = "leave" /\ at["main"] = Len(MainScript)
      BY <2>6, ScriptFacts DEF Drained, Advance, Length
    <3>2. \A i \in Uses : i <= at["main"] => answer[i] # "none"
      BY <3>1 DEF VerdictInv, Launched
    <3> QED BY <3>1, <3>2, ScriptFacts DEF VerdictInv, Answered
  <2>7. CASE Join
    <3>1. /\ pc["main"] = "next"
          /\ \/ pc'["main"] = "next" /\ outcome' = outcome /\ UNCHANGED <<running, answer>>
             \/ pc'["main"] = "leave" /\ outcome' = "join_panic"
      BY <2>7 DEF Join, GiveUp
    <3> QED BY <2>2, <3>1 DEF VerdictInv
  <2>8. CASE Leave
    <3>1. /\ pc["main"] = "leave" /\ pc'["main"] = "finished"
          /\ UNCHANGED <<running, answer>>
          /\ outcome # "ok"
          /\ outcome' # "proving"
          /\ outcome' = "ok" => outcome = "proving"
      BY <2>8 DEF Leave, VerdictInv
    <3> QED BY <3>1 DEF VerdictInv, Answered
  <2> QED BY <1>4, <2>1, <2>3, <2>4, <2>5, <2>6, <2>7, <2>8 DEF MainStep, ThreadStep
<1> QED BY <1>2, <1>3, <1>4 DEF Next, Quiet

LEMMA ReadsOnceNext == ASSUME Shape, Shape', ReadsOnce, [Next]_vars PROVE ReadsOnce'
<1> USE DEF cells, bufs, comm, kernels, Goto, Threads, Shape, TypeOK
<1>1. CASE UNCHANGED <<running, answer>> /\ at'["main"] >= at["main"]
           /\ (at'["main"] = at["main"] /\ pc'["main"] \notin {"launch", "drain", "leave", "finished"} =>
                  pc["main"] \notin {"launch", "drain", "leave", "finished"})
           /\ (pc'["main"] \notin {"leave", "finished"} => pc["main"] \notin {"leave", "finished"})
  <2>1. at["main"] \in Nat /\ at'["main"] \in Nat /\ Uses \subseteq Nat
    BY ScriptFacts
  <2>2. \A i \in Uses : Launched(i)' <=> Launched(i)
    BY <1>1 DEF Launched
  <2>3. ASSUME NEW i \in Uses, pc'["main"] \notin {"leave", "finished"},
               i > at'["main"] \/ (i = at'["main"] /\ pc'["main"] \notin {"launch", "drain"})
        PROVE  answer'[i] = "none" /\ ~Launched(i)'
    <3>1. i > at["main"] \/ (i = at["main"] /\ pc["main"] \notin {"launch", "drain"})
      BY <1>1, <2>1, <2>3
    <3>2. pc["main"] \notin {"leave", "finished"}
      BY <1>1, <2>3
    <3> QED BY <1>1, <2>2, <3>1, <3>2 DEF ReadsOnce
  <2>4. \A k \in running' : answer'[k[1]] = "none" /\ \A m \in running' : m[1] = k[1] => m = k
    BY <1>1 DEF ReadsOnce
  <2> QED BY <2>3, <2>4 DEF ReadsOnce
<1>2. CASE WarmStep \/ CommStep \/ UNCHANGED vars
  <2>1. UNCHANGED <<running, answer>> /\ pc'["main"] = pc["main"]
        /\ at'["main"] = at["main"]
    BY <1>2 DEF WarmStep, ThreadStep, CommStep, vars, Bind, BindFail, Hit, Miss, Upload,
       UploadFailPk, UploadFailSrs, Publish, Advance
  <2> QED BY <1>1, <2>1
<1>3. CASE KernelStep
  <2>1. PICK k \in running :
          /\ running' = running \ {k}
          /\ answer' = [answer EXCEPT ![k[1]] =
                           IF Copied(k[2]) /\ ~Freed(k[2]) THEN "bytes" ELSE "garbage"]
    BY <1>3 DEF KernelStep
  <2>2. k[1] \in Uses /\ UNCHANGED <<pc, at>> /\ Launched(k[1])
    BY <1>3, <2>1 DEF KernelStep, Launched
  <2>3. \A i \in Uses : i # k[1] => answer'[i] = answer[i]
    BY <2>1, <2>2
  <2>4. \A m \in running' : m[1] # k[1] /\ m \in running
    BY <2>1 DEF ReadsOnce
  <2> QED BY <2>2, <2>3, <2>4 DEF ReadsOnce, Launched
<1>4. CASE MainStep
  <2>1. CASE Hit("main") \/ Miss("main") \/ Upload("main") \/ UploadFailSrs("main")
             \/ Publish("main") \/ Deref \/ SyncEnd \/ Drained \/ GpuError \/ Join \/ Leave
    <3>1. /\ UNCHANGED <<running, answer>>
          /\ \/ at'["main"] = at["main"] /\ pc["main"] \notin {"launch", "drain", "leave", "finished"}
             \/ at'["main"] = at["main"] /\ pc'["main"] \in {"leave", "finished"}
             \/ at'["main"] = at["main"] + 1 /\ pc["main"] \notin {"leave", "finished"}
      BY <2>1 DEF Hit, Miss, MayStart, Upload, UploadFailSrs, Publish, Deref, SyncEnd, Drained,
         GpuError, GiveUp, Join, Leave, Advance
    <3>2. CASE at'["main"] = at["main"] /\ pc'["main"] \in {"leave", "finished"}
      BY <3>1, <3>2 DEF ReadsOnce
    <3> QED BY <1>1, <3>1, <3>2
  <2>2. CASE UploadFailPk("main")
    <3>1. MainScript[at["main"]].absent \in Policies /\ Absent /\ pc["main"] = "upload"
          /\ running' = running
      BY <2>2, ScriptFacts DEF UploadFailPk
    <3>2. \/ pc'["main"] = "leave" /\ answer' = answer
          \/ /\ pc'["main"] = "launch" /\ at' = at
             /\ answer' = [answer EXCEPT ![at["main"]] = "bytes"]
      BY <3>1 DEF Absent, GiveUp, Policies
    <3>3. answer[at["main"]] = "none" /\ ~Launched(at["main"])
      BY <3>1 DEF ReadsOnce
    <3> QED BY <3>1, <3>2, <3>3 DEF ReadsOnce, Launched
  <2>3. CASE Launch
    <3> DEFINE B == {<<i, cell[CellAt("main", i)]>> : i \in Borrowed}
    <3>1. /\ pc["main"] = "launch" /\ answer' = answer
          /\ running' = running \/ running' = running \cup B
          /\ \/ pc'["main"] = "drain" /\ at' = at
             \/ pc'["main"] = "next" /\ at'["main"] = at["main"] + 1
             \/ pc'["main"] = "leave"
      BY <2>3 DEF Launch, Advance
    <3>2. \A m \in B : m[1] \in Uses /\ m[1] <= at["main"] /\ answer[m[1]] = "none" /\ ~Launched(m[1])
      BY ScriptFacts DEF Borrowed, Launched
    <3>3. \A m, k \in B : m[1] = k[1] => m = k
      OBVIOUS
    <3>4. \A k \in running' : answer'[k[1]] = "none" /\ \A m \in running' : m[1] = k[1] => m = k
      BY <3>1, <3>2, <3>3 DEF ReadsOnce, Launched
    <3>5. \A i \in Uses : i > at["main"] => answer'[i] = "none" /\ ~Launched(i)'
      <4>1. \A m \in running' : m \in running \/ m[1] <= at["main"]
        BY <3>1, <3>2
      <4>2. \A i \in Uses : i > at["main"] => answer[i] = "none" /\ \A m \in running : m[1] # i
        BY <3>1 DEF ReadsOnce, Launched
      <4>3. at["main"] \in Nat /\ Uses \subseteq Nat
        BY ScriptFacts
      <4>4. ASSUME NEW i \in Uses, i > at["main"]
            PROVE  answer'[i] = "none" /\ \A m \in running' : m[1] # i
        BY <3>1, <4>1, <4>2, <4>3, <4>4
      <4> QED BY <4>4 DEF Launched
    <3> QED BY <3>1, <3>4, <3>5, ScriptFacts DEF ReadsOnce
  <2> QED BY <1>4, <2>1, <2>2, <2>3 DEF MainStep, ThreadStep
<1> QED BY <1>2, <1>3, <1>4 DEF Next, Quiet

(* ------------------------------- theorems ---------------------------------- *)

LEMMA Inductive == Spec => []IInv
<1>1. Init => IInv
  <2>1. Init => ReadsOnce
    BY DEF Init, ReadsOnce, Launched, Threads
  <2> QED BY <2>1, ShapeInit, BufferInit, ReadInit, VerdictInit DEF IInv
<1>2. IInv /\ [Next]_vars => IInv'
  <2> SUFFICES ASSUME IInv, [Next]_vars PROVE IInv'
    OBVIOUS
  <2>1. Shape'
    BY ShapeNext DEF IInv
  <2>2. BufferInv'
    BY <2>1, BufferNext DEF IInv
  <2>3. ReadInv'
    BY <2>1, <2>2, ReadNext DEF IInv
  <2>4. VerdictInv'
    BY <2>1, VerdictNext DEF IInv
  <2>5. ReadsOnce'
    BY <2>1, ReadsOnceNext DEF IInv
  <2> QED BY <2>1, <2>2, <2>3, <2>4, <2>5 DEF IInv
<1> QED BY <1>1, <1>2, PTL DEF Spec

(* No kernel is enqueued on the main stream before the copies of the mirror it *)
(* reads have executed on the comm stream: CommWrapper needs no join of the    *)
(* warm thread.                                                                *)
THEOREM KernelsAreFenced == Spec => []FencedReads
<1>1. IInv => FencedReads
  BY DEF IInv, ReadInv
<1> QED BY <1>1, Inductive, PTL

(* Only whole mirrors that nobody has freed are in the cells, whichever thread *)
(* wins a cell and whichever uploads fail.                                     *)
THEOREM CellsHoldWholeMirrors == Spec => []WholeMirrors
<1>1. IInv => WholeMirrors
  BY DEF IInv, BufferInv
<1> QED BY <1>1, Inductive, PTL

(* While a proof runs, and once it has succeeded, no kernel reads a mirror     *)
(* whose free is enqueued.                                                     *)
THEOREM FreedIsNotRead == Spec => []NoReadOfFreed
<1>1. IInv => NoReadOfFreed
  <2> SUFFICES ASSUME IInv, outcome \in {"proving", "ok"}, NEW k \in running
               PROVE  freeAt[k[2]] = 0
    BY DEF NoReadOfFreed
  <2>1. pc["main"] # "finished"
    BY DEF IInv, VerdictInv
  <2> QED BY <2>1, LiveReads DEF IInv
<1> QED BY <1>1, Inductive, PTL

(* When the proof is over, every mirror begun is freed after its copies, or    *)
(* belongs to the params: a lost race or a failed upload leaks nothing.        *)
THEOREM MirrorsAreFreed == Spec => []NothingLeaked
<1>1. IInv => NothingLeaked
  <2> SUFFICES ASSUME IInv, pc["main"] = "finished", NEW b \in Buffers, count[b] > 0,
                      ~(freeAt[b] > lastCopy[b])
               PROVE  \E c \in SrsCells : cell[c] = b
    BY DEF NothingLeaked
  <2>1. \A t \in Threads : pc[t] # "upload"
    BY DEF IInv, Shape, Control, Threads
  <2>2. PICK c \in Cells : cell[c] = b
    BY <2>1 DEF IInv, BufferInv, Accounted
  <2> QED BY <2>2, ScriptAssumption DEF IInv, BufferInv, Dropped
<1> QED BY <1>1, Inductive, PTL

(* A mirror is set once: an access never sees the cell it borrowed from change *)
(* until the proving key is dropped.                                           *)
THEOREM MirrorsAreSetOnce == Spec => SetOnce
<1>1. IInv /\ [Next]_vars =>
        [\A c \in Cells : cell[c] # NoBuf =>
            \/ cell'[c] = cell[c]
            \/ c \notin SrsCells /\ pc["main"] = "leave" /\ pc'["main"] = "finished"]_vars
  <2> SUFFICES ASSUME IInv, [Next]_vars, NEW c \in Cells, cell[c] # NoBuf, cell'[c] # cell[c]
               PROVE  c \notin SrsCells /\ pc["main"] = "leave" /\ pc'["main"] = "finished"
    OBVIOUS
  <2>1. Leave
    BY CellsKept DEF IInv
  <2> QED BY <2>1 DEF Leave, Goto, IInv, Shape, TypeOK, Threads
<1> QED BY <1>1, Inductive, PTL DEF Spec, SetOnce

(* The mirrors implement MirrorReads, safety part: a proof that succeeds has   *)
(* read the host polynomials' bytes at every access.                           *)
THEOREM MirrorsImplementReads == Spec => Reads!Init /\ [][Reads!Next]_(Reads!vars)
<1>1. Init => Reads!Init
  BY DEF Init, Reads!Init, Verdict, Threads
<1>2. IInv /\ IInv' /\ [Next]_vars => [Reads!Next]_(Reads!vars)
  <2> SUFFICES ASSUME IInv, IInv', [Next]_vars PROVE [Reads!Next]_(Reads!vars)
    OBVIOUS
  <2> DEFINE bytes == {i \in Uses : answer[i] = "bytes"}
  <2> USE DEF cells, bufs, comm, kernels, Goto, Threads
  <2>1. CASE Leave
    <3>1. /\ pc["main"] = "leave" /\ pc'["main"] = "finished" /\ UNCHANGED answer
          /\ Verdict = "proving" /\ outcome # "ok"
          /\ outcome' = "ok" => outcome = "proving"
          /\ outcome' # "proving"
      BY <2>1 DEF Leave, IInv, Shape, TypeOK, VerdictInv, Verdict
    <3>2. outcome' = "ok" => bytes = Uses
      BY <3>1 DEF IInv, Shape, TypeOK, VerdictInv, Answered
    <3>3. Verdict' = IF outcome' = "ok" THEN "ok" ELSE "failed"
      BY <3>1 DEF Verdict
    <3> QED BY <3>1, <3>2, <3>3 DEF Reads!Next, Reads!Succeed, Reads!Fail
  <2>2. CASE KernelStep \/ UploadFailPk("main")
    <3>1. \E j \in Uses : /\ answer[j] = "none"
                          /\ \E x \in {"none", "bytes", "garbage"} : answer' = [answer EXCEPT ![j] = x]
      <4>1. CASE KernelStep
        BY <4>1 DEF KernelStep, IInv, Shape, TypeOK, ReadsOnce
      <4>2. CASE UploadFailPk("main")
        <5>1. MainScript[at["main"]].absent \in Policies /\ Absent /\ pc["main"] = "upload"
          BY <4>2, ScriptFacts DEF UploadFailPk, IInv, Shape, TypeOK
        <5>2. answer[at["main"]] = "none" /\ at["main"] \in Uses
          BY <5>1 DEF IInv, ReadsOnce, Shape, TypeOK
        <5>3. \/ answer' = [answer EXCEPT ![at["main"]] = "bytes"]
              \/ answer' = [answer EXCEPT ![at["main"]] = "none"]
          BY <5>1, <5>2 DEF Absent, Policies, IInv, Shape, TypeOK
        <5> QED BY <5>2, <5>3
      <4> QED BY <2>2, <4>1, <4>2
    <3>2. Verdict' = Verdict
      <4>1. CASE KernelStep
        BY <4>1 DEF KernelStep, Verdict
      <4>2. CASE UploadFailPk("main")
        <5>1. MainScript[at["main"]].absent \in Policies /\ Absent /\ pc["main"] = "upload"
          BY <4>2, ScriptFacts DEF UploadFailPk, IInv, Shape, TypeOK
        <5>2. pc'["main"] # "finished"
          BY <5>1 DEF Absent, Policies, GiveUp, IInv, Shape, TypeOK
        <5>3. Verdict = "proving"
          BY <5>1 DEF Verdict
        <5>4. Verdict' = "proving"
          BY <5>2 DEF Verdict
        <5> QED BY <5>3, <5>4
      <4> QED BY <2>2, <4>1, <4>2
    <3>3. PICK j \in Uses : /\ answer[j] = "none"
                           /\ \E x \in {"none", "bytes", "garbage"} : answer' = [answer EXCEPT ![j] = x]
      BY <3>1
    <3>4. {i \in Uses : answer'[i] = "bytes"} \in {bytes, bytes \cup {j}}
      BY <3>3 DEF IInv, Shape, TypeOK
    <3>5. CASE {i \in Uses : answer'[i] = "bytes"} = bytes
      BY <3>2, <3>5 DEF Reads!vars
    <3>6. CASE {i \in Uses : answer'[i] = "bytes"} = bytes \cup {j}
      BY <3>2, <3>3, <3>6 DEF Reads!Next, Reads!Read
    <3> QED BY <3>4, <3>5, <3>6
  <2>3. CASE ~Leave /\ ~KernelStep /\ ~UploadFailPk("main")
    <3>1. answer' = answer
      BY <2>3 DEF Next, MainStep, WarmStep, ThreadStep, Quiet, vars, Bind, BindFail, Hit, Miss,
         Upload, UploadFailPk, UploadFailSrs, Publish, Deref, SyncEnd, Launch, Drained, GpuError,
         Join, CommStep
    <3>2. \/ outcome' = outcome
          \/ pc["main"] # "finished" /\ outcome \notin {"ok"} 
      BY <2>3 DEF Next, MainStep, WarmStep, ThreadStep, Quiet, vars, Bind, BindFail, Hit, Miss,
         Upload, UploadFailPk, UploadFailSrs, Publish, Deref, SyncEnd, Launch, Drained, GpuError,
         GiveUp, Join, CommStep, IInv, VerdictInv, Shape, TypeOK, Control
    <3>3. pc'["main"] = "finished" <=> pc["main"] = "finished"
      BY <2>3 DEF Next, MainStep, WarmStep, ThreadStep, Quiet, vars, Bind, BindFail, Hit, Miss,
         MayStart, Upload, UploadFailPk, UploadFailSrs, Publish, Deref, SyncEnd, Launch, Drained,
         GpuError, GiveUp, Join, CommStep, Advance, IInv, Shape, TypeOK, Control
    <3>4. Verdict' = Verdict
      BY <3>2, <3>3 DEF Verdict, IInv, VerdictInv
    <3> QED BY <3>1, <3>4 DEF Reads!vars
  <2> QED BY <2>1, <2>2, <2>3
<1> QED BY <1>1, <1>2, Inductive, PTL DEF Spec
==============================================================================
