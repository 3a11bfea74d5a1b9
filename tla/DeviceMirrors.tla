---------------------------- MODULE DeviceMirrors ----------------------------
(* The device mirrors of one proof: a warm thread and the prover thread fill   *)
(* the same set-once cells, both enqueue their uploads on HALO2_COMM_STREAM,   *)
(* and only the prover thread launches kernels (on the main stream) that read  *)
(* the mirrors.  Every published mirror is wrapped in a CommWrapper whose      *)
(* first deref synchronizes the comm stream.                                   *)
(*                                                                             *)
(* The comm stream executes its operations in the order they were enqueued, so *)
(* it is kept as two counters, sent and done: operation number n has executed  *)
(* when n <= done.  A buffer remembers the number of its last copy and of its  *)
(* free.  Kernels of the main stream are the set running: nothing here depends *)
(* on their order among themselves, so TLC may complete them in any order.     *)
EXTENDS Integers, Sequences

CONSTANTS
    Cells,       \* the set-once cells: the pk's seven and the params' two
    SrsCells,    \* those filled by get_or_init (the SRS bases of ParamsKZG)
    Polys,       \* Polys[c]: the uploads that make up the mirror of c
    WarmScript,  \* the cells warm_pk_device_caches touches, in order
    MainScript,  \* the prover's accesses: [cell, absent, then] records
    JoinAt,      \* the access before which the prover joins the warm thread
    NoBuf

Policies == {"host", "error", "panic"}   \* what the prover does without a mirror
\* An access only borrows the mirror for kernels launched later, launches every
\* kernel it has borrowed for, or also waits for the main stream afterwards.
Modes    == {"borrow", "launch", "drain"}
Uses     == DOMAIN MainScript
Threads  == {"main", "warm"}
Buffers  == ({"main"} \X Uses) \cup ({"warm"} \X DOMAIN WarmScript)

ASSUME ScriptAssumption ==
    /\ SrsCells \subseteq Cells
    /\ Polys \in [Cells -> Nat \ {0}]
    /\ WarmScript \in Seq(Cells)
    /\ MainScript \in Seq([cell : Cells, absent : Policies, then : Modes])
    /\ Uses # {}
    /\ MainScript[Len(MainScript)].then = "drain"
    /\ \A c \in SrsCells : Polys[c] = 1
    /\ JoinAt \in Uses
    /\ NoBuf \notin Buffers

VARIABLES
    cell,      \* cell[c]: the published buffer of c, or NoBuf
    filling,   \* SRS cells inside get_or_init
    synced,    \* buffers whose CommWrapper has been dereferenced
    pc, at,    \* per thread: what it does next, and which access it is in
    count,     \* count[b]: copies of b enqueued so far
    lastCopy,  \* lastCopy[b]: number of b's last copy on the comm stream
    freeAt,    \* freeAt[b]: number of b's free on the comm stream, 0 if none
    sent, done,\* operations enqueued on, and executed by, the comm stream
    fence,     \* what the prover's pending synchronize waits for
    running,   \* main-stream kernels not executed yet: <<access, buffer>>
    answer,    \* answer[i]: what access i read, "none" before it did
    outcome    \* of the proof

cells   == <<cell, filling, synced>>
bufs    == <<count, lastCopy, freeAt>>
comm    == <<sent, done>>
kernels == <<running, answer>>
vars    == <<cells, pc, at, bufs, comm, fence, kernels, outcome>>

Outcomes == {"proving", "ok", "error", "absent_panic", "upload_panic", "join_panic"}

CellAt(t, i) == IF t = "main" THEN MainScript[i].cell ELSE WarmScript[i]
Wanted(t)    == CellAt(t, at[t])
Mine(t)      == <<t, at[t]>>
Length(t)    == IF t = "main" THEN Len(MainScript) ELSE Len(WarmScript)

Copied(b) == count[b] = Polys[CellAt(b[1], b[2])] /\ lastCopy[b] <= done
Freed(b)  == freeAt[b] # 0 /\ freeAt[b] <= done

Init ==
    /\ cell = [c \in Cells |-> NoBuf]
    /\ filling = {}
    /\ synced = {}
    /\ pc = [t \in Threads |-> IF t = "main" THEN "next" ELSE "bind"]
    /\ at = [t \in Threads |-> 1]
    /\ count = [b \in Buffers |-> 0]
    /\ lastCopy = [b \in Buffers |-> 0]
    /\ freeAt = [b \in Buffers |-> 0]
    /\ sent = 0
    /\ done = 0
    /\ fence = 0
    /\ running = {}
    /\ answer = [i \in Uses |-> "none"]
    /\ outcome = "proving"

(* ---------------------------- moving along a script --------------------- *)

Goto(t, l) == pc' = [pc EXCEPT ![t] = l]

\* The thread is through with its current access.
Advance(t) ==
    IF at[t] < Length(t)
    THEN /\ at' = [at EXCEPT ![t] = @ + 1]
         /\ Goto(t, "next")
    ELSE /\ at' = at
         /\ Goto(t, IF t = "main" THEN "leave" ELSE "ended")

\* The prover gives up: the closure of thread::scope returns or unwinds.
GiveUp(verdict) ==
    /\ outcome' = verdict
    /\ Goto("main", "leave")

(* ------------------------------ the warm thread -------------------------- *)

\* ensure_current_device_matches_ctx: on failure the thread returns at once.
Bind ==
    /\ pc["warm"] = "bind"
    /\ Goto("warm", IF WarmScript = <<>> THEN "ended" ELSE "next")
    /\ UNCHANGED <<cells, at, bufs, comm, fence, kernels, outcome>>

BindFail ==
    /\ pc["warm"] = "bind"
    /\ Goto("warm", "ended")
    /\ UNCHANGED <<cells, at, bufs, comm, fence, kernels, outcome>>

(* ---------------------------- filling a cell ------------------------------ *)

MayStart(t) == pc[t] = "next" /\ (t = "main" => at["main"] # JoinAt \/ pc["warm"] = "joined")

\* OnceCell::get finds the cell set: the warm thread never derefs.
Hit(t) ==
    /\ MayStart(t)
    /\ cell[Wanted(t)] # NoBuf
    /\ IF t = "main" THEN Goto(t, "deref") /\ at' = at ELSE Advance(t)
    /\ UNCHANGED <<cells, bufs, comm, fence, kernels, outcome>>

\* Mutant: a pk cell is claimed as well, like one filled by get_or_init.
MissClaims(t) ==
    /\ MayStart(t)
    /\ cell[Wanted(t)] = NoBuf
    /\ Wanted(t) \notin filling
    /\ filling' = filling \cup {Wanted(t)}
    /\ Goto(t, "upload")
    /\ UNCHANGED <<cell, synced, at, bufs, comm, fence, kernels, outcome>>

\* The cell is empty: a pk cell is uploaded by whoever sees it empty; an SRS
\* cell by the one thread that enters get_or_init, the other blocks there.
Miss(t) ==
    /\ MayStart(t)
    /\ cell[Wanted(t)] = NoBuf
    /\ Wanted(t) \notin filling
    /\ filling' = filling \cup ({Wanted(t)} \cap SrsCells)
    /\ Goto(t, "upload")
    /\ UNCHANGED <<cell, synced, at, bufs, comm, fence, kernels, outcome>>

\* One to_device_on(&HALO2_COMM_STREAM) of the upload loop.
Upload(t) ==
    /\ pc[t] = "upload"
    /\ count[Mine(t)] < Polys[Wanted(t)]
    /\ sent' = sent + 1
    /\ count' = [count EXCEPT ![Mine(t)] = @ + 1]
    /\ lastCopy' = [lastCopy EXCEPT ![Mine(t)] = sent + 1]
    /\ UNCHANGED <<cells, pc, at, freeAt, done, fence, kernels, outcome>>

\* Mutant: the losing or partial mirror is forgotten instead of dropped.
DropMineLeaks(t) == UNCHANGED <<freeAt, sent>>

\* Dropping a mirror that is not published enqueues its free.
DropMine(t) ==
    IF count[Mine(t)] = 0
    THEN UNCHANGED <<freeAt, sent>>
    ELSE /\ freeAt' = [freeAt EXCEPT ![Mine(t)] = sent + 1]
         /\ sent' = sent + 1

\* The prover's reaction to a mirror it cannot have.
Absent ==
    LET use == MainScript[at["main"]]
    IN  CASE use.absent = "host"  -> /\ answer' = [answer EXCEPT ![at["main"]] = "bytes"]
                                     /\ Goto("main", "launch")
                                     /\ UNCHANGED <<at, outcome>>
          [] use.absent = "error" -> GiveUp("error") /\ UNCHANGED <<at, answer>>
          [] use.absent = "panic" -> GiveUp("absent_panic") /\ UNCHANGED <<at, answer>>

\* One upload of the loop fails: the partial pk mirror is dropped and the getter
\* returns None, leaving the cell empty for the next caller.
UploadFailPk(t) ==
    /\ pc[t] = "upload"
    /\ Wanted(t) \notin SrsCells
    /\ count[Mine(t)] < Polys[Wanted(t)]
    /\ DropMine(t)
    /\ IF t = "main" THEN Absent ELSE Advance(t) /\ UNCHANGED <<answer, outcome>>
    /\ UNCHANGED <<cells, count, lastCopy, done, fence, running>>

\* Mutant: the cell stays claimed by the thread that panicked.
UploadFailSrsHeld(t) ==
    /\ pc[t] = "upload"
    /\ Wanted(t) \in SrsCells
    /\ count[Mine(t)] < Polys[Wanted(t)]
    /\ IF t = "main" THEN GiveUp("upload_panic")
                     ELSE Goto(t, "panicked") /\ UNCHANGED outcome
    /\ UNCHANGED <<cells, at, bufs, comm, fence, kernels>>

\* An SRS upload that fails panics inside get_or_init, which leaves the cell
\* uninitialized and lets a blocked thread in.
UploadFailSrs(t) ==
    /\ pc[t] = "upload"
    /\ Wanted(t) \in SrsCells
    /\ count[Mine(t)] < Polys[Wanted(t)]
    /\ filling' = filling \ {Wanted(t)}
    /\ IF t = "main" THEN GiveUp("upload_panic")
                     ELSE Goto(t, "panicked") /\ UNCHANGED outcome
    /\ UNCHANGED <<cell, synced, at, bufs, comm, fence, kernels>>

\* Mutant: the cell is published after the first upload of the loop.
PublishPartial(t) ==
    /\ pc[t] = "upload"
    /\ count[Mine(t)] > 0
    /\ IF cell[Wanted(t)] = NoBuf
       THEN /\ cell' = [cell EXCEPT ![Wanted(t)] = Mine(t)]
            /\ UNCHANGED <<freeAt, sent>>
       ELSE DropMine(t) /\ UNCHANGED cell
    /\ filling' = filling \ {Wanted(t)}
    /\ IF t = "main" THEN Goto(t, "deref") /\ at' = at ELSE Advance(t)
    /\ UNCHANGED <<synced, count, lastCopy, done, fence, kernels, outcome>>

\* Mutant: the later thread replaces the mirror of the first and drops that one.
PublishReplaces(t) ==
    /\ pc[t] = "upload"
    /\ count[Mine(t)] = Polys[Wanted(t)]
    /\ cell' = [cell EXCEPT ![Wanted(t)] = Mine(t)]
    /\ IF cell[Wanted(t)] = NoBuf
       THEN UNCHANGED <<freeAt, sent>>
       ELSE /\ freeAt' = [freeAt EXCEPT ![cell[Wanted(t)]] = sent + 1]
            /\ sent' = sent + 1
    /\ filling' = filling \ {Wanted(t)}
    /\ IF t = "main" THEN Goto(t, "deref") /\ at' = at ELSE Advance(t)
    /\ UNCHANGED <<synced, count, lastCopy, done, fence, kernels, outcome>>

\* cell.set(CommWrapper::new(mirror)); the loser's mirror is dropped, and
\* cell.get() returns whichever won.
Publish(t) ==
    /\ pc[t] = "upload"
    /\ count[Mine(t)] = Polys[Wanted(t)]
    /\ IF cell[Wanted(t)] = NoBuf
       THEN /\ cell' = [cell EXCEPT ![Wanted(t)] = Mine(t)]
            /\ UNCHANGED <<freeAt, sent>>
       ELSE DropMine(t) /\ UNCHANGED cell
    /\ filling' = filling \ {Wanted(t)}
    /\ IF t = "main" THEN Goto(t, "deref") /\ at' = at ELSE Advance(t)
    /\ UNCHANGED <<synced, count, lastCopy, done, fence, kernels, outcome>>

(* ------------------------- the prover's accesses -------------------------- *)

\* The first deref of the wrapper: Once::call_once synchronizes the comm stream,
\* that is, waits for everything enqueued on it when the call is made.
Deref ==
    /\ pc["main"] = "deref"
    /\ IF cell[Wanted("main")] \in synced
       THEN Goto("main", "launch") /\ UNCHANGED fence
       ELSE Goto("main", "sync") /\ fence' = sent
    /\ UNCHANGED <<cells, at, bufs, comm, kernels, outcome>>

\* Mutant: the deref does not wait for the comm stream.
SyncEndUnfenced ==
    /\ pc["main"] = "sync"
    /\ synced' = synced \cup {cell[Wanted("main")]}
    /\ Goto("main", "launch")
    /\ UNCHANGED <<cell, filling, at, bufs, comm, fence, kernels, outcome>>

SyncEnd ==
    /\ pc["main"] = "sync"
    /\ fence <= done
    /\ synced' = synced \cup {cell[Wanted("main")]}
    /\ Goto("main", "launch")
    /\ UNCHANGED <<cell, filling, at, bufs, comm, fence, kernels, outcome>>

\* The accesses borrowed for so far whose kernels are not launched yet.
Borrowed ==
    {i \in 1..at["main"] : answer[i] = "none" /\ \A k \in running : k[1] # i}

\* Mutant: the mirrors borrowed by earlier accesses get no kernel.
LaunchForgetsBorrowed ==
    /\ pc["main"] = "launch"
    /\ running' = IF MainScript[at["main"]].then = "borrow" THEN running
                  ELSE running \cup {<<i, cell[CellAt("main", i)]>> :
                                        i \in Borrowed \cap {at["main"]}}
    /\ IF MainScript[at["main"]].then = "drain" THEN Goto("main", "drain") /\ at' = at
                                               ELSE Advance("main")
    /\ UNCHANGED <<cells, bufs, comm, fence, answer, outcome>>

\* The access has its polynomials; unless it only borrows them, kernels that read the
\* mirrors borrowed so far are enqueued, and an access whose result is read back
\* (an MSM, a batch of evaluations) also waits for the main stream.
Launch ==
    /\ pc["main"] = "launch"
    /\ running' = IF MainScript[at["main"]].then = "borrow" THEN running
                  ELSE running \cup {<<i, cell[CellAt("main", i)]>> : i \in Borrowed}
    /\ IF MainScript[at["main"]].then = "drain" THEN Goto("main", "drain") /\ at' = at
                                               ELSE Advance("main")
    /\ UNCHANGED <<cells, bufs, comm, fence, answer, outcome>>

\* Mutant: the access returns before the main stream is idle.
DrainedEarly ==
    /\ pc["main"] = "drain"
    /\ Advance("main")
    /\ UNCHANGED <<cells, bufs, comm, fence, kernels, outcome>>

Drained ==
    /\ pc["main"] = "drain"
    /\ running = {}
    /\ Advance("main")
    /\ UNCHANGED <<cells, bufs, comm, fence, kernels, outcome>>

\* Any other GPU call of the access may fail: the closure returns the error.
GpuError ==
    /\ pc["main"] \in {"launch", "drain"}
    /\ GiveUp("error")
    /\ UNCHANGED <<cells, at, bufs, comm, fence, kernels>>

\* handle.join() after phase 4b.
Join ==
    /\ pc["main"] = "next"
    /\ at["main"] = JoinAt
    /\ \/ /\ pc["warm"] = "ended"
          /\ Goto("warm", "joined")
          /\ UNCHANGED outcome
       \/ /\ pc["warm"] = "panicked"
          /\ GiveUp("join_panic")
    /\ UNCHANGED <<cells, at, bufs, comm, fence, kernels>>

\* thread::scope returns once the warm thread has ended (a panic of a thread
\* that was never joined is raised here); then the GpuProvingKey is dropped and
\* the frees of its mirrors are enqueued on the comm stream.
Leave ==
    /\ pc["main"] = "leave"
    /\ pc["warm"] \in {"ended", "panicked", "joined"}
    /\ outcome' = CASE outcome = "proving" -> "ok"
                    [] outcome = "error" /\ pc["warm"] = "panicked" -> "join_panic"
                    [] OTHER -> outcome
    /\ LET dropped == {cell[c] : c \in Cells \ SrsCells} \ {NoBuf}
       IN  /\ freeAt' = [b \in Buffers |-> IF b \in dropped THEN sent + 1 ELSE freeAt[b]]
           /\ sent' = IF dropped = {} THEN sent ELSE sent + 1
    /\ cell' = [c \in Cells |-> IF c \in SrsCells THEN cell[c] ELSE NoBuf]
    /\ Goto("main", "finished")
    /\ UNCHANGED <<filling, synced, at, count, lastCopy, done, fence, kernels>>

(* ------------------------------ the two streams --------------------------- *)

CommStep ==
    /\ done < sent
    /\ done' = done + 1
    /\ UNCHANGED <<cells, pc, at, bufs, sent, fence, kernels, outcome>>

\* A kernel reads its buffer: the mirror's bytes if every copy has landed and the
\* buffer has not been freed.
KernelStep ==
    /\ \E k \in running :
          /\ running' = running \ {k}
          /\ answer' = [answer EXCEPT ![k[1]] =
                           IF Copied(k[2]) /\ ~Freed(k[2]) THEN "bytes" ELSE "garbage"]
    /\ UNCHANGED <<cells, pc, at, bufs, comm, fence, outcome>>

\* The proof is over and both streams are idle.
Quiet ==
    /\ pc["main"] = "finished"
    /\ done = sent
    /\ running = {}
    /\ UNCHANGED vars

ThreadStep(t) ==
    \/ Hit(t) \/ Miss(t) \/ Upload(t) \/ UploadFailPk(t) \/ UploadFailSrs(t) \/ Publish(t)

WarmStep == Bind \/ BindFail \/ ThreadStep("warm")

MainStep ==
    \/ ThreadStep("main")
    \/ Deref \/ SyncEnd \/ Launch \/ Drained \/ GpuError \/ Join \/ Leave

Next == MainStep \/ WarmStep \/ CommStep \/ KernelStep \/ Quiet

\* The OS runs both threads and the device runs both streams.
Fairness ==
    /\ WF_vars(MainStep)
    /\ WF_vars(WarmStep)
    /\ WF_vars(CommStep)
    /\ WF_vars(KernelStep)

Spec == Init /\ [][Next]_vars /\ Fairness

(* ------------------------------- properties ------------------------------- *)

TypeOK ==
    /\ cell \in [Cells -> Buffers \cup {NoBuf}]
    /\ filling \subseteq SrsCells
    /\ synced \subseteq Buffers
    /\ pc \in [Threads -> {"bind", "next", "upload", "deref", "sync", "launch", "drain", "leave",
                           "finished", "ended", "panicked", "joined"}]
    /\ at \in [Threads -> Nat]
    /\ at["main"] \in Uses
    /\ count \in [Buffers -> Nat]
    /\ lastCopy \in [Buffers -> Nat]
    /\ freeAt \in [Buffers -> Nat]
    /\ sent \in Nat /\ done \in Nat /\ done <= sent
    /\ fence \in Nat
    /\ running \subseteq Uses \X Buffers
    /\ answer \in [Uses -> {"none", "bytes", "garbage"}]
    /\ outcome \in Outcomes

\* A kernel is never on the main stream before every copy of the mirror it reads
\* has executed on the comm stream: CommWrapper's fence and its claim that no join
\* of the warm thread is needed (utils.rs).
FencedReads == \A k \in running : Copied(k[2])

\* What a cell holds while the proof runs is a whole mirror that nobody has freed:
\* a partial upload, or the copy of the thread that lost the race, is never seen.
WholeMirrors ==
    \A c \in Cells : cell[c] # NoBuf =>
        /\ CellAt(cell[c][1], cell[c][2]) = c
        /\ count[cell[c]] = Polys[c]
        /\ freeAt[cell[c]] = 0

\* No kernel of a proof that runs or has succeeded reads a mirror whose free is
\* enqueued: the last access waits for the main stream before the pk is dropped.
NoReadOfFreed == outcome \in {"proving", "ok"} => \A k \in running : freeAt[k[2]] = 0

\* Device memory: once the proof is over every mirror any thread began to upload
\* is freed, after its copies, unless the params own it.
NothingLeaked ==
    pc["main"] = "finished" =>
        \A b \in Buffers : count[b] > 0 =>
            \/ freeAt[b] > lastCopy[b]
            \/ \E c \in SrsCells : cell[c] = b

\* A mirror is set once: what an access has borrowed stays what the cell holds
\* until the pk is dropped, and the params keep theirs for the next proof.
SetOnce ==
    [][\A c \in Cells : cell[c] # NoBuf =>
          \/ cell'[c] = cell[c]
          \/ c \notin SrsCells /\ pc["main"] = "leave" /\ pc'["main"] = "finished"]_vars

\* Every proof ends: the prover is never stuck behind get_or_init, the comm
\* stream's fence or the join, whichever uploads fail.
ProofEnds == <>(pc["main"] = "finished")

\* The mirrors implement MirrorReads.
Verdict == IF pc["main"] # "finished" THEN "proving"
           ELSE IF outcome = "ok" THEN "ok" ELSE "failed"

Reads == INSTANCE MirrorReads WITH
             Accesses <- Uses,
             read <- {i \in Uses : answer[i] = "bytes"},
             verdict <- Verdict

ImplementsMirrorReads == Reads!Spec

\* The doc of the getters (plonk.rs) and the comment of phase 5 (prover.rs) say
\* that a mirror that could not be uploaded leaves a host fallback.
AbsenceIsNotFatal == outcome # "absent_panic"
==============================================================================
