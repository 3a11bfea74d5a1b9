# A verification project for halo2-gpu

TLA+ models of the prover, the verifier and the GPU plumbing of `halo2-gpu`, TLC runs
that check them on small instances, and TLAPS proofs that hold for every instance.
Paths such as `plonk/prover.rs` are under `src/halo2_proofs/src/`.

halo2-gpu is a PLONKish prover whose polynomials live on a CUDA device. A circuit's
shape gives a proving key; `create_proof` synthesizes a witness, commits to it and walks
through lookup, permutation and quotient phases, deriving every challenge from a
transcript, and closes with a KZG multiopen. `verify_proof` replays the transcript. Most
of the cryptography is algebra that a test finds wrong at once. What tests reach badly is
everything around it: two threads and two CUDA streams sharing mirrors of the key, the
order of several hundred reads and writes that two functions must agree on, host and
device versions of one algorithm, and work that is cut into chunks at run time.

## Inventory

| Component | State it keeps | Operations | What is hard | What makes it correct |
|---|---|---|---|---|
| Device mirrors (`plonk.rs`, `poly/kzg/commitment.rs`, `cuda/utils.rs`) | seven `OnceCell`s of `GpuProvingKey`, two `OnceLock`s of `ParamsKZG`, a fence per mirror | getters that upload on a miss, `warm_pk_device_caches` on a second thread, drop | races between threads, two streams, failing uploads, panics inside `get_or_init` | no kernel reads a mirror before it is copied or after it is freed; nothing leaks; every proof ends |
| Transcript protocol (`plonk/prover.rs`, `plonk/verifier.rs`) | the transcript of each side, the proof | phases 1 to 5, `verify_proof` | ordering between two hand-written sequences | both sides absorb the same, open the same, and challenges bind what they must |
| Witness (`plonk/witness.rs`) | advice columns, challenges | synthesis, `next_phase`, `convert_raw_advice` | two ways in, phases | the transcript is that of the verifier |
| Lookup (`plonk/lookup/`, `cuda/funcs/lookup.rs`, `grand_product.rs`, kernels) | permuted columns, running product | permute (device, sequential, parallel), product, constraints | hash order, threads, fallback, chunks | the pair is a permutation; the constraints hold exactly for lookups |
| Permutation (`plonk/permutation/`) | mapping, aux, sizes; products and their carry | `copy`, sigma columns, chained products, constraints | union of rings, sets and their last one | the cycles are the classes of the copies; the constraints hold exactly for equal cells |
| Vanishing (`plonk/vanishing/`) | random polynomial, h pieces | commit, construct, evaluate | number of pieces, residency of the quotient | as many pieces as the verifier reads; their fold opens to the value the gates give |
| SHPLONK and GWC (`poly/kzg/multiopen/`) | rotation sets | group queries, fold, divide | hash sets on both sides | prover and verifier weight every commitment alike |
| Constraint system (`plonk/circuit.rs`, `compress_selectors.rs`) | columns, queries, gates, selectors | configure, query, compress or convert selectors, convert from the canonical system | indices, degrees and their cap, which selectors may share a column | every cell finds its query; a packed selector is non-zero exactly where it was enabled; the degree stays what the domain was built for |
| `Assigned` and batch inversion (`plonk/assigned.rs`, `poly.rs`) | cells as fractions | arithmetic, evaluation in one batch | x/0, zeros in a batch, chunks and groups | a cell evaluates to what it stands for, on host and device |
| Quotient evaluator (`plonk/evaluation.rs`, `cpu/evaluator.rs`, `quotient.cu`) | graph of calculations, packed rules, windows of rows | compile, flatten, pack, evaluate | common subexpressions, renumbering, batches and rotations that wrap | each coset holds what the verifier folds |
| Evaluation domain (`poly/domain.rs`, `cuda/funcs/ntt.rs`) | sizes, twiddles | transforms by residency, split radix, parts of the extended domain, division by the vanishing polynomial | a dozen arms of one conversion, order of the parts | every form is of the same polynomial |
| Key generation (`plonk/keygen.rs`) | the assembly | `copy`, `assign_fixed`, `fill_from_row`, `enable_selector` | row bounds, assertions that depend on what was configured | nothing reaches blinding rows; the key means what the circuit assigned |
| GPU pools and chunking (`cuda/funcs/`) | column pointers, scratch buffers | init, upload, split by free memory | failures half way, chunk sizes at zero | no partial pool is read; results do not depend on the chunks |
| KZG parameters (`poly/kzg/commitment.rs`) | SRS bases | commit, downsize, serialize | stale mirrors, thresholds | commits use bases of the current size |
| IPA, CUDA arithmetic, circuit layouting, tooling | | | algebra, or other crates | out of scope (see below) |

Interactions. `create_proof` synthesizes the witness and calls
`create_proof_from_advice`, which makes a `GpuProvingKey` and starts a thread
(`warm_pk_device_caches`) that uploads the mirrors while the prover goes through its
phases. Prover and verifier share nothing but the verifying key and the proof. The
permutation's sigma columns are made by key generation from the copies of the circuit and
used by both sides. Lookup and permutation products both go through one chunked scan. The
openings of all arguments are handed to the multiopen, which groups them. Key generation
runs a circuit's `configure` and synthesis, rewrites the constraint system's selectors as
fixed columns and evaluates what was assigned as fractions; the prover converts the
resulting system into its own fork. The quotient evaluator compiles that system's gates
and lookups, and reads columns that the evaluation domain has brought to one coset of the
extended domain at a time; the vanishing argument divides what it wrote.

## Modules

| Module | What it models | Correspondence |
|---|---|---|
| `DeviceMirrors` | The mirrors of one proof, both threads and both streams | `cell` the cells, `pc`/`at` where each thread is in its script of accesses, `count`/`lastCopy`/`freeAt` the operations on each buffer, `sent`/`done` the comm stream, `running` the kernels of the main stream, `synced`/`fence` the `Once` of `CommWrapper`. One action per step of a getter (`Hit`, `Miss`, `Upload`, `UploadFailPk`, `UploadFailSrs`, `Publish`), of an access (`Deref`, `SyncEnd`, `Launch`, `Drained`, `GpuError`), of the threads (`Bind`, `Join`, `Leave`) and of the streams |
| `MirrorReads` | What the mirrors promise: a proof that succeeds has read the host's bytes at every access | abstract specification of `DeviceMirrors` |
| `ProofTranscript` | `create_proof` and `verify_proof` as writes and reads of named values | one action per phase of either side; `absorbed` the transcripts, `opened` and `claims` the two lists of openings, `slots` the verifier's name for what it read |
| `LookupArgument` | One lookup: permuted pair in three implementations, chunked product, constraints | `PermuteDevice`, `DeviceFails`, `PermuteSeq`, `PermutePar`, `LookupProduct`, `ScanChunk`; `Accepts` is the verifier |
| `CopyClasses` | What the copies of a circuit mean: a partition of the cells, and with it the copies accepted so far | abstract specification of the assembly as `PermutationProduct` runs it; each of its steps accepts one copy and joins the classes of that copy's two cells |
| `PermutationAssembly` | `Assembly::copy` behind `keygen`'s bounds checks | `mapping`, `aux`, `sizes` as in the source; `Copy`, `Refuse` |
| `PermutationProduct` | The assembly composed with the chained products of the prover and the verifier's constraints | `Assemble`, `Begin`, `CommitSet`; `carry` is `d_last_z`, `delta` the exponent in `deltaomega`; `copied` is a ghost: the calls `keygen` has accepted, against which classes and witnesses are judged rather than against what the assembly made of them |
| `Multiopen` | SHPLONK and GWC from the queries to the pairing check, and `AccumulatorStrategy`'s batch | `Begin` takes the queries, `Group`, `CommitQuotient` and `Linearise` are SHPLONK's prover between its challenges, `GwcProve` is GWC's, `Verify` both verifiers under `process`, `Finalize` the check; `sets` the rotation sets, `acc` the `DualMSM` |
| `Listing` | The places of a set, in order, which both `Multiopen` and `AssignedCells` build on | |
| `AssignedCells` | `Assigned`: fractions whose inversion is put off, and both batch inversions | operators: the arithmetic arm by arm, `HostEvaluated` in chunks for the host's threads, `DeviceEvaluated` by groups of a kernel's threads |
| `ConstraintSystem` | The constraint system a configuration builds, and its rewritings | operators on a record with the source's fields: `Query...`, `CreateGate`, `Lookup`, `LookupAny`, `EnableEquality`, `Degree`, `CompressSelectors`, `DirectlyConvert`, `Rebuilt` |
| `Keygen` | Key generation, which composes the two | `cs` is configured call by call (`Allocate...`, `Call...`), `Begin` sizes the domain, `enabled` and `fixed` are the Assembly's fields and `EnableSelector`, `AssignFixed`, `FillFromRow` its methods, `Compute` the circuit's own arithmetic, `Finish` either rewriting of the selectors, `Load` the prover's conversion. `meant` is a ghost: what each assigned cell stands for |
| `GraphEvaluator` | The compiler of expressions, the host interpreter, flattening, packing, and the kernel with its windows | operators: `AddExpression` and the `Add...` below it are `add_expression` arm by arm, `Flatten` and `Program` the encoders, `Launches` the loop over batches, `KernelRow` a thread |
| `Quotient` | Phase 2's compressed columns and the quotient's numerator, on the device and on the host | `PreparePool`, `Fused`, `Unfused` are `compress_expressions` with its fallbacks; `BeginPart`, `AddPermutations`, `AddLookup`, `EndPart`, `Assemble` are `evaluate_h` part by part; `pool` is a `ColumnPool` |
| `EvaluationDomain` | The conversions between the forms of a polynomial | operators named for the methods of `EvaluationDomain`; `Prologue`, `Epilogue` and `SplitRadix` are `ntt.rs` |
| `VanishingArgument` | One gate from columns to the verifier's check, by every arm of every conversion | `resident` and the `at` of each form say where it lives; `Interpolate...`, `Extend...`, `Gather...` are the methods by residency, `Construct` and `Evaluate` the prover's, `Verify` the verifier |
| `DeviceMirrorsProofs`, `PermutationProductProofs`, `ProofTranscriptProofs`, `LookupArgumentProofs`, `KeygenProofs`, `MultiopenProofs`, `VanishingArgumentProofs` | Theorems and proofs about the module each is named for, and about the one it is built on: `KeygenProofs` about `AssignedCells`, `PermutationProductProofs` about `PermutationAssembly`, `VanishingArgumentProofs` about `EvaluationDomain` | |
| `DataInduction` | Lemmas: induction over numbers and what follows for sequences | |
| `MC...` | Instances for TLC | |

Where order and control are the question, data is abstract: a polynomial, its commitment
and its evaluations are names, a challenge is the mark its squeeze leaves in the
transcript, and a product of `(value + random)` factors is the exponent of each factor,
which decides equality up to the negligible chance that random challenges collide. Where
the arithmetic is the question it is done in a field. `Multiopen`'s is any field, given by
its operations and their laws (`FieldAssumption`), which its run instantiates with 13
elements; the polynomial's value at the secret stands for a commitment. `AssignedCells` is
over the integers modulo a number, checked with 7. So is `VanishingArgument`, checked with
97 as `Quotient` is: that field has roots of unity of order 32 and a cube root of one, as
the code's fields have theirs.

Each model says what it takes as given. `get_max_supported_length_on_device`
(`cuda/src/quotient.cu:198`) halves the rows of a batch until they fit and stops at zero only. The
kernel's window copies the rows of a batch and the rows one rotation away, and a batch
shorter than the rotation can need a row in between: of eight rows in batches of two, rows
2 and 3 at rotation -3 need row 0 while the copy starts at row 1, and the kernel reads in
front of its scratch. No document says what such a batch should give. `Quotient`
draws these batches and computes what the kernel does with them, and its two properties
about values leave them out by name: the ghosts `short` record that one went into the
result (`Short`). They are no promise about short batches. `EvaluationDomain` lets each memory
query answer that a vector fits or not. The CUDA side of this commit keeps those queries
as shims that always say it fits (`cuda/src/ntt.cu`, `_halo2_fft_normal_check_memory`), so the split-radix code runs only
with a library that says otherwise; the model covers the Rust code for both answers. The
doc of `lagrange_to_coeff_many_device_inputs` (`poly/domain.rs:326`) describes a VRAM gate
for which there is no code: the model has none.

## Runs

| Run | Question | Bounds, and why they are enough |
|---|---|---|
| `device_mirrors` | With every race and every failed upload, does any kernel read a mirror too early, too late or in part? Does anything leak? Does each proof end, with the host's bytes read if it succeeds? | Three cells, one per behaviour: an SRS cell filled under `get_or_init`, a pk cell of two polynomials (so that it can be uploaded in part) accessed four times under different policies, and one accessed first late, once only borrowed for later kernels. The rest of the real script repeats these |
| `device_mirrors_fallback` | Do the getters' docs hold, that a mirror that is absent only costs a host upload? | as above; violated |
| `transcript` | Do the two sides agree, for every shape of circuit? | 560 shapes: instances queried or absorbed, advice queried at up to four rotations including the last row's, no or two lookups, up to three permutation columns in one to three sets, degrees 3 to 5. Every branch of both functions is taken, and sets are an exact multiple of the chunk as well as not |
| `transcript_phase0_challenge` | Can `create_proof` be used with a challenge after phase 0? | violated |
| `lookup` | Is the permuted pair right in all builds, and do the constraints hold exactly for lookups? | Five usable rows over three values: all 243 inputs against 21 tables, unsorted and including zero, with every hash order, every split of it over threads and every chunk size |
| `lookup_missing` | Does the permutation, when it returns, return permutations? | violated: inputs that are not in the table |
| `assembly` | Does the assembly stay a permutation whose cycles are named and counted rightly, after any sequence of copies? | Six usable cells, two blinding rows: all partitions of the cells and all ways to reach them, and calls that are out of bounds on either side |
| `permutation_product` | Does the assembly join the classes of every copy asked for and no others, and do copies, key, products and constraints together accept exactly the witnesses in which the two cells of every copy are equal? | Three columns in two sets, the last one short; every subset of six copies within and across sets; every witness of two values |
| `multiopen` | Do prover and verifier give every commitment the same weight, though their hash sets iterate in different orders, and does a batch stand for all its proofs? | Four polynomials in three rotation sets of one to three points, claims that are right, wrong once or wrong three times, two proofs in the batch, a challenge that hits a queried point. The field is small, so a wrong claim may cancel by chance: the property says to which sum the check amounts, not that it rejects |
| `keygen` | Does a key, whichever way its selectors became columns, mean what the circuit configured and assigned? | 33 circuits on 16 rows: selectors of degrees 2 to 6 that may share a column or not, under a minimum degree and under the cap, complex and unused ones; the same five calls of `configure` in all 120 orders; fixed cells made from zero, a value, a fraction and x/0 by up to three operations and assigned on the first, last usable and first blinding row; configurations that panic. Field of 7, three host threads and groups of four, so that chunks and groups are ragged |
| `quotient` | With batches no shorter than the rotations read at, does each coset of the numerator hold what the verifier folds, and the compressed columns what the host computes? | 100 circuits of one gate, over all pairs of seven operands, so that each simplification of the compiler meets each other; one with several gates, two lookups, all kinds of columns, rotations from -2 to 2 and two permutation sets of which the last is short; two that read three rows back, in a gate without fixed columns and in a lookup. Eight rows, two cosets, batches of none, a quarter, half and all of the rows, so that for those two a batch of two rows is short and one of four is not, pools that have room or not and uploads that fail at any column. 5 bits for an index and 2 for a rotation are the least that hold them |
| `vanishing` | Whatever arm each conversion takes, is it still the same polynomial, and does the verifier accept exactly the gates that hold? | Eight rows, four cosets, three pieces, so the cut drops a quarter; six circuits of degree four of which two hold; vectors starting on either side, builds with and without `vram-fallback`, all splits a query may answer, a twiddle table of two levels |

The three violated runs check what a doc comment promises; `PROJECT.json` quotes each
under `findings`. In each the code takes a defensible way that its documentation does not
describe.

Deadlock is checked in `device_mirrors`, where `Quiet` is the only state allowed to stop.
The other models describe a computation that ends, `Multiopen`, `Keygen` and `Quotient`
also one that panics or returns an error.

## Fairness

Only `DeviceMirrors` and `ProofTranscript` have liveness properties. `DeviceMirrors`
assumes weak fairness of each thread (the OS schedules both), and of each stream (the
device executes what was enqueued). Nothing is assumed about which uploads fail, nor that
any succeeds: failures are alternatives of a step, not steps that must happen.
`ProofTranscript` assumes weak fairness of its next-state relation, since one side is a
single thread that runs on and the verifier is started with a finished proof.

## Proofs

`DeviceMirrorsProofs` proves, for every set of cells, every number of polynomials in a
mirror and every pair of scripts that satisfy `ScriptAssumption`: the type invariant, all
four safety invariants of the run, set-once, and that each step maps to a step or a
stutter of `MirrorReads`. The invariants are not inductive; `IInv` adds
  - `Control` and `Holding`, where each thread may be and that what an access has passed
    it holds;
  - `BufferInv`, that every buffer that was ever begun is accounted for: in its upload,
    published, or freed after its last copy;
  - `ReadInv`, that a synced mirror has been copied, and that the fence the prover waits
    for covers its copies. This is the argument for reading mirrors of a thread that was
    not joined: a mirror is published only after all its copies were enqueued, so a fence
    taken at or after the first dereference covers them;
  - `VerdictInv` and `ReadsOnce`, that no access is left without an answer when the proof
    succeeds.

The first half of `PermutationProductProofs` proves, for every number of columns and rows and
every sequence of copies, all properties of the run `assembly`. Its invariant is that of a union-find whose classes are also rings: a name
names itself, names are constant along `mapping`, and a set of cells that `mapping` does
not leave holds all cells of a name or none (`Rings`). The last part stands for "the loop
comes back to where it started" without induction over the length of a ring: the swap of
two successors preserves it because any closed set that meets the merged ring must
contain both swapped cells.

The second half proves, for every number of columns, usable rows and sets, every
sequence of copies and every witness: the type invariant, the refinement of `CopyClasses`,
that the carry is the running product over everything committed, and that the verifier
accepts exactly the witnesses in which the two cells of every accepted copy are equal. A line of products is the difference of two counts of
factors, so `Accepts` can be read off: it holds exactly when every cell's value occurs in
the same sum of factors as its successor's along `mapping`. `PInv` adds to the union-find
invariant that nothing is ever assigned a blinding row, and that the carry, the exponent
in `deltaomega` and the lines committed are those of the columns so far (`Proving`). What
ties names to the calls is `History`: the two cells of an accepted call have one name
(`Honoured`), and a set of cells that no accepted call leads out of holds all cells of a
name or none (`Least`), so names are the least partition that honours the calls. With the
cells of one value as that set, a witness equal on every call is equal on every name, and
so along `mapping`.

`LookupArgumentProofs` proves all five properties of the run `lookup`, for every number of
rows, set of values, input and table. `LInv` says that the pair, once made, is right
(`Paired`) and that, however the scan is cut, the rows already scanned hold the ratio of
what the first rows multiply to and the others their own fraction (`Scanned`). Columns are
compared by how many rows hold a value, so the argument is about bijections between rows:
  - a grouped column is one first row for each value and its repeats, and filling the
    repeats one to one from the table's leftover gives a permutation of the table
    (`FilledCounts`). The device numbers the repeats by a count from the last row, the
    sequential build pops them, the parallel build slices;
  - a sorted column is determined by its counts, hence the rows the kernels flag are the
    leftover that the sequential build keeps in its map (`DevicePairIsSequential`);
  - for every order of the hash map and every cut into shares, the joined ranges are laid
    out from row 0, and the end of slice `k` is the end of range `k` less `k`: slices
    follow each other and stay within the leftover (`SlicesFit`);
  - the product ends in one exactly when both columns of the pair are permutations, and
    then the constraints on neighbouring rows hold exactly for inputs in the table
    (`AcceptsLookups`). Missing inputs are covered: there the device and the parallel build
    return a column that is no permutation, and the theorem says the verifier rejects it.

`KeygenProofs` proves all four properties of the run `keygen`, for every number of rows,
every set of circuits and every cap on the degree. `QueriesIndexed` and `DegreeKept` say
that in whatever order a circuit makes its calls and however its selectors are packed, each
cell of an expression is found at its index in a list without duplicates, and neither
rewriting of the selectors raises the degree for which the domain was sized. Assumed of a circuit is `KnownCall`, that it names only columns and
selectors that an earlier call handed it: their types have no public constructor. `KeyInv`
says:
  - of the system being configured (`Wired`), that its lists are injective, advice queries
    are counted per column, every cell of a gate or a lookup is listed and every permuted
    column is queried;
  - of a finished key (`KeyFrom`), that it is the circuit's system with every selector
    rewritten. A combination is built so that the degree of each guard plus its width stays
    within the limit (`Fit`), every selector is in one (`Covers`), hence no expression
    outgrows what was required before (`RequiredKept`, `CappedKept`);
  - of a loaded key, that the prover's own conversion of the expressions changed nothing.

`KeyInv` quantifies over all indices, so TLC checks the two properties it implies (run
`keygen`) and not the invariant itself.

`SelectorsKeepMeaning` is proved from `MeaningInv`: a selector is only ever enabled on a
usable row, and those are the rows the key calls active. The argument follows
`compress_selectors.rs`:
  - no two selectors of a combination are enabled on one row (`Exclusive`), so its column
    holds on each row the root of the one that is, or zero (`ColumnTells`);
  - the guard that replaces a selector is the column times its distance to every other
    root, so it vanishes where another root stands and where none does. Where its own
    stands it is a product of differences of numbers from one to the length of the
    combination. That length is below the field's order, since the degree's cap is
    (`KeygenAssumption`), so the differences are not zero, and neither is a product of them
    in a prime field (`GuardTells`);
  - a selector that no gate multiplies by is alone in its column, which is its activation.
    Complex selectors are among those: `SelectorsApart` says that `simple` selectors occur as
    factors of a whole polynomial only, which `Expression`'s operators enforce (a sum with a
    simple selector panics, and so does a product of two), and complex ones within terms.

`FixedAreEvaluated` is proved from `CellsInv`: beside each fixed cell stands what it stands
for, under every operation of `Compute` and in any order. The lemmas about
`AssignedCells` stand first in the module and hold in every field of integers modulo a number in which each
element but zero has an inverse (`AssignedAssumption`):
  - each operation's cell stands for the operation's result (the `...StandsFor` lemmas),
    with x/0 as zero on either side;
  - both evaluations are cell by cell, for every number of host threads and every size of a
    kernel's group (`HostEvaluatedIs`, `DeviceEvaluatedIs`): the ragged chunks cover the
    list of fractions once, and unwinding the one inverse of a group's product gives each
    element's own, zeros staying where they are.

`ProofTranscriptProofs` proves, for every shape of circuit that satisfies `Supported`: the
type invariant, `TranscriptsAgree`, `OpeningsAgree`, `ChallengesBind`, and that the
verifier never rejects what the prover wrote (`NeverRejected`, the safety half of
`ProofsAreAccepted`). `IInv` says what both transcripts, the proof and the slots are in
each phase: beginnings of one transcript whose parts are typed, ordered and counted. The argument has three steps. Part by part, what the prover writes and what the
verifier's slots ask for have the same kind, the same length and the same order (the
`Slot` lemmas), so each read finds what was written for it. Each slot's name stands for
one value (`Held`), so that the claims built from names are the openings built from values.
And a value that occurs in a beginning of the transcript only comes before a challenge
that does not occur there (`Within`, `Precedes`), which gives the order that
`ChallengesBind` asks for, of the last challenge `u` too (`LastChallenge`).

`Supported` has two parts. `WellFormed` is what configuration leaves: queried columns
exist and the degree is at least 3. The rest is what the entry points
take: `create_proof` circuits without challenges (with several phases it panics, and the
theorems cover that), `create_proof_from_advice` advice of one phase. TLC evaluates it for
all 560 shapes of the run (`MCShapesAreSupported`); the run `transcript_phase0_challenge`
shows what happens outside it.

`MultiopenProofs` proves all three properties of the run `multiopen`, over every field, for
every domain, every set of polynomials, every list of queries and every challenge. Assumed
are the laws of a field (`FieldAssumption`) and that polynomials have as many coefficients
as the domain has points and something is asked (`StatementAssumption`). The argument:
  - a fold with powers is linear (`PowersPlus`, `PowersTimes`), so folding polynomials and
    then taking a value is folding the values;
  - a grouping holds each commitment once, at the place of its first query, and each set of
    points once, whatever order the hash sets have (`CommitmentsAre`, `RotationPointsAre`,
    `RotationSetsAre`);
  - the polynomial `lagrange_interpolate` builds has at `z` a value that names no order:
    the sum of the evaluations, each times the vanishing polynomials of the other points
    (`InterpolateIs`, `ThroughIs`). So each side may hash with its own seed;
  - synthetic division by points where the dividend vanishes drops no remainder, and the
    points of a group may be divided out in any order (`QuotientIs`): the folded quotient
    times the vanishing polynomial of all points is the fold that the linearisation takes
    it for (`FoldedExact`, the theorem `DivisionsExact`). At `u` the linearisation then
    vanishes, which the code asserts in debug builds only, and the second division is exact
    as well (`LineariseKeeps`);
  - hence each point of the proof, times the secret less the point it opens at, is a
    difference of folds of commitments and of true evaluations (`ProvedShplonk`,
    `ProvedGwc`), and the verifier's two sides differ by the folds of the errors alone
    (`ShplonkIs`, `GwcIs`). Scaling by `r` keeps the sum of earlier proofs
    (`AccumulateStep`).
`IInv` adds to the properties what a proof in the making has at each stage (`Prepared`): the
rotation sets, the folded quotient with its commitment, and points that stand for what the
verifier adds.

`VanishingArgumentProofs` proves both properties of the run `vanishing`, for every prime
field, every domain and extension, every gate, every residency and every split a query may
answer. Assumed are that the field's elements but zero have the inverse that Fermat's power
gives (`FieldAssumption`), the constants of the domain as its constructor makes them
(`DomainAssumption`: the generator's order, its power for the small domain, a cube root of
one other than one), that challenges lie outside the domain (`PointsOutside`; in it the
verifier's inversion fails), and that the gate is a polynomial of the degree for which the
domain was sized (`GateAssumption`). That last one is what the quotient's degree is computed
from: `GatePoly` is the polynomial a gate makes along given columns, and TLC evaluates the
assumption for the run's six circuits. `IInv` says that at every stage the coefficients, the
parts made so far, the extended vector, the pieces and the opened fold are those of the
columns the run began with, whichever arm made them; it is what the two properties leave
out between the stages they speak of. TLC agrees with it on the run's instance. The argument:
  - the transforms by sums invert each other, since the powers of a root of unity other than
    one add up to zero (`InverseIs`);
  - the split-radix transform is the whole one: the two-level table of powers holds the power
    at the index (`TwiddleIs`), a residue class folds and twists its inputs to the
    values of one coset, and the epilogue puts each value at its place
    (`SplitRadixIs`, `SplitRadixExtended`). Nothing depends on how far the split goes, so
    an answer of the memory queries changes only where the work is done;
  - the part with index `p` holds the gate's values at the points `p`, `p + NumParts`, ... of
    the extended coset, and gathering interleaves them (`GatheredIs`);
  - the coset avoids the domain: the cube root's power to a power of two is not one
    (`CosetOutside`), so every division by `X^n - 1` on it is a division by something;
  - the gate's polynomial divided by `X^n - 1` leaves a remainder of `n` coefficients
    (`VanishingDivides`). If the gate holds on every row, the remainder has the whole domain
    for roots and is zero (`RootsVanish`); the extended vector's values, divided, brought back
    and cut, are then those of the quotient itself, the one polynomial of that many
    coefficients that has them (`SameValues`, `QuotientExact`);
  - the device's fold of the pieces is the host's (`FoldedIs`), and evaluates as the quotient
    does. If the gate fails on a row, the accepted challenges are roots of a polynomial that
    is not zero, and these are fewer than its coefficients (`RootCount`, `FewPass`).

The library's induction theorems take an operator as a parameter, which none of the
provers here can instantiate. `DataInduction` does induction with sets instead: a set of
naturals that is not empty has a least element, hence a set with 0 that is closed under
successor holds them all. On that rest the facts about functions defined by recursion on
a number (`RunExists`), and about `FlattenSeq`: its type, its elements, that it keeps
distinctness and correspondence.

Model-checked only: liveness (`ProofEnds`, `ProofsAreAccepted` and the fairness part of
`MirrorReads`), which is beyond the prover; the three properties of the quotient
(`QuotientIsVerifierFold`, `CompressedIsHostFold`, `PoolWholeOrUnused`), whose modules use
RECURSIVE operators on expressions.

## Not modelled

Field, curve and FFT arithmetic and the CUDA kernels that do it: 256-bit numbers and
thousands of threads, compared with the CPU by the repository's tests. The models above
contain what the kernels do at the level of whole elements, not how a butterfly, a
multi-scalar multiplication or a product of limbs gets there. Of the domain,
`rotate_extended`, `l_i_range` and the search for the extended size. IPA: algebra. Layouters, `dev` tools and floor planners: they come from
the `halo2-axiom` crate. Serialization of keys and parameters, logging, benchmarks and
scripts. `ParamsKZG::downsize`: it takes `&mut self` and empties the mirrors before it
truncates, so it cannot meet a proof. How much device memory is free: chunk and batch
sizes are drawn, from one row up, and from none where the code handles none. Buffers'
lifetimes outside the mirrors. Several circuits in one proof: `witness.rs` asserts there
is one. `MAX_DEGREE` is read once per run, as a constant, though the code reads it at
each call.

## Plan

All components on the GPU path of a proof are modelled, in the order key generation,
witness and transcript, lookups and permutation, quotient, vanishing argument, multiopen,
with the mirrors beside them. What is left, in order:

1. Proofs: the quotient, whose compiler would have to be written as functions over the
   expressions of bounded depth.
2. Multiopen: its queries taken from the openings of `ProofTranscript`, GWC's GPU fold in
   chunks.
3. Chunk sizes that free memory drives to zero, for the scan, MSM and multiopen.
