------------------------- MODULE PermutationProduct --------------------------
(* From the copies of a circuit to the verifier's answer: the assembly makes   *)
(* the sigma columns, the prover chains one grand product per set of columns,  *)
(* and the verifier checks every product, the links between them and the ends. *)
(*                                                                             *)
(* beta and gamma are random: a product of (p + beta s + gamma)'s over others  *)
(* is known by the exponent of each factor, a value p with a label s. The      *)
(* label of a cell is delta^column omega^row, so it is the cell itself.        *)
EXTENDS PermutationAssembly, Sequences

CONSTANTS
    ChunkLen,   \* columns in one product: the degree less 2
    Values      \* what a cell may hold

ASSUME ProductAssumption == ChunkLen \in Nat \ {0}

VARIABLES
    copied,     \* the copies keygen has accepted: no state of the code, only its history
    values,    \* the columns that are proved, <<>> before
    carry,     \* d_last_z: where the next product starts
    delta,     \* the power of delta the next set starts from
    products   \* Z of each set that is committed

proving == <<values, carry, delta, products>>
product == <<vars, copied, proving>>

\* Product(factor) multiplies factor[c] over all c of its domain: the exponent of f
\* is the number of c whose factor is f.
Factors     == Values \X Cells
One         == [f \in Factors |-> 0]
Times(p, q) == [f \in Factors |-> p[f] + q[f]]
Over(p, q)  == [f \in Factors |-> p[f] - q[f]]
Product(factor) == [f \in Factors |-> Cardinality({c \in DOMAIN factor : factor[c] = f})]

\* The columns of set k, from 0: chunks(chunk_len), the last one as it comes.
Sets   == (NumColumns + ChunkLen - 1) \div ChunkLen
Set(k) == {c \in Columns : c \div ChunkLen = k}

Line(k, row) == Set(k) \X {row}

\* Key generation: Next of the assembly, its accepted calls recorded.
Assemble ==
    /\ values = <<>>
    /\ \E call \in Calls :
          \/ Copy(call[1], call[2]) /\ copied' = copied \cup {call}
          \/ Refuse(call[1], call[2]) /\ UNCHANGED copied
    /\ UNCHANGED proving

\* A witness for the usable rows; the sigma columns are mapping from now on.
Begin ==
    /\ stage = "synthesis" /\ values = <<>>
    /\ values' \in [Columns \X Usable -> Values]
    /\ UNCHANGED <<vars, copied, carry, delta, products>>

\* The factor of a cell in the denominators: mapping's entry is its label.
Sigma(cells) == [c \in cells |-> <<values[c], mapping[c]>>]

\* The kernel counts the columns of its set from the power it is given.
Fraction(k, row) ==
    LET own == [c \in Line(k, row) |-> <<values[c], <<delta + c[1] - ChunkLen * k, row>>>>]
    IN  Over(Product(own), Product(Sigma(Line(k, row))))

\* z[0] is the carry, then the scan of the usable rows; z[i] is at i + 1.
Z(k) == LET z[i \in 0..UsableRows] ==
                IF i = 0 THEN carry ELSE Times(z[i - 1], Fraction(k, i - 1))
        IN  [i \in 1..(UsableRows + 1) |-> z[i - 1]]

\* Mutant: the carry is the row in front of the last
CarryShort(z) == z[UsableRows]

CarryOf(z) == z[UsableRows + 1]

\* Mutant: every set is labelled from delta^0
DeltaStill(k) == delta

\* Mutant: the last set counts for a full one
DeltaAfterFull(k) == delta + ChunkLen

DeltaAfter(k) == delta + Cardinality(Set(k))

CommitSet ==
    /\ values # <<>> /\ Len(products) < Sets
    /\ LET k == Len(products)
           z == Z(k)
       IN  /\ products' = Append(products, z)
           /\ carry' = CarryOf(z)
           /\ delta' = DeltaAfter(k)
    /\ UNCHANGED <<vars, copied, values>>

\* The verifier labels a cell of set k from k chunk_len on: by the cell itself.
Own(cells) == [c \in cells |-> <<values[c], c>>]

\* The constraints of the verifier, in its order.
Accepts ==
    LET first(k) == products[k + 1][1]
        last(k)  == products[k + 1][UsableRows + 1]
        left(k, row)  == Times(products[k + 1][row + 2], Product(Sigma(Line(k, row))))
        right(k, row) == Times(products[k + 1][row + 1], Product(Own(Line(k, row))))
    IN  /\ first(0) = One
        /\ last(Sets - 1) = One
        /\ \A k \in 1..(Sets - 1) : first(k) = last(k - 1)
        /\ \A k \in 0..(Sets - 1) : \A row \in Usable : left(k, row) = right(k, row)

ProductInit ==
    /\ Init
    /\ copied = {} /\ values = <<>> /\ carry = One /\ delta = 0 /\ products = <<>>

ProductNext == Assemble \/ Begin \/ CommitSet

ProductSpec == ProductInit /\ [][ProductNext]_product

(* ------------------------------- properties -------------------------------- *)

ProductTypeOK ==
    /\ TypeOK
    /\ copied \subseteq Calls
    /\ values = <<>> \/ values \in [Columns \X Usable -> Values]
    /\ carry \in [Factors -> Int] /\ delta \in 0..NumColumns
    /\ products \in Seq([1..(UsableRows + 1) -> [Factors -> Int]])
    /\ Len(products) <= Sets

\* Every copy that keygen accepts joins the classes of its two cells and no other two,
\* whichever of the two cycles is relabelled; a copy already implied changes nothing.
Classes == INSTANCE CopyClasses WITH
               class <- [c \in Cells |-> Named(aux[c])]

ImplementsCopyClasses == Classes!Spec

\* When all products are committed, the verifier's constraints hold exactly when the
\* two cells of every copy the circuit asked for hold the same value: however the
\* columns fall into sets, the chained products prove all of the copies and no more.
AcceptsExactlyCopies ==
    (values # <<>> /\ Len(products) = Sets) =>
        (Accepts <=> \A call \in copied : values[call[1]] = values[call[2]])

\* Between two sets the carry is what the sets so far have proved: the product over
\* all their cells, not over those of the last set alone.
CarryIsRunningProduct ==
    values # <<>> =>
        LET through == {c \in DOMAIN values : c[1] \div ChunkLen < Len(products)}
        IN  carry = Over(Product(Own(through)), Product(Sigma(through)))
==============================================================================
