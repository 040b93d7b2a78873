--------------------------------- MODULE Fri ----------------------------------
(***************************************************************************)
(* The proof that a table of values is that of a polynomial of low degree  *)
(* (internal/stark/fri.go) and the Merkle trees it commits to (merkle.go): *)
(* fold the table with a challenge until it is short, send the last layer  *)
(* in the clear, open the layers at places drawn afterwards.  Challenges   *)
(* and places come out of a transcript in the code; they are open here.    *)
(***************************************************************************)
EXTENDS Field

CONSTANTS
    Polys,          \* polynomials, as sequences of N coefficients
    Challenges,     \* what the transcript may draw
    Blowup, FoldStopBits, NumQueries

VARIABLES
    coeffs,     \* the polynomial
    layers,     \* the tables of values, folded one after the other
    betas,      \* the challenges drawn
    proof,      \* what the prover sent
    damage,     \* what has been changed in it since
    verdict

vars == <<coeffs, layers, betas, proof, damage, verdict>>

friFinalSize == Blowup * 2^FoldStopBits

friFinalDegBound == 2^FoldStopBits

-----------------------------------------------------------------------------
(***************************************************************************)
(* Merkle trees; a hash is the term that was hashed.  The leaves are       *)
(* completed to a power of two with the last one.                          *)
(***************************************************************************)
hashLeaf(v) == <<v>>

hashNode(left, right) == <<left, right>>

(* Commit: the layers of the tree, the leaves first. *)
Commit(leaves) ==
    LET n      == NextPow2(Len(leaves))
        height == Log2(n)
        level[h \in 0..height] ==
            IF h = 0
            THEN [i \in 1..n |-> hashLeaf(leaves[IF i <= Len(leaves) THEN i ELSE Len(leaves)])]
            ELSE [i \in 1..(n \div 2^h) |-> hashNode(level[h - 1][2 * i - 1], level[h - 1][2 * i])]
    IN  [h \in 1..(height + 1) |-> level[h - 1]]

Root(tree) == Last(tree)[1]

Sibling(idx) == IF idx % 2 = 0 THEN idx + 1 ELSE idx - 1

(* Open: the siblings from the leaf upwards; places count from 0. *)
Open(tree, index) ==
    [h \in 1..(Len(tree) - 1) |-> tree[h][Sibling(index \div 2^(h - 1)) + 1]]

(* First a form that takes every node for a left one. *)
VerifyPathFromLeft(root, index, leaf, path) ==
    root = FoldLeft(hashNode, hashLeaf(leaf), path)

VerifyPath(root, index, leaf, path) ==
    LET acc[h \in 0..Len(path)] ==
            IF h = 0 THEN hashLeaf(leaf)
            ELSE IF (index \div 2^(h - 1)) % 2 = 0
                 THEN hashNode(acc[h - 1], path[h]) ELSE hashNode(path[h], acc[h - 1])
    IN  index \in 0..(2^Len(path) - 1) /\ acc[Len(path)] = root

-----------------------------------------------------------------------------
(***************************************************************************)
(* Folding: f(x) = even(x^2) + x odd(x^2) becomes even + beta odd.         *)
(***************************************************************************)
foldOne(fx, fmx, beta, x) ==
    LET fPair  == Mul(Add(fx, fmx), Inv(2))
        fImpair == Mul(Sub(fx, fmx), Inv(Mul(2, x)))
    IN  Add(fPair, Mul(beta, fImpair))

Omega(n) == RootOfUnity(Log2(n))

foldEvals(evals, beta) ==
    LET half == Len(evals) \div 2
    IN  [i \in 1..half |->
            foldOne(evals[i], evals[i + half], beta, Exp(Omega(Len(evals)), i - 1))]

EvalPoly(c, x) ==
    LET acc[i \in 1..(Len(c) + 1)] ==
            IF i = Len(c) + 1 THEN 0 ELSE Add(Mul(acc[i + 1], x), c[i])
    IN  acc[1]

Init ==
    /\ coeffs \in Polys
    /\ layers = <<Evaluate(coeffs)>>
    /\ betas = <<>>
    /\ proof = <<>>
    /\ damage = "none"
    /\ verdict = "none"

(* Prove: one more layer ... *)
Fold(beta) ==
    /\ Len(Last(layers)) > friFinalSize
    /\ layers' = Append(layers, foldEvals(Last(layers), beta))
    /\ betas' = Append(betas, beta)
    /\ UNCHANGED <<coeffs, proof, damage, verdict>>

(* ... and the openings, in every layer at a place and at its twin. *)
Steps(pos) ==
    [c \in DOMAIN betas |->
        LET half == Len(layers[c]) \div 2
            p    == pos % half
            tree == Commit(layers[c])
        IN  [value       |-> layers[c][p + 1],
             sibling     |-> layers[c][p + half + 1],
             path        |-> Open(tree, p),
             siblingPath |-> Open(tree, p + half)]]

Positions == 0..(Len(layers[1]) \div 2 - 1)

Prove(positions) ==
    /\ proof = <<>> /\ Len(Last(layers)) = friFinalSize
    /\ proof' = [logDomain   |-> Log2(Len(layers[1])),
                 layerRoots  |-> [c \in DOMAIN betas |-> Root(Commit(layers[c]))],
                 finalCoeffs |-> Interpolate(Last(layers)),
                 positions   |-> positions,
                 queries     |-> [q \in DOMAIN positions |-> Steps(positions[q])]]
    /\ UNCHANGED <<coeffs, layers, betas, damage, verdict>>

(* A proof that has not come through as it was sent. *)
Sent == proof # <<>> /\ damage = "none" /\ verdict = "none"

OtherHash(h) == hashNode(h, h)

DamageStep(c) ==
    /\ Sent /\ c \in DOMAIN betas
    /\ \/ proof' = [proof EXCEPT !.queries[1][c].value = Add(@, 1)] /\ damage' = "value"
       \/ proof' = [proof EXCEPT !.queries[1][c].sibling = Add(@, 1)] /\ damage' = "sibling"
       \/ proof' = [proof EXCEPT !.queries[1][c].path[1] = OtherHash(@)] /\ damage' = "path"
       \/ /\ proof' = [proof EXCEPT !.queries[1][c].siblingPath[1] = OtherHash(@)]
          /\ damage' = "sibling path"
    /\ UNCHANGED <<coeffs, layers, betas, verdict>>

DamageRest ==
    /\ Sent
    /\ \/ proof' = [proof EXCEPT !.finalCoeffs[1] = Add(@, 1)] /\ damage' = "coefficient"
       \/ proof' = [proof EXCEPT !.queries = Front(@)] /\ damage' = "queries"
       \/ proof' = [proof EXCEPT !.queries[1] = Front(@)] /\ damage' = "steps"
       \/ proof' = [proof EXCEPT !.layerRoots = Front(@)] /\ damage' = "layers"
    /\ UNCHANGED <<coeffs, layers, betas, verdict>>

-----------------------------------------------------------------------------
(***************************************************************************)
(* Verify.  It sees the proof and the challenges.                          *)
(***************************************************************************)
ExpectedLayers(pr) == pr.logDomain - Log2(friFinalSize)

WellFormed(pr) ==
    /\ 2^pr.logDomain > friFinalSize
    /\ Len(pr.finalCoeffs) = friFinalSize
    /\ \A i \in (friFinalDegBound + 1)..friFinalSize : pr.finalCoeffs[i] = 0
    /\ Len(pr.layerRoots) = ExpectedLayers(pr)
    /\ Len(pr.queries) = NumQueries
    /\ \A q \in DOMAIN pr.queries : Len(pr.queries[q]) = ExpectedLayers(pr)

(* The two openings of a layer; first a form that checks one of them. *)
AuthenticValue(pr, c, p, half, step) ==
    VerifyPath(pr.layerRoots[c], p, step.value, step.path)

Authentic(pr, c, p, half, step) ==
    /\ VerifyPath(pr.layerRoots[c], p, step.value, step.path)
    /\ VerifyPath(pr.layerRoots[c], p + half, step.sibling, step.siblingPath)

(* What the fold of a layer has to be: the value or its twin of the next,  *)
(* or the last polynomial's value.                                         *)
Expected(pr, steps, c, p, half) ==
    IF c < ExpectedLayers(pr)
    THEN IF p < half \div 2 THEN steps[c + 1].value ELSE steps[c + 1].sibling
    ELSE EvalPoly(pr.finalCoeffs, Exp(Omega(half), p % half))

QueryHolds(pr, q) ==
    \A c \in 1..ExpectedLayers(pr) :
        LET half == 2^(pr.logDomain - c)
            p    == pr.positions[q] % half
            step == pr.queries[q][c]
        IN  /\ Authentic(pr, c, p, half, step)
            /\ foldOne(step.value, step.sibling, betas[c], Exp(Omega(2 * half), p))
                  = Expected(pr, pr.queries[q], c, p, half)

Verify ==
    /\ proof # <<>> /\ verdict = "none"
    /\ verdict' = IF WellFormed(proof) /\ \A q \in DOMAIN proof.queries : QueryHolds(proof, q)
                  THEN "accepted" ELSE "refused"
    /\ UNCHANGED <<coeffs, layers, betas, proof, damage>>

Next ==
    \/ \E beta \in Challenges : Fold(beta)
    \/ \E positions \in [1..NumQueries -> Positions] : IsInjective(positions) /\ Prove(positions)
    \/ \E c \in DOMAIN betas : DamageStep(c)
    \/ DamageRest
    \/ Verify

Spec == Init /\ [][Next]_vars

-----------------------------------------------------------------------------
(* The word arithmetic with its carries is that of the integers modulo P,  *)
(* for all pairs of elements.                                              *)
FieldIsModular ==
    Len(layers) = 1 =>
        \A a, b \in Felts :
            /\ Add(a, b) = (a + b) % P
            /\ Sub(a, b) = (a - b) % P /\ Sub(0, a) = Neg(a)
            /\ Mul(a, b) = (a * b) % P

Sum(f) == FoldLeft(Add, 0, f)

(* The values of a polynomial at the powers of the root of unity, one by   *)
(* one, and the product of two polynomials term by term.                   *)
ValuesAt(c) == [i \in DOMAIN c |-> EvalPoly(c, Exp(Omega(Len(c)), i - 1))]

Product(a, b) ==
    [k \in 1..(Len(a) + Len(b) - 1) |->
        Sum([i \in DOMAIN a |-> IF k - i + 1 \in DOMAIN b THEN Mul(a[i], b[k - i + 1]) ELSE 0])]

(* The fast transform, whatever the polynomial, is its evaluation at the   *)
(* powers of a root, its inverse takes it back, and products go through    *)
(* it; inverses are inverses, those of many values from one inversion too. *)
TransformsAreEvaluations ==
    LET evals == Last(layers)
    IN  proof = <<>> =>
        /\ layers[1] = ValuesAt(coeffs)
        /\ ValuesAt(Interpolate(evals)) = evals
        /\ MulPoly(evals, betas) = Product(evals, betas) \/ betas = <<>>
        /\ \A a \in Felts \ {0} : Mul(a, Inv(a)) = 1
        /\ 0 \in Range(evals) \/ BatchInv(evals) = [i \in DOMAIN evals |-> Inv(evals[i])]

(* Every leaf of a tree, of any number of leaves, can be opened, and no    *)
(* opening shows at a place anything but the leaf there, which behind the  *)
(* last one is the last one.                                               *)
OpeningsAreGood ==
    \A n \in IF proof = <<>> THEN DOMAIN Last(layers) ELSE {} :
        LET leaves == SubSeq(Last(layers), 1, n)
            tree   == Commit(leaves)
            root   == Root(tree)
        IN  \A i \in 0..(n - 1) :
                LET path == Open(tree, i)
                IN  /\ VerifyPath(root, i, leaves[i + 1], path)
                    /\ \A j \in 0..NextPow2(n), v \in Range(leaves) :
                          VerifyPath(root, j, v, path) =>
                            v = leaves[IF j < n THEN j + 1 ELSE n]

(* Folding in coefficients: the reference. *)
FoldedCoeffs ==
    LET fold[c \in 0..Len(betas)] ==
            IF c = 0 THEN coeffs
            ELSE [i \in 1..(Len(fold[c - 1]) \div 2) |->
                    Add(fold[c - 1][2 * i - 1], Mul(betas[c], fold[c - 1][2 * i]))]
    IN  fold[Len(betas)]

(* A proof that comes through as it was sent is accepted exactly if the    *)
(* polynomial, folded in its coefficients, has a low degree in the end: so *)
(* always, if it had one (degree below N / Blowup), and otherwise only by  *)
(* the luck of the challenges.  A damaged proof is refused.                *)
VerdictIsRight ==
    LET low == \A i \in (friFinalDegBound + 1)..Len(FoldedCoeffs) : FoldedCoeffs[i] = 0
        lowFromStart == \A i \in (Len(coeffs) \div Blowup + 1)..Len(coeffs) : coeffs[i] = 0
    IN  verdict # "none" =>
            /\ verdict = "accepted" <=> damage = "none" /\ low
            /\ lowFromStart => low
=============================================================================
