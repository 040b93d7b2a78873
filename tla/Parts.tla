--------------------------------- MODULE Parts ---------------------------------
(***************************************************************************)
(* The parts of a node that share no state with the others, side by side:  *)
(* the database, the gas meter, the tree of the state's root and the       *)
(* proofs.  Each behaviour runs one of them.                               *)
(***************************************************************************)
EXTENDS Storage

CONSTANTS
    Menu, Shapes, Locals, GasLimit, MaxDepth, Grows(_),
    TreeDepth, Path, LeafValues,
    HalfBits, Polys, Challenges, Blowup, FoldStopBits, NumQueries

VARIABLES
    part,
    shape, locals, prog, code, frames, gas, status,
    entries, nodes, kept,
    coeffs, layers, betas, proof, damage, verdict

Mt == INSTANCE Metering
Tr == INSTANCE SparseTree
Fr == INSTANCE Fri

meteringVars == <<shape, locals, prog, code, frames, gas, status>>
treeVars     == <<entries, nodes, kept>>
friVars      == <<coeffs, layers, betas, proof, damage, verdict>>

(* A path is the hash of its key, bit by bit; an entry is not empty. *)
ASSUME PathsTyped ==
    /\ TreeDepth \in Nat /\ IsFiniteSet(DOMAIN Path) /\ DOMAIN Path # {}
    /\ \A k \in DOMAIN Path :
          /\ Path[k] \in Seq({0, 1}) /\ Len(Path[k]) = TreeDepth
          /\ \A l \in DOMAIN Path : Path[k] = Path[l] => k = l
    /\ 0 \notin LeafValues

partsVars == <<part, vars, meteringVars, treeVars, friVars>>

(* What a part that does not run is left at. *)
storageOff == disk = EmptyDisk /\ node = Down /\ todo = <<>> /\ trouble = FALSE

meteringOff ==
    shape = 0 /\ locals = 0 /\ prog = 0 /\ code = 0 /\ frames = 0 /\ gas = 0 /\ status = 0

treeOff == entries = 0 /\ nodes = 0 /\ kept = 0

friOff ==
    coeffs = 0 /\ layers = 0 /\ betas = 0 /\ proof = 0 /\ damage = 0 /\ verdict = 0

PartsInit ==
    \/ part = "store"  /\ Init    /\ meteringOff /\ treeOff /\ friOff
    \/ part = "meter"  /\ Mt!Init /\ storageOff /\ treeOff /\ friOff
    \/ part = "tree"   /\ Tr!Init /\ storageOff /\ meteringOff /\ friOff
    \/ part = "proofs" /\ Fr!Init /\ storageOff /\ meteringOff /\ treeOff

PartsNext ==
    \/ part = "store"  /\ Next    /\ UNCHANGED <<part, meteringVars, treeVars, friVars>>
    \/ part = "meter"  /\ Mt!Next /\ UNCHANGED <<part, vars, treeVars, friVars>>
    \/ part = "tree"   /\ Tr!Next /\ UNCHANGED <<part, vars, meteringVars, friVars>>
    \/ part = "proofs" /\ Fr!Next /\ UNCHANGED <<part, vars, meteringVars, treeVars>>

PartsSpec == PartsInit /\ [][PartsNext]_partsVars

-----------------------------------------------------------------------------

(* Metering: a rewritten module can be loaded, and its exported counter is *)
(* the one that the charges name (instrument, meter.go).                   *)
ModuleLoads == part = "meter" => Mt!ModuleLoads

(* SparseTree: the tree is a function of the entries (setLeaf, smt.go).    *)
TreeIsItsEntries == part = "tree" => Tr!TreeIsItsEntries

(* SparseTree: no proof, old or new, shows what is not true (Verify,       *)
(* smt.go).                                                                *)
ProofsDoNotLie == part = "tree" => Tr!ProofsDoNotLie

(* Field: the arithmetic in words is that modulo P (field.go).             *)
FieldIsModular == part = "proofs" => Fr!FieldIsModular

(* Field: the fast transform is evaluation (ntt.go).                       *)
TransformsAreEvaluations == part = "proofs" => Fr!TransformsAreEvaluations

(* Fri: openings of the trees are good and show the leaf (merkle.go).      *)
OpeningsAreGood == part = "proofs" => Fr!OpeningsAreGood

(* Fri: a proof is accepted exactly if it is undamaged and the folded      *)
(* polynomial has a low degree (Prove and Verify, fri.go).                 *)
VerdictIsRight == part = "proofs" => Fr!VerdictIsRight
=============================================================================
