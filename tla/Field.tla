-------------------------------- MODULE Field ---------------------------------
(***************************************************************************)
(* The field of the proof system and its transforms (internal/stark,       *)
(* field.go and ntt.go).  The code's prime is 2^64 - 2^32 + 1, with words  *)
(* of 64 bits, halves of 32 and roots of unity of order up to 2^32; with   *)
(* HalfBits = 4 it is 2^8 - 2^4 + 1 = 241, whose words, halves and roots   *)
(* are 8, 4 and 2^4, and 7 generates both.                                 *)
(***************************************************************************)
EXTENDS Integers, Sequences, FiniteSets, SequencesExt

CONSTANT HalfBits

HalfWord == 2^HalfBits

Word == HalfWord * HalfWord

P == Word - HalfWord + 1

epsilon == HalfWord - 1     \* what a lost carry is worth modulo P

Felts == 0..(P - 1)

FromUint64(x) == IF x >= P THEN x - P ELSE x

(* Addition in a word with its carry put back; first without. *)
AddNoCarry(a, b) == FromUint64((a + b) % Word)

Add(a, b) ==
    FromUint64(((a + b) % Word) + (IF a + b >= Word THEN epsilon ELSE 0))

Sub(a, b) == (a - b - (IF a < b THEN epsilon ELSE 0)) % Word

Neg(a) == IF a = 0 THEN 0 ELSE P - a

(* reduce128: two words; 2^64 is epsilon and 2^96 is -1 modulo P. *)
Reduce(lo, hi) ==
    LET hiHi == hi \div HalfWord
        t0   == Sub(lo, hiHi)
        t1   == (hi % HalfWord) * epsilon
    IN  FromUint64(((t0 + t1) + (IF t0 + t1 >= Word THEN epsilon ELSE 0)) % Word)

Mul(a, b) == Reduce((a * b) % Word, (a * b) \div Word)

Exp(a, e) ==
    LET pow[n \in 0..e] ==
            IF n = 0 THEN 1
            ELSE LET root == pow[n \div 2]
                 IN  IF n % 2 = 1 THEN Mul(a, Mul(root, root)) ELSE Mul(root, root)
    IN  pow[e]

Inv(a) == IF a = 0 THEN 0 ELSE Exp(a, P - 2)

(* batchInv: the inverses of a sequence from one inversion: products from  *)
(* the front, then the inverse of all taken apart from the back.           *)
BatchInv(a) ==
    LET n == Len(a)
        product[i \in 0..n] == IF i = 0 THEN 1 ELSE Mul(product[i - 1], a[i])
        rest[i \in 0..n] ==
            IF i = n THEN Inv(product[n]) ELSE Mul(rest[i + 1], a[i + 1])
    IN  [i \in 1..n |-> Mul(product[i - 1], rest[i])]

(* RootOfUnity: a root of order 2^logN, squared down from the largest. *)
generator == 7

RootOfUnity(logN) ==
    LET root[k \in logN..HalfBits] ==
            IF k = HalfBits THEN Exp(generator, (P - 1) \div HalfWord)
            ELSE Mul(root[k + 1], root[k + 1])
    IN  root[logN]

-----------------------------------------------------------------------------
Log2(n) == CHOOSE k \in 0..HalfBits : 2^k = n

NextPow2(n) == CHOOSE m \in {2^k : k \in 0..HalfBits} : n <= m /\ m < 2 * n

(* bitReverseInPlace, with places from 0; first a form that leaves all     *)
(* where it is.                                                            *)
Unreversed(i, logN) == i

Reversed(i, logN) ==
    LET rev[k \in 0..logN] == IF k = 0 THEN 0 ELSE 2 * rev[k - 1] + ((i \div 2^(k - 1)) % 2)
    IN  rev[logN]

(* nttCore: stages of butterflies, on blocks of 2, 4, ... values. *)
Transform(a, inverse) ==
    LET n    == Len(a)
        logN == Log2(n)
        root == IF inverse THEN Inv(RootOfUnity(logN)) ELSE RootOfUnity(logN)
        at[s \in 0..logN] ==
            IF s = 0 THEN [i \in 0..(n - 1) |-> a[Reversed(i, logN) + 1]]
            ELSE LET half == 2^(s - 1)
                     wm   == Exp(root, n \div (2 * half))
                 IN  [i \in 0..(n - 1) |->
                        LET j == i % half
                            k == i - (i % (2 * half)) + j
                            u == at[s - 1][k]
                            t == Mul(Exp(wm, j), at[s - 1][k + half])
                        IN  IF i = k THEN Add(u, t) ELSE Sub(u, t)]
    IN  [i \in 1..n |-> at[logN][i - 1]]

NTT(a) == Transform(a, FALSE)

INTT(a) ==
    LET nInv == Inv(FromUint64(Len(a)))
        t    == Transform(a, TRUE)
    IN  [i \in DOMAIN a |-> Mul(t[i], nInv)]

Padded(a, n) == [i \in 1..n |-> IF i <= Len(a) THEN a[i] ELSE 0]

Evaluate(coeffs) == NTT(Padded(coeffs, NextPow2(Len(coeffs))))

Interpolate(evals) == INTT(evals)

MulPoly(a, b) ==
    LET resLen == Len(a) + Len(b) - 1
        fa == Evaluate(Padded(a, resLen))
        fb == Evaluate(Padded(b, resLen))
    IN  SubSeq(INTT([i \in DOMAIN fa |-> Mul(fa[i], fb[i])]), 1, resLen)
=============================================================================
