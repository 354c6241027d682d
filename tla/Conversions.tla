----------------------------- MODULE Conversions -----------------------------
(* The two conversions every int and enum accessor makes.  The generator of  *)
(* the cgo layer maps Go's int to C.int: an argument is truncated to it, and *)
(* a result is written through a *C.int into the low bytes of a Go int that  *)
(* was zeroed before, so that a sign is never extended.                      *)
EXTENDS Integers

CONSTANT IntSpan        \* the number of values of a C int, 2^32 in the build

ASSUME IntSpanAssumption == IntSpan \in Nat /\ IntSpan > 1 /\ IntSpan % 2 = 0

Half == IntSpan \div 2

CInts == -Half .. Half - 1

\* Mutant: the argument saturates in place of being cut off.
CIntSaturating(v) == IF v >= Half THEN Half - 1 ELSE IF v < -Half THEN -Half ELSE v

\* C.int(v)
CInt(v) == LET low == v % IntSpan IN IF low < Half THEN low ELSE low - IntSpan

\* Mutant: the sign is extended.
ReadIntSigned(c) == c

\* var v int; C.f(raw, (*C.int)(unsafe.Pointer(&v))); return v
ReadInt(c) == IF c < 0 THEN c + IntSpan ELSE c
=============================================================================
