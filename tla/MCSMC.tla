------------------------------- MODULE MCSMC -------------------------------
EXTENDS SMC, Div64, TLC

\* Readers are told apart by nothing but their names.
Interchangeable == Permutations(Readers)

\* The division of SMC_proofs, for halves of two bits.
ASSUME DivisionAssumption ==
  \A dividend \in 0 .. 255, divisor \in 1 .. 4 :
    Div64_32(4, dividend, divisor) = (dividend \div divisor) % 16
=============================================================================
