------------------------------ MODULE MCLtPool ------------------------------
EXTENDS LtPool

\* The structs keep the proportions they have on a 64-bit machine: five words
\* for a pool's header, six for a manager.
Word          == 2
PoolStruct    == 5 * Word
ManagerStruct == 6 * Word
=============================================================================
