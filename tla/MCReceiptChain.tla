--------------------------- MODULE MCReceiptChain ---------------------------
(* Small instances of ReceiptChain for TLC. *)
EXTENDS ReceiptChain, TLC

\* The surface with the lock, the one that resets the chain, and one without either;
\* a question and a board mint as the last does.
Every == {"source", "pulse", "optin"}
Perms == Permutations(Threads)
Plain == {"ask", "optin"}

=============================================================================
