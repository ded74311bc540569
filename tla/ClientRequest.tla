--------------------------- MODULE ClientRequest ---------------------------
(* Which file a worker of the test client asks for: ml_client_work.        *)
EXTENDS Integers

\* rand() / (RAND_MAX / numFiles + 1), for a value r of rand().
\* IndexOfEqualParts divides into numFiles parts without the + 1.
IndexOfEqualParts(r, RAND_MAX, numFiles) == r \div (RAND_MAX \div numFiles)
FileIndex(r, RAND_MAX, numFiles) == r \div (RAND_MAX \div numFiles + 1)

=============================================================================
