----------------------------- MODULE ServerUrl -----------------------------
(***************************************************************************)
(* resolveURL in the server's http.c: the root directory followed by the   *)
(* url, in which "/./" is dropped and "/../" takes back one directory.     *)
(*                                                                         *)
(* The result is built in memory from malloc.  Position p of it is         *)
(* resolved[p+1]; what it held before is stale.                            *)
(***************************************************************************)
EXTENDS Integers, Sequences, SequencesExt, FiniteSetsExt

\* The url from position p on starts with this text.
StartsWith(url, p, text) == IsPrefix(text, SubSeq(url, p + 1, Len(url)))

(***************************************************************************)
(* while (to != resolved && *to != '/') --to.  The search begins at to     *)
(* itself, which is behind the last character that was copied.             *)
(* StepBackOnce does not search.                                           *)
(***************************************************************************)
StepBackOnce(resolved, to) == IF to = 0 THEN 0 ELSE to - 1
BackToSlash(resolved, to) == Max({p \in 0 .. to : p = 0 \/ resolved[p + 1] = "/"})

\* One round of the loop; at the end of the url there is none.
Round(url, state) ==
  LET from == state.from
      to == state.to
      back == BackToSlash(state.resolved, to)
  IN IF from >= Len(url) THEN state
     ELSE IF StartsWith(url, from, <<"/", ".", "/">>)
     THEN [state EXCEPT !.from = from + 2]
     ELSE IF StartsWith(url, from, <<"/", ".", ".", "/">>)
     THEN [from |-> from + 3, to |-> back,
           resolved |-> [state.resolved EXCEPT ![back + 1] = " "]]
     ELSE [from |-> from + 1, to |-> to + 1,
           resolved |-> [state.resolved EXCEPT ![to + 1] = url[from + 1]]]

\* memset(resource, '\0', sizeof(resource)) clears as much as a pointer takes.
Cleared == 8

\* sprintf puts root and its '\0' into the memory, which has room for the url
\* and ten more characters.
StartOfLoop(root, url, stale) ==
  [from |-> 0, to |-> Len(root),
   resolved |-> [k \in 1 .. Len(root) + Len(url) + 10 |->
                   IF k <= Len(root) THEN root[k]
                   ELSE IF k \in 1 .. Cleared \cup {Len(root) + 1} THEN "NUL"
                   ELSE stale[k]]]

\* The loop: each round gets on in the url, so as many as it has characters
\* are enough.
Rounds(root, url, stale) ==
  LET after[n \in 0 .. Len(url)] ==
        IF n = 0 THEN StartOfLoop(root, url, stale) ELSE Round(url, after[n - 1])
  IN after

resolveURL(root, url, stale) ==
  LET end == Rounds(root, url, stale)[Len(url)]
  IN SubSeq(end.resolved, 1, end.to)

=============================================================================
