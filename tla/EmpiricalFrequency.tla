------------------------- MODULE EmpiricalFrequency -------------------------
(***************************************************************************)
(* What an EFNLP object promises: it remembers how often each token was    *)
(* observed after each context, and nothing else.  Whether the counts are  *)
(* kept sparse or dense, and in which order they came, cannot be seen.     *)
(***************************************************************************)
EXTENDS SuffixPaths

CONSTANTS Objects,
          Lessons,  \* what one call can add: observations, counted after each context
          Corpora   \* what one call can put in the place of all that was known

VARIABLE occ   \* occ[o][p][t]: observations of t after exactly the context p

Nothing == [p \in Contexts |-> NoCounts]

Init == occ = [o \in Objects |-> Nothing]

Minus(f, g) == [p \in Contexts |-> [t \in Tokens |-> f[p][t] - g[p][t]]]
Plus(f, g) == [p \in Contexts |-> [t \in Tokens |-> f[p][t] + g[p][t]]]

(***************************************************************************)
(* A step, as a relation between what is known now and what is known next. *)
(***************************************************************************)

\* A new, empty object takes the place of o.
Forget(now, next, o) == next = [now EXCEPT ![o] = Nothing]

Others(now, next, o) == \A x \in Objects \ {o} : next[x] = now[x]

Learn(now, next, o) ==
    /\ Others(now, next, o)
    /\ Minus(next[o], now[o]) \in Lessons

Relearn(now, next, o) == Others(now, next, o) /\ next[o] \in Corpora

\* o takes over the observations of x.
Absorb(now, next, o, x) == next = [now EXCEPT ![o] = Plus(@, now[x]), ![x] = Nothing]

\* o adds the observations of x, which keeps them; x may be o itself.
Add(now, next, o, x) == next = [now EXCEPT ![o] = Plus(@, now[x])]

Copy(now, next, o, x) == next = [now EXCEPT ![o] = now[x]]

Next ==
    LET now == occ
        next == occ'
    IN  \E o \in Objects :
          \/ Forget(now, next, o)
          \/ Learn(now, next, o)
          \/ Relearn(now, next, o)
          \/ \E x \in Objects :
               Absorb(now, next, o, x) \/ Add(now, next, o, x) \/ Copy(now, next, o, x)

Spec == Init /\ [][Next]_occ
=============================================================================
