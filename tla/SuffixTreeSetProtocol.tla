------------------------ MODULE SuffixTreeSetProtocol -----------------------
(***************************************************************************)
(* SuffixTreeSet used as its method names intend (ProtocolSpec): it        *)
(* implements EmpiricalFrequency, answers every query once it is dense, and *)
(* loses nothing when it is made sparse.                                   *)
(***************************************************************************)
EXTENDS SuffixTreeSet

\* The observations made after exactly the context p, read off the samplers.
Own(o) ==
    [p \in Contexts |-> [t \in Tokens |->
       CASE form[o] = "sparse" -> sampler[o][p].counts[t]
         [] form[o] = "dense" ->
              sampler[o][p].counts[t] - Removed(sampler[o], nodes[o], p, t, {})
         [] OTHER -> 0]]

\* One pattern, or every token of a text but the first and the last after the
\* (at most b) tokens before it.
Lesson(p, t) == [q \in Contexts |-> [u \in Tokens |-> IF q = p /\ u = t THEN 1 ELSE 0]]

TextLesson(s, b) ==
    [p \in Contexts |-> [t \in Tokens |->
       Cardinality({i \in 2 .. Len(s) - 1 :
                      s[i] = t /\ p = SubSeq(s, Max({1, i - b}), i - 1)})]]

Lessons ==
    {Lesson(p, t) : p \in Contexts, t \in Tokens}
      \cup UNION {{TextLesson(s, b) : s \in {x \in Texts : Len(x) > b}} : b \in 1 .. B}

EF == INSTANCE EmpiricalFrequency WITH
        Corpora <- {}, occ <- [o \in Objects |-> Own(o)]

(***************************************************************************)
(* Every call changes what was observed exactly as it promises: parsing    *)
(* adds each pattern once, merge moves the observations, densify, sparsify *)
(* and a round trip through the protocol buffer change nothing.            *)
(***************************************************************************)
ImplementsEmpiricalFrequency == EF!Spec

\* What followed the contexts that end in q.
Followed(o, q) == {t \in Tokens : \E r \in Below(nodes[o], q) \ {<<>>} : Own(o)[r][t] > 0}

(***************************************************************************)
(* Once dense, an object that knows any pattern answers every query.       *)
(* sample(p) gives the tokens that did follow the longest known suffix of  *)
(* p, none of its errors can happen; probability(p, t) is positive for     *)
(* these and for whatever followed anything (so perplexity cuts off only   *)
(* tokens never seen), and theirs add up to 1; generate continues any      *)
(* prompt with such tokens, to the size asked for or beyond.               *)
(***************************************************************************)
DenseAnswers ==
    \A o \in Objects : form[o] = "dense" =>
      \A p \in Contexts :
        LET drawn == Sample(o, p)
            share(t) == probability(o, p, t)
        IN  /\ drawn # {} /\ drawn = Followed(o, Deepest(o, p))
            /\ {t \in Tokens : share(t).count > 0} = Followed(o, <<>>)
            /\ \A t \in drawn :
                 share(t).total = SumOver(drawn, [u \in drawn |-> share(u).count])
            /\ \A size \in 0 .. B + 1, b \in 1 .. B : \A g \in generate(o, size, b, p) :
                 /\ g.error = ""
                 /\ IsPrefix(p, g.text) /\ Len(g.text) = Max({size, Len(p), b})
                 /\ \A i \in Len(p) + 1 .. Len(g.text) :
                      g.text[i] \in Followed(o, Deepest(o, Window(g.text, i - 1, b)))

(***************************************************************************)
(* match_length finds the longest suffix of p that ends some observed      *)
(* context, and matches holds when that is all of p: no node stands for    *)
(* something that was never observed, and none that was is out of reach.   *)
(***************************************************************************)
MatchesObserved ==
    \A o \in Objects : form[o] \in {"sparse", "dense"} =>
      LET known == {r \in Contexts : Own(o)[r] # NoCounts}
          ends == UNION {Suffixes(r) : r \in known}
      IN  \A p \in Contexts :
            /\ MatchLength(o, p) = Max({0} \cup {Len(q) : q \in Suffixes(p) \cap ends})
            /\ Matches(o, p) <=> p \in ends

\* densify gives back every sampler, the root's too, which sparsify simply replaces.
DensifyRestores ==
    \A o \in Objects : form[o] = "dense" =>
      Densified(Sparsified(sampler[o], nodes[o], {}), nodes[o]) = sampler[o]

\* sparsify finds the counts that short contexts had left in inner nodes.
SparsifyRestores ==
    \A o \in Objects : form[o] = "sparse" =>
      Sparsified(Densified(sampler[o], nodes[o]), nodes[o], {}) = sampler[o]

(***************************************************************************)
(* densify and sparsify undo each other, to the last count: also at the    *)
(* root, where sparsify asks itself "Correct?", and in inner nodes, where  *)
(* counts of their own and those added by densify share a sampler.         *)
(***************************************************************************)
ConversionsRestore == DensifyRestores /\ SparsifyRestores

(***************************************************************************)
(* What an object is depends only on what it observed, not on the order of *)
(* parses and merges that brought it there.                                *)
(***************************************************************************)
Canonical ==
    \A o, x \in Objects :
      form[o] = form[x] /\ form[o] \in {"sparse", "dense"} /\ Own(o) = Own(x) =>
        /\ nodes[o] = nodes[x]
        /\ sampler[o] = sampler[x]
        /\ depth[o] = depth[x]
=============================================================================
