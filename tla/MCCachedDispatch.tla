-------------------------- MODULE MCCachedDispatch --------------------------
(* Three texts whose embeddings turn: neighbours are similar (89 percent), *)
(* the ends are not (60).  One text is also asked in another scope and     *)
(* with an image.                                                      *)
EXTENDS CachedDispatch

CONSTANTS s1, s2

MCTexts == 1..3
MCScopes == {s1, s2}
MCAttachments == {"none", "image"}
Asking(s, t, a) == [scope |-> s, text |-> t, attachment |-> a]
MCAsks == {Asking(s1, t, "none") : t \in MCTexts}
            \cup {Asking(s2, 2, "none"), Asking(s1, 2, "image")}
MCEmbedding == <<<<1, 0>>, <<2, 1>>, <<3, 4>>>>

(* cosine_similarity at its edges: vectors of another length, the zero     *)
(* vector, opposite and orthogonal ones.                                   *)
ASSUME CosineAssumption ==
  /\ cosine_similarity(<<1, 0>>, <<1, 0, 0>>)[1] = 0
  /\ cosine_similarity(<<>>, <<>>)[1] = 0
  /\ cosine_similarity(<<0, 0>>, <<1, 1>>)[1] = 0
  /\ cosine_similarity(<<1, 0>>, <<0, 1>>)[1] = 0
  /\ \A a, b \in (-2..2) \X (-2..2) :
       /\ cosine_similarity(a, b) = cosine_similarity(b, a)
       /\ AtMost(cosine_similarity(a, b), <<1, 1>>)
       /\ a # <<0, 0>> => AtMost(<<1, 1>>, cosine_similarity(a, a))

Symmetry == Permutations(Requests)
=============================================================================
