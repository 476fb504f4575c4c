--------------------------- MODULE MCCommentTree ----------------------------
(* CommentTree on a small instance. *)
EXTENDS CommentTree, TLC

\* Comments and requests are interchangeable.
Symmetry == Permutations(Comment) \union Permutations(Req)
=============================================================================
