---------------------------- MODULE MCFileServer ----------------------------
(***************************************************************************)
(* Model checking of FileServer.                                           *)
(***************************************************************************)
EXTENDS FileServer, TLC

\* Two users, 1 and 2.  The files "a", "a\a\a" and "b": with the folder "a\"
\* three entries at the root, the folder between the files in the order of
\* characters; and a folder in a folder.
MCUser == {<<1>>, <<2>>}
MCName == {<<97>>, <<97, 92, 97, 92, 97>>, <<98>>}
MCBase == {<<>>, <<97>>, <<97, 92>>, <<97, 92, 97, 92>>}

Symmetry == Permutations(Server)
=============================================================================
