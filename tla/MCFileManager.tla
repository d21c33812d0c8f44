---------------------------- MODULE MCFileManager ----------------------------
(* Model-checking instances of FileManager: trees and lists of sources. *)
EXTENDS FileManager

a == <<"a">>
b == <<"b">>
TreeOf(ds, xs, ys) ==
  [p \in FilePaths |-> IF p = Core \/ p \in ds THEN "dir"
                       ELSE IF p \in xs THEN "x" ELSE IF p \in ys THEN "y" ELSE "none"]

\* Files beside a directory of files; directories with files of the same name,
\* and a directory in one of them.
MCTrees ==
  {TreeOf({a}, {a \o a}, {a \o b, b}), TreeOf({a, b, a \o b}, {a \o a}, {b \o a})}
MCSourceLists == {<<a>>, <<a \o a>>, <<a \o b, b>>}
MCDestDirs == {Core, b, b \o b}
=============================================================================
