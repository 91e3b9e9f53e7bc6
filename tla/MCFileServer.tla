--------------------------- MODULE MCFileServer ----------------------------
(* A small instance of FileServer: requests that meet on "a", a file or a   *)
(* directory, and on the file "b" in it.                                    *)
EXTENDS FileServer, TLC

CONSTANTS a, b, r1, r2, r3

Ask(op, path) == [op |-> op, path |-> path, to |-> <<>>, size |-> 0]
Store(path, n) == [op |-> "write", path |-> path, to |-> <<>>, size |-> n]
Relocate(from, to) == [op |-> "move", path |-> from, to |-> to, size |-> 0]

MCBodies ==
  r1 :> {Store(<<a, b>>, 2), Store(<<a>>, 1), Relocate(<<b>>, <<a, b>>),
         Relocate(<<a>>, <<a, b>>), Store(<<b>>, 1), Store(<<b>>, 3)} @@
  r2 :> {Store(<<a, Dot, b>>, 1), Ask("delete", <<a>>), Ask("delete", <<Dot>>),
         Relocate(<<a>>, <<b>>), Relocate(<<a, b>>, <<b>>)} @@
  r3 :> {Ask("read", <<a, b>>), Ask("walk", <<Dot>>), Ask("list", <<a>>), Ask("delete", <<a, b>>),
         Store(<<a, b>>, 2), Relocate(<<b>>, <<a>>), Ask("read", <<Slash, Up>>)}
=============================================================================
