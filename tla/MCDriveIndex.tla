---------------------------- MODULE MCDriveIndex ----------------------------
\* Instance for TLC: a folder d, a file a in one message, and a split file
\* d/s whose parts two accounts hold under the same number, one of them
\* registered twice.
EXTENDS DriveIndex, TLC

File(name, parent, parts, whole) ==
  [name |-> name, dir |-> FALSE, parent |-> parent, live |-> TRUE,
   split |-> Len(parts) > 1, parts |-> parts, whole |-> whole]
MCRows ==
  << [name |-> "d", dir |-> TRUE, parent |-> Root, live |-> TRUE, split |-> FALSE,
      parts |-> <<>>, whole |-> <<>>],
     File("s", 1, << <<0, 5>>, <<0, 5>>, <<1, 5>> >>, << <<0, 5>>, <<1, 5>> >>),
     File("t", Root, << <<0, 7>>, <<0, 8>> >>, << <<0, 7>>, <<0, 8>> >>) >>

Ask(kind, path) == [kind |-> kind, path |-> path, fresh |-> FALSE]
To(kind, path, dest) == [kind |-> kind, path |-> path, dest |-> dest, fresh |-> FALSE]

MCAsks ==
  { Ask("get", <<"d", "s">>), Ask("get", <<"c">>),
    Ask("delete", <<"d", "s">>), To("move", <<"d", "s">>, <<"c">>),
    To("copy", <<"t">>, <<"c">>),
    [kind |-> "mkcol", path |-> <<"d", "n">>, fresh |-> TRUE],
    [kind |-> "put", path |-> <<"d", "s">>, parts |-> << <<1, 9>> >>, fresh |-> FALSE] }

Threads == Permutations(Workers)
=============================================================================
