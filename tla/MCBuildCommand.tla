--------------------------- MODULE MCBuildCommand ---------------------------
(***************************************************************************)
(* Two processes over a directory with a good source, a refused one, one   *)
(* that checks but does not project, an existing file, an unreadable one   *)
(* and four free entries, two of which have a second spelling.             *)
(***************************************************************************)
EXTENDS BuildCommand

CONSTANTS p1, p2, src, bad, mute, wide, old, hid, a, b, h, d

MCProcs == {p1, p2}

MCFiles == {src, bad, mute, wide, old, hid, a, b, h, d}

MCNames == {"src", "bad", "mute", "wide", "old", "hid",
            "a", "b", "h", "d", "./a", "./b"}

MCFileOf == [n \in MCNames |->
  CASE n = "src" -> src [] n = "bad" -> bad [] n = "mute" -> mute
    [] n = "wide" -> wide [] n = "old" -> old [] n = "hid" -> hid
    [] n \in {"a", "./a"} -> a [] n \in {"b", "./b"} -> b
    [] n = "h" -> h [] n = "d" -> d]

UserFile(kind) == [by |-> "user", kind |-> kind, whole |-> TRUE]

MCInitially == [f \in MCFiles |->
  CASE f = src -> UserFile("good") [] f = bad -> UserFile("refused")
    [] f = mute -> UserFile("nobackend") [] f = wide -> UserFile("projection")
    [] f = old -> UserFile("oversize") [] f = hid -> UserFile("good")
    [] OTHER -> Absent]

MCUnreadable == {hid}

Build(input, core, c, header) ==
  [cmd |-> "build", input |-> input, core |-> core, c |-> c,
   header |-> header]

Other(cmd, input) ==
  [cmd |-> cmd, input |-> input, core |-> "a", c |-> "b", header |-> NoName]

\* Builds that contend for outputs, alias them, or name existing files.
GoodBuilds == {Build("src", "a", "b", "h"), Build("src", "b", "a", "./b"),
               Build("src", "d", "./b", NoName), Build("src", "a", "./a", "h"),
               Build("src", "a", "b", "a"),
               Build("src", "old", "b", "h"), Build("src", "a", "b", "old"),
               Build("src", "old", "mute", NoName)}

RefusedBuilds == {Build(i, "a", "b", "h") : i \in {"bad", "mute", "wide"}}
                 \cup {Build(i, "a", "b", NoName) : i \in {"old", "hid", "d"}}

OtherCommands == {Other("check", "src"), Other("check", "mute"),
                  Other("check", "a"), Other("inspect", "a"),
                  Other("inspect", "src"), Other("inspect", "d"),
                  Other("version", "src"), Other("usage", "src")}

AllInvocations == GoodBuilds \cup RefusedBuilds \cup OtherCommands

=============================================================================
