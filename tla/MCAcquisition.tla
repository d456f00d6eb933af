--------------------------- MODULE MCAcquisition ---------------------------
(* A request file of three queries.  The posts are numbered in the order of *)
(* the search, which is the same for every query: 1 to 4 are eligible,      *)
(* 5 is excluded and 6 is refused by the schema.  A page has two posts at   *)
(* most and may repeat one.                                                 *)
EXTENDS Acquisition

MCPosts == 1 .. 6
MCIneligible == {5}
MCInvalid == {6}
MCBridges == {"github", "stackoverflow"}

MCPages == {<<>>, <<1, 1>>} \cup {<<p>> : p \in MCPosts}
             \cup {s \in MCPosts \X MCPosts : s[1] < s[2]}
=============================================================================
