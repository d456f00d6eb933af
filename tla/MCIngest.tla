------------------------------ MODULE MCIngest ------------------------------
(* Instances of Ingest: small files and feeds that overlap.  There is one *)
(* migration; two statements stand for the tables it creates.             *)
EXTENDS Ingest

MCStatements == <<2>>

Post(s, i, t, a) == [shape |-> s, id |-> i, text |-> t, creator |-> NoName, author |-> a]
File(ls) == [kind |-> "file", whole |-> "ok", lines |-> ls]
Feed(ls) == [kind |-> "feed", whole |-> "ok", lines |-> ls]

Export == File(<<Post("record", "post1", "t", "ann"), Post("malformed", "post1", "t", NoName),
                 Post("record", "post2", "t", NoName), Post("record", "post1", "u", "ann")>>)
Update == File(<<Post("record", "post2", "u", NoName), Post("blank", "post1", "t", NoName),
                 Post("record", "post3", "t", "ann"), Post("oversized", "post4", "t", "bob")>>)
News == Feed(<<Post("record", "post3", "u", "bob"), Post("record", "post4", "t", NoName)>>)
Unreadable == {[kind |-> k, whole |-> "broken", lines |-> <<>>] : k \in {"file", "feed"}}

MCInputs == {Export, Update, News} \cup Unreadable
              \cup {[kind |-> "feed", whole |-> "no_feed", lines |-> <<>>]}

\* A post that is too long, in front of another.
LongPost == {File(<<Post("record", "post1", "t", "ann"), Post("oversized", "post2", "t", "ann"),
                    Post("record", "post3", "t", "bob")>>), Export}

\* A feed in which one person signs twice, as RSS 2.0 feeds do: dc:creator.
Signed(i) == [Post("record", i, "t", NoName) EXCEPT !.creator = "ann"]
SignedTwice == {Feed(<<Signed("post1"), Signed("post2")>>), News}
=============================================================================
