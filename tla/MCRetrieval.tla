----------------------------- MODULE MCRetrieval -----------------------------
(* Instances of Retrieval: a fact slot with two or three values, dated     *)
(* ones, preferences with a correction, and small talk.                    *)
EXTENDS Retrieval

CONSTANTS NameAda, NameBob, BobFrom, Tabs, Spaces, ActuallySpaces, Hello

(* Both statements about Bob are long, and begin with the same hundred     *)
(* characters.                                                             *)
Beginning(content) == IF content = BobFrom THEN NameBob ELSE content
Statement(content, statement, key, family, correction, from, until) ==
  [content |-> content, prefix |-> Beginning(content), statement |-> statement,
   key |-> key, family |-> family,
   correction |-> correction, confidence |-> IF correction THEN 90 ELSE 80,
   from |-> from, until |-> until]
Name(content, from, until) == Statement(content, content, "name", "fact", FALSE, from, until)

Ada == Name(NameAda, NoDate, NoDate)
Bob == Name(NameBob, NoDate, NoDate)
BobThen == Name(BobFrom, 2, 6)   \* with dates that are over or to come
UseTabs == Statement(Tabs, Tabs, "tabs", "preference", FALSE, NoDate, NoDate)
UseSpaces == Statement(Spaces, Spaces, "spaces", "preference", FALSE, NoDate, NoDate)
(* "Actually, I prefer spaces" matches twice, with and without "Actually". *)
NowSpaces == Statement(ActuallySpaces, Spaces, "spaces", "preference", TRUE, NoDate, NoDate)

MCCandidates == {Ada, Bob, BobThen, UseTabs, UseSpaces, NowSpaces}
Says == [m \in {NameAda, NameBob, BobFrom, Tabs, ActuallySpaces, Hello} |->
  CASE m = NameAda -> <<Ada>>
    [] m = NameBob -> <<Bob>>
    [] m = BobFrom -> <<BobThen>>
    [] m = Tabs -> <<UseTabs>>
    [] m = ActuallySpaces -> <<NowSpaces, UseSpaces>>
    [] m = Hello -> <<>>]
MCExtract == [m \in Messages |-> Says[m]]
MCText == [m \in Messages |-> m]
Families == {"preference", "policy"}

Contents == {c.content : c \in MCCandidates} \cup Messages
Asks(hits, relevant, similar, semantic) ==
  [hits |-> hits, relevance |-> [x \in Contents |-> IF x \in relevant THEN 10 ELSE 0],
   similarity |-> [x \in Contents |-> IF x \in similar THEN 100 ELSE 0], semantic |-> semantic]
(* What one asks shares words and meaning with everything, but only one    *)
(* buffer entry holds its text; is one name only; matches everything, by   *)
(* words only, and nothing in the buffer.                                  *)
AskAll == Asks({NameAda}, Contents, Contents, TRUE)
AskAda == Asks({NameAda}, {NameAda}, {NameAda}, TRUE)
AskWords == Asks({}, Contents, {}, FALSE)
MCQueries == {AskAll, AskAda, AskWords}

(* Queries are asked early, and what they reinforced goes on as early; what*)
(* is only said and consolidated goes on longer.                           *)
Early == /\ Len(log) <= 2 /\ clock <= 5
         /\ {log[i].message : i \in DOMAIN log} \subseteq {NameAda, BobFrom, Tabs}
Asked == \E c \in DOMAIN memory : memory[c].access > 1
AskedEarly == Asked => Early
(* The assistant greets, and says one name: so the graph hears a value that*)
(* the buffer does not, after or before the user's.                        *)
MCNext ==
  \/ \E m \in Messages \ {Hello} : LogMessage(m, "user")
  \/ \E m \in {Hello, NameBob} : LogMessage(m, "assistant")
  \/ Pass \/ Begin \/ Commit \/ (Early /\ Ask)
MCSpec == Init /\ [][MCNext]_vars
=============================================================================
