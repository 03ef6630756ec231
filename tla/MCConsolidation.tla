-------------------------- MODULE MCConsolidation --------------------------
(***************************************************************************)
(* Small worlds for Consolidation: what the messages say and how their     *)
(* contents relate.  Each run's .cfg picks one set of messages.            *)
(***************************************************************************)
EXTENDS Consolidation, TLC

Statement(text, key, family, correction, episodic) ==
  [content |-> text, prefix |-> text, statement |-> text, key |-> key, family |-> family,
   correction |-> correction, episodic |-> episodic, entity |-> FALSE,
   alias |-> "none", label |-> "none"]
Entity(text, alias, label) ==
  [content |-> text, prefix |-> text, statement |-> text, key |-> NoKey, family |-> "none",
   correction |-> FALSE, episodic |-> FALSE, entity |-> TRUE, alias |-> alias, label |-> label]

(* A fact slot stated two ways, one of them also as a correction with its  *)
(* own text, and a paraphrase of it whose embedding is close.              *)
Berlin  == Statement("I live in Berlin, for Acme", "fact:i live in", "fact", FALSE, FALSE)
Munich  == Statement("I live in Munich", "fact:i live in", "fact", FALSE, FALSE)
Corrects(text, statement) ==
  [statement EXCEPT !.content = text, !.prefix = text, !.correction = TRUE]
MunichC == Corrects("Actually, I live in Munich", Munich)
Bavaria == Statement("I live in Munich, Bavaria", "fact:i live in", "fact", FALSE, FALSE)
(* Three preferences: different slots of one implicit-subject family.  A    *)
(* corrected one is found twice in its message, as correction and as       *)
(* preference.                                                             *)
Python  == Statement("I prefer Python", "preference:python", "preference", FALSE, FALSE)
Rust    == Statement("I prefer Rust", "preference:rust", "preference", FALSE, FALSE)
RustC   == Corrects("Actually, I prefer Rust", Rust)
Go      == Statement("I prefer Go", "preference:go", "preference", FALSE, FALSE)
GoC     == Corrects("Correction: I prefer Go", Go)
(* Two addresses of an endpoint that differ after a hundred characters.    *)
Staging == Statement("the endpoint is https://... staging", "fact:the endpoint", "fact", FALSE, FALSE)
Live    == [Staging EXCEPT !.content = "the endpoint is https://... live",
                           !.statement = "the endpoint is https://... live"]
(* Episodic outcomes have no slot; a message yields one at most.           *)
Worked  == Statement("that worked", NoKey, "none", FALSE, TRUE)
Failed  == Statement("that failed", NoKey, "none", FALSE, TRUE)
Broke   == Statement("it broke", NoKey, "none", FALSE, TRUE)
(* One company written three ways, of which the rules of normalisation     *)
(* make two aliases; a firm that has a name in common with it, a person    *)
(* too; and a statement about it.                                          *)
Acme     == Entity("ORG: Acme", "acme", "ORG")
Holdings == Entity("ORG: Acme Holdings", "acme", "ORG")
Labs     == Entity("ORG: Acme Labs", "acme labs", "ORG")
Tools    == Entity("ORG: Acme Tools", "acme tools", "ORG")
MrAcme   == Entity("PERSON: Acme", "acme", "PERSON")
Signed   == Statement("the Acme contract is signed", "fact:the acme contract", "fact", FALSE, FALSE)
(* What an LLM proposes: a slot it names itself, with two values, what the *)
(* rules find too, an outcome.                                             *)
Zig     == Statement("The user writes Zig", "fact:user language", "fact", FALSE, FALSE)
Odin    == Statement("The user moved to Odin", "fact:user language", "fact", TRUE, FALSE)
Shipped == Statement("The release shipped", NoKey, "none", FALSE, TRUE)

AllCandidates == {Berlin, Munich, MunichC, Bavaria, Python, Rust, RustC, Go, GoC,
                  Worked, Failed, Broke, Acme, Holdings, Labs, Tools, MrAcme, Signed,
                  Zig, Odin, Shipped, Staging, Live}

Says == [joined |-> <<Acme, Berlin>>,       \* "I live in Berlin, for Acme"
         visiting |-> <<Holdings, Bavaria>>,
         labs |-> <<Labs>>, tools |-> <<Tools, MrAcme>>,
         munich |-> <<MunichC, Munich>>, staging |-> <<Staging>>, live |-> <<Live>>,
         berlin |-> <<Berlin>>, moved |-> <<Munich>>, signed |-> <<Signed>>, chat |-> <<>>,
         python |-> <<Python>>, rust |-> <<RustC, Rust>>, go |-> <<GoC, Go>>,
         worked |-> <<Worked>>, failed |-> <<Failed>>, broke |-> <<Broke>>]
MCExtract == [m \in Messages |-> Says[m]]

Item(cand, confidence, sources) == [cand |-> cand, confidence |-> confidence, sources |-> sources]
OnlyFailures == {<<>>}
MCAnswers == {<<>>,
  <<Item(Zig, 90, {1, 2}), Item(Munich, 80, {1, 2, 3})>>,
  <<Item(Berlin, 40, {1, 2, 3}), Item(Odin, 70, {2, 3, 4}), Item(Shipped, 60, {2})>>}

Same == {<<c, d>> \in AllCandidates \X AllCandidates : c.content = d.content}
Paraphrases == Same \cup {<<Munich, Bavaria>>, <<Bavaria, Munich>>}
MCContained == {<<"acme", "acme">>, <<"acme labs", "acme labs">>, <<"acme tools", "acme tools">>,
                <<"acme", "acme labs">>, <<"acme labs", "acme">>,
                <<"acme", "acme tools">>, <<"acme tools", "acme">>}
(* "Acme" embeds close to its tools, and to a statement about it.          *)
MCLinked == {<<Acme, Tools>>, <<Acme, Signed>>, <<Acme, MrAcme>>}
MCMentions == {<<Berlin, Acme>>, <<Signed, Acme>>}

Families == {"preference", "policy"}

FactMessages == {"joined", "munich", "visiting"}
EntityMessages == {"joined", "labs", "tools", "signed"}
LongMessages == {"staging", "live"}
TwoSessionMessages == FactMessages \cup EntityMessages \cup LongMessages
SessionMessages == {"python", "rust", "go", "chat", "worked", "failed", "broke", "munich", "signed"}
RefinedMessages == {"chat", "munich", "worked"}
TwoFacts == {"berlin", "moved"}

(* A run tells its stories one at a time, to keep apart what has nothing to*)
(* say to each other: two sessions about a slot, about companies, or about *)
(* long addresses; one session about many things, or about few while an LLM*)
(* refines it.  Of companies three messages are said in all.               *)
Talk == UNION {{log[s][i] : i \in DOMAIN log[s]} : s \in Sessions}
Refining ==
  \/ job # NoJob /\ \E a \in job.todo : a.stage = 2
  \/ \E g \in {nodes, saved.nodes} : \E n \in DOMAIN g : g[n].cand \in {Zig, Odin, Shipped}
Spoken == {<<s, i>> \in Sessions \X (1 .. MaxLog) : i \in DOMAIN log[s]}
OneStory ==
  \E story \in {FactMessages, EntityMessages, LongMessages} :
    /\ Talk \subseteq story
    /\ story = EntityMessages => Cardinality(Spoken) <= 3
RulesOrRefined == Refining => Talk \subseteq RefinedMessages /\ Cardinality(issued) <= 3

IdSymmetry == Permutations(NodeIds)
Symmetry == Permutations(NodeIds) \cup Permutations(Sessions)

=============================================================================
