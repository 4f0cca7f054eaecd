------------------------------ MODULE Wording ------------------------------
(***************************************************************************)
(* What the engine reads out of other people's words, and what a language  *)
(* model's reply may add: the label of an answer to its mail               *)
(* (outreach/reply_classifier.py), and the tasks of llm/tasks.py.          *)
(*                                                                         *)
(* A line is known by the labels whose rules match in it, the addresses in *)
(* it, and whether it is blank or the word stop alone.  A reply of the model is None when there is no model, when the   *)
(* call failed or when nothing can be read from it.                        *)
(***************************************************************************)
EXTENDS Integers, SequencesExt

CONSTANTS
  None,
  DomainOf,    \* the domain of every address
  Words,       \* words that are no stop words, of 2 to 40 characters
  MaxKeywords, \* max_keywords
  MaxPains     \* the 8 complaints that are kept

WordingAssumption == {MaxKeywords, MaxPains} \subseteq Nat

\* LABELS, in the order in which the rules are tried.
Labels == <<"unsubscribe", "out_of_office", "wrong_person", "not_interested", "interested",
            "auto_reply">>

\* REPLY_LABELS, in the order in which they are looked for.
ModelLabels == <<"interested", "not_interested", "out_of_office", "wrong_person", "unsubscribe",
                 "auto_reply", "reply">>

\* The labels that occur in a label: not_interested contains interested.
Within(label) ==
  {label} \cup (CASE label = "not_interested" -> {"interested"} [] label = "auto_reply" -> {"reply"}
                  [] label \notin {"not_interested", "auto_reply"} -> {})

-----------------------------------------------------------------------------
(* Replies to the engine's mail.                                           *)

Line ==
  {line \in [says : SUBSET Range(Labels), addresses : Seq(STRING), quote : BOOLEAN, long : BOOLEAN,
             text : {"blank", "stop", "words"}] :
     line.text = "words" \/ (line.says = {} /\ line.addresses = <<>>)}

StripQuoted(lines) ==
  LET cut == SelectInSeq(lines, LAMBDA line : line.quote)
  IN IF cut = 0 THEN lines ELSE SubSeq(lines, 1, cut - 1)

\* _referral: the first address that is neither ours nor the sender's.
Referral(fresh, own, sender) ==
  LET all == FlattenSeq([i \in DOMAIN fresh |-> fresh[i].addresses])
      other == SelectInSeq(all, LAMBDA a : a \notin {own, sender})
  IN IF other = 0 THEN None ELSE all[other]

\* Nothing but the word stop stands in the subject and the fresh text: the rule
\* for it is anchored at the ends of the whole text.
BareStop(subject, fresh) ==
  LET Blank(I) == \A i \in I : fresh[i].text = "blank"
  IN \/ subject.text = "stop" /\ Blank(DOMAIN fresh)
     \/ /\ subject.text = "blank"
        /\ \E i \in DOMAIN fresh : fresh[i].text = "stop" /\ Blank(DOMAIN fresh \ {i})

\* The labels whose rules match in the subject or in the fresh text.
Matching(subject, fresh) ==
  (UNION {line.says : line \in {subject} \cup Range(fresh)})
    \cup (IF BareStop(subject, fresh) THEN {"unsubscribe"} ELSE {})

\* classify
ClassifyReply(m) ==
  LET fresh == StripQuoted(m.lines)
      says == Matching(m.subject, fresh)
      first == SelectInSeq(Labels, LAMBDA l : l \in says)
      offered == Referral(fresh, m.own, m.sender)
      short == \A line \in Range(fresh) : ~line.long
  IN IF first # 0
     THEN [label |-> Labels[first],
           referred |-> IF Labels[first] = "wrong_person" THEN offered ELSE None]
     ELSE IF offered # None /\ DomainOf[offered] = DomainOf[m.sender] /\ short
     THEN [label |-> "wrong_person", referred |-> offered]
     ELSE [label |-> "reply", referred |-> None]

\* tasks.classify_reply
SecondOpinion(m, reply) ==
  IF reply = None \/ \A line \in Range(StripQuoted(m.lines)) : line.text = "blank" THEN None
  ELSE Head(SelectSeq(ModelLabels, LAMBDA l : l \in Within(reply)))

\* apply_inbound asks the model about what the rules could not label.
LabelOf(m, reply) ==
  LET c == ClassifyReply(m)  second == SecondOpinion(m, reply)
  IN IF c.label = "reply" /\ second # None THEN [c EXCEPT !.label = second] ELSE c

-----------------------------------------------------------------------------
(* Tasks.                                                                  *)

FirstOf(s, n) == SubSeq(s, 1, IF Len(s) < n THEN Len(s) ELSE n)

\* The terms that may stand in a list, each where it occurs first.
Listed(terms, may) ==
  LET kept[i \in 0..Len(terms)] ==
        IF i = 0 THEN <<>>
        ELSE IF terms[i] \in may \ Range(kept[i-1]) THEN Append(kept[i-1], terms[i])
        ELSE kept[i-1]
  IN kept[Len(terms)]

\* _dedupe_lower
Deduped(terms) == Listed(terms, Words)

\* generate_keywords, and _build_relevance_keywords around it.
Keywords(words, reply) ==
  FirstOf(Deduped(IF reply = None THEN words ELSE words \o reply), MaxKeywords)
RelevanceKeywords(own, words, reply) ==
  Listed(own \o Keywords(words, reply), Words \cup Range(own))

\* extract_requirement: what the reply quotes from the text, field by field.
Grounded(value, text) == value = None \/ value \in text
Requirement(text, reply) ==
  LET kept == IF reply = None THEN {}
              ELSE {f \in DOMAIN reply : reply[f] # None /\ Grounded(reply[f], text)}
  IN IF kept = {} THEN None ELSE [f \in kept |-> reply[f]]

\* judge_intent, with the confidence in percent.
Opinion == [buyer : BOOLEAN, confidence : Int]
JudgeIntent(reply) ==
  IF reply = None THEN None
  ELSE [reply EXCEPT !.confidence = IF @ < 0 THEN 0 ELSE IF @ > 100 THEN 100 ELSE @]

\* extract_review_pain: the rules' complaints unless the reply has some.
ReviewPain(rules, reply) ==
  LET pains == IF reply = None THEN <<>>
               ELSE FirstOf(SelectSeq(reply, LAMBDA p : p \in Words), MaxPains)
  IN IF pains = <<>> THEN rules ELSE pains

=============================================================================
