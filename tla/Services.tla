------------------------------ MODULE Services ------------------------------
(***************************************************************************)
(* How the engine asks the services that limit it: the language models     *)
(* (llm/client.py), the news search (enrichment/external_signals.py) and   *)
(* the browser that renders pages (scraping/browser.py).                   *)
(*                                                                         *)
(* Each is a function of the requests it gets, in the order in which its   *)
(* asyncio lock serves them, with the tick of the event loop's clock at    *)
(* which each arrives.  A tick refills one token of the bucket.            *)
(***************************************************************************)
EXTENDS Integers, Sequences, FiniteSetsExt

CONSTANTS
  Capacity,  \* tokens per minute
  Tries,     \* retries of _post_with_retry
  Models,    \* how many GEMINI_MODELS there are
  Interval,  \* GDELT_MIN_INTERVAL_S
  Shell      \* min_text_chars, in hundreds of characters

ServicesAssumption ==
  /\ {Capacity, Tries, Models} \subseteq Nat \ {0} /\ {Interval, Shell} \subseteq Nat

AtMost(bound, n) == IF n < bound THEN n ELSE bound
AtLeast(bound, n) == IF n > bound THEN n ELSE bound

\* Serves the requests one after the other: what each got.
Serve(step(_, _), start, requests) ==
  LET done[n \in 0..Len(requests)] ==
        IF n = 0 THEN [state |-> start] ELSE step(done[n - 1].state, requests[n])
  IN [i \in DOMAIN requests |-> done[i].got]

\* The sums of the first n of some amounts.
Sums(amounts) ==
  LET sum[n \in 0..Len(amounts)] == IF n = 0 THEN 0 ELSE sum[n - 1] + amounts[n]
  IN sum

-----------------------------------------------------------------------------
(* TokenBucket, shared by every call to Groq.                              *)

Call == [at : Nat, amount : Int, late : Nat]

FullBucket == [tokens |-> Capacity, updated |-> 0]

Clipped(amount) == AtMost(Capacity, AtLeast(0, amount))

Refilled(b, now) ==
  [tokens |-> AtMost(Capacity, b.tokens + now - b.updated), updated |-> now]

\* Faulty variant: the refill that a call slept for is counted again.
AcquireForgets(b, r) ==
  LET amount == Clipped(r.amount)
      first == Refilled(b, AtLeast(b.updated, r.at))
      sleep == IF first.tokens >= amount THEN 0 ELSE amount - first.tokens + r.late
  IN [state |-> [tokens |-> Refilled(first, first.updated + sleep).tokens - amount,
                 updated |-> first.updated],
      got |-> first.updated + sleep]

\* acquire: a call that lacks tokens sleeps, holding the lock, until they are
\* there, or a little longer, and looks again.
Acquire(b, r) ==
  LET amount == Clipped(r.amount)
      first == Refilled(b, AtLeast(b.updated, r.at))
      sleep == IF first.tokens >= amount THEN 0 ELSE amount - first.tokens + r.late
      second == Refilled(first, first.updated + sleep)
  IN [state |-> [second EXCEPT !.tokens = @ - amount], got |-> second.updated]

Granted(requests) == Serve(Acquire, FullBucket, requests)

-----------------------------------------------------------------------------
(* One call to a language model.  An answer is text, an empty text, a      *)
(* status (busy: 429 or 503, gone: 404, down: another 5xx, refused: the    *)
(* rest) or a connection that broke.                                       *)

Outcomes == {"text", "empty", "busy", "gone", "down", "refused", "broken"}

Transient == {"busy", "down", "broken"}

\* The first of the answers that ends the asking is the last one asked for.
Until(answers, Ends(_)) ==
  LET ends == {i \in DOMAIN answers : Ends(answers[i])}
  IN SubSeq(answers, 1, IF ends = {} THEN Len(answers) ELSE Min(ends))

\* _post_with_retry and GroqLLM.complete: an empty text is an answer.
Groq(answers) == Until(SubSeq(answers, 1, Tries), LAMBDA a : a \notin Transient)
GroqAnswers(asked) == asked[Len(asked)] \in {"text", "empty"}

\* GeminiLLM.complete walks its models on, but only for these.
WalksOn == {"gone", "busy", "empty"}
Gemini(answers) == Until(SubSeq(answers, 1, Models), LAMBDA a : a \notin WalksOn)
GeminiAnswers(asked) == asked[Len(asked)] = "text"

\* OllamaLLM.complete asks once.
Ollama(answers) == SubSeq(answers, 1, 1)

\* build_llm: which providers a process has, in the order it asks them.
Providers(provider, up, groq, gemini) ==
  IF provider \in {"ollama", "auto"} /\ up THEN <<"ollama">>
  ELSE IF provider \in {"groq", "auto"} /\ groq
       THEN IF gemini THEN <<"groq", "gemini">> ELSE <<"groq">>
  ELSE IF provider \in {"gemini", "auto"} /\ gemini THEN <<"gemini">>
  ELSE <<>>

Asked(p, answers) ==
  CASE p = "groq" -> Groq(answers) [] p = "gemini" -> Gemini(answers)
    [] p = "ollama" -> Ollama(answers)
Answered(p, asked) ==
  IF p = "gemini" THEN GeminiAnswers(asked) ELSE GroqAnswers(asked)

\* FallbackLLM.complete: by is the provider whose answer it is, 0 for none.
Complete(chain, answers) ==
  LET asked == [i \in DOMAIN chain |-> Asked(chain[i], answers[i])]
      answered == {i \in DOMAIN chain : Answered(chain[i], asked[i])}
      by == IF answered = {} THEN 0 ELSE Min(answered)
  IN [by |-> by, asked |-> SubSeq(asked, 1, IF by = 0 THEN Len(chain) ELSE by)]

-----------------------------------------------------------------------------
(* NewsChecker.mentions: who finds the slot taken goes without.            *)

Article == [at : Nat, took : Nat]

Skipped == -1
IdleSlot == [free |-> 0, last |-> -Interval]

Mention(slot, r) ==
  IF r.at < slot.free THEN [state |-> slot, got |-> Skipped]
  ELSE LET asked == AtLeast(slot.last + Interval, r.at)
       IN [state |-> [free |-> asked + r.took, last |-> asked + r.took], got |-> asked]

News(requests) == Serve(Mention, IdleSlot, requests)

-----------------------------------------------------------------------------
(* FallbackFetcher.get.  A request has the static answer and what a        *)
(* browser would make of the page: how much text, none when it fails.      *)

Statics == {"dead", "missing", "robots", "html", "other"}

Page(p) == p.static \in Statics /\ p.chars \in Nat /\ p.browser \in Int

Failed(r) == r.static \in {"dead", "missing", "robots"}

NeedsBrowser(r) ==
  /\ ~r.api /\ r.static # "robots"
  /\ r.static = "dead" \/ (r.static = "html" /\ r.chars < Shell)

\* The static answers come back in this order; no await lies between the look
\* at the hosts tried and the entry.
Fetch(tried, r) ==
  IF ~NeedsBrowser(r) \/ (r.host \in tried /\ Failed(r))
  THEN [state |-> tried, got |-> [rendered |-> FALSE, chars |-> r.chars]]
  ELSE LET better == r.browser >= Shell \/ r.browser >= r.chars + 1
       IN [state |-> tried \cup {r.host},
           got |-> [rendered |-> TRUE, chars |-> IF better THEN r.browser ELSE r.chars]]

Rendered(requests) == Serve(Fetch, {}, requests)

=============================================================================
