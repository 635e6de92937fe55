----------------------------- MODULE ToolDialogue -----------------------------
(***************************************************************************)
(* A conversation with tools, as its client keeps it and as each family of *)
(* clients in glc/providers.py translates it for its vendor.  The vendor   *)
(* of one turn need not be the vendor of the next, nor the one that made   *)
(* the calls whose results are sent: chat() fails over.  OpenAI vendors    *)
(* tie a result to its call by id, Gemini by name, Ollama by their order.  *)
(* "prompted" is Ollama with a model that has no tools, which are          *)
(* described in the system text then.                                      *)
(***************************************************************************)
EXTENDS Naturals, Sequences, SequencesExt, FiniteSets

CONSTANTS
  ToolNames,       \* names of tools
  NoToolName,      \* a result without one; Gemini is told "tool" then
  MaxDialogue      \* bound: messages

ASSUME DialogueAssumption == NoToolName \notin ToolNames /\ MaxDialogue \in Nat

Families == {"openai", "gemini", "ollama", "prompted"}

VARIABLES
  client,          \* whether it sends a system text (blocks), and the names of tools with results
  dialogue,        \* messages
  request          \* what went to a vendor: its family, the translation (<< >> before)

dialogue_vars == <<client, dialogue, request>>

NoRequest == [family |-> "none", out |-> << >>]

(* A client may also have its system text as a message.                    *)
DialogueInit ==
  /\ client \in [blocks : BOOLEAN, names : BOOLEAN]
  /\ dialogue \in {<< >>, <<[role |-> "system"]>>}
  /\ request = NoRequest

(* One message of the translation: from which, what it is, and by what it  *)
(* tells calls or results.                                                 *)
Item(i, role, marks) == <<[src |-> i, role |-> role, marks |-> marks]>>

CallIds(m) == [k \in DOMAIN m.calls |-> m.calls[k].id]
CallNames(m) == [k \in DOMAIN m.calls |-> m.calls[k].name]

(* Only without other system text: for a prompted model that of the tools. *)
InlineSystem(i, others) == IF others THEN << >> ELSE Item(i, "system", << >>)

(* Mutant: a result goes under the name of its tool.                       *)
OpenAIItemByName(i) ==
  LET m == dialogue[i]
  IN  CASE m.role = "system" -> InlineSystem(i, client.blocks)
        [] m.role = "tool" -> Item(i, "tool", <<m.name>>)
        [] m.role = "assistant" -> Item(i, "assistant", CallIds(m))
        [] m.role = "user" -> Item(i, "user", << >>)

(* OpenAICompatProvider._translate_messages()                              *)
OpenAIItem(i) ==
  LET m == dialogue[i]
  IN  CASE m.role = "system" -> InlineSystem(i, client.blocks)
        [] m.role = "tool" -> Item(i, "tool", <<m.id>>)
        [] m.role = "assistant" -> Item(i, "assistant", CallIds(m))
        [] m.role = "user" -> Item(i, "user", << >>)

(* GeminiProvider._translate_messages(); a call carries the signature that *)
(* Gemini gave it.                                                         *)
GeminiItem(i) ==
  LET m == dialogue[i]
  IN  CASE m.role = "system" -> << >>
        [] m.role = "tool" -> Item(i, "user", <<[name |-> m.name, signed |-> FALSE]>>)
        [] m.role = "assistant" ->
             Item(i, "model", [k \in DOMAIN m.calls |->
                                 [name |-> m.calls[k].name, signed |-> m.calls[k].signed]])
        [] m.role = "user" -> Item(i, "user", << >>)

(* OllamaProvider._translate_messages(): a call has its name and a result  *)
(* nothing; for a prompted model results are said by the user.             *)
OllamaItem(i, prompted) ==
  LET m == dialogue[i]
  IN  CASE m.role = "system" -> InlineSystem(i, client.blocks \/ prompted)
        [] m.role = "tool" -> IF prompted THEN Item(i, "user", <<m.id>>)
                              ELSE Item(i, "tool", << >>)
        [] m.role = "assistant" -> Item(i, "assistant", CallNames(m))
        [] m.role = "user" -> Item(i, "user", << >>)

ItemFor(family, i) ==
  CASE family = "openai" -> OpenAIItem(i)
    [] family = "gemini" -> GeminiItem(i)
    [] family = "ollama" -> OllamaItem(i, FALSE)
    [] family = "prompted" -> OllamaItem(i, TRUE)

(* The loop over the messages, of each _translate_messages().              *)
Translation(family) ==
  LET out[i \in 0..Len(dialogue)] ==
        IF i = 0 THEN << >> ELSE out[i - 1] \o ItemFor(family, i)
  IN  out[Len(dialogue)]

LastRole == IF dialogue = << >> THEN "none" ELSE Last(dialogue).role

(* The next turn, when no results are due.                                 *)
UserSays ==
  /\ Len(dialogue) < MaxDialogue
  /\ LastRole \in {"none", "system", "assistant"}
  /\ LastRole = "assistant" => Last(dialogue).calls = << >>
  /\ dialogue' = Append(dialogue, [role |-> "user"])
  /\ request' = NoRequest
  /\ UNCHANGED client

(* chat() sends the conversation to one vendor, or to the next.            *)
Sends(family) ==
  /\ LastRole \in {"user", "tool"}
  /\ request' = [family |-> family, out |-> Translation(family)]
  /\ UNCHANGED <<client, dialogue>>

(* What a family's chat() makes of an answer: calls with ids, which differ *)
(* within an answer, some of Gemini's with a signature; and a prompted     *)
(* model's JSON is one call.                                               *)
CallLists(most, signatures) ==
  {[k \in DOMAIN names |-> [id |-> k, name |-> names[k], signed |-> s /\ k = 1]] :
     names \in UNION {[1..n -> ToolNames] : n \in 0..most}, s \in signatures}

OpenAIAnswers == CallLists(2, {FALSE})
GeminiAnswers == CallLists(2, BOOLEAN)
OllamaAnswers == CallLists(2, {FALSE})
PromptedAnswers == CallLists(1, {FALSE})

AnswersOf(family) ==
  CASE family = "openai" -> OpenAIAnswers
    [] family = "gemini" -> GeminiAnswers
    [] family = "ollama" -> OllamaAnswers
    [] family = "prompted" -> PromptedAnswers

VendorAnswers ==
  /\ request # NoRequest /\ Len(dialogue) < MaxDialogue
  /\ \E calls \in AnswersOf(request.family) :
       dialogue' = Append(dialogue, [role |-> "assistant", calls |-> calls])
  /\ request' = NoRequest
  /\ UNCHANGED client

(* The client runs the tools and appends the results, in any order.        *)
ClientReplies ==
  LET calls == Last(dialogue).calls
      Result(c) == [role |-> "tool", id |-> c.id, name |-> IF client.names THEN c.name ELSE NoToolName]
  IN  /\ LastRole = "assistant" /\ calls # << >>
      /\ \E order \in SetToSeqs(DOMAIN calls) :
           dialogue' = dialogue \o [k \in DOMAIN order |-> Result(calls[order[k]])]
      /\ request' = NoRequest
      /\ UNCHANGED client

DialogueNext ==
  UserSays \/ VendorAnswers \/ ClientReplies \/ \E f \in Families : Sends(f)

DialogueSpec == DialogueInit /\ [][DialogueNext]_dialogue_vars
-------------------------------------------------------------------------------
Of(item) == dialogue[item.src]

(* The call of this result among those of the turn at c, told by r, the    *)
(* place of the result after it; first, as its vendor can tell, and then   *)
(* as the client meant it.                                                 *)
FoundCall(family, turn, result, r) ==
  IF family \in {"openai", "gemini"}
  THEN {k \in DOMAIN turn.marks : /\ family = "openai" => turn.marks[k] = result.marks[1]
                                  /\ family = "gemini" => turn.marks[k].name = result.marks[1].name}
  ELSE {r}

MeantCall(turn, result) == CHOOSE k \in DOMAIN Of(turn).calls : Of(turn).calls[k].id = Of(result).id

(* "Each adapter translates them to its native shape" (providers.py):      *)
(* whichever vendors take part, the translation has every message once and *)
(* in order, but for a system message beside other system text or for      *)
(* Gemini; signatures go back to Gemini with the call they came with; and  *)
(* each result finds its call, for OpenAI always, for Gemini if the client *)
(* names its tools (two calls of one tool stay alike), and for Ollama if   *)
(* the client appended the results in the order of the calls.              *)
ResultsFindTheirCalls ==
  LET out == request.out
      family == request.family
      Role(j) == Of(out[j]).role
  IN  family # "none" =>
        /\ \A i, j \in DOMAIN out : i < j => out[i].src < out[j].src
        /\ \A i \in DOMAIN dialogue :
             \/ \E j \in DOMAIN out : out[j].src = i
             \/ dialogue[i].role = "system" /\ (client.blocks \/ family \in {"gemini", "prompted"})
        /\ \A j \in DOMAIN out :
             /\ family = "gemini" /\ Role(j) = "assistant" =>
                  \A k \in DOMAIN out[j].marks : out[j].marks[k].signed = Of(out[j]).calls[k].signed
             /\ Role(j) = "tool" =>
                  \E c \in 1..(j - 1) :
                    /\ Role(c) = "assistant" /\ \A i \in (c + 1)..j : Role(i) = "tool"
                    /\ LET found == FoundCall(family, out[c], out[j], j - c)
                           meant == MeantCall(out[c], out[j])
                           named == {k \in DOMAIN Of(out[c]).calls :
                                       Of(out[c]).calls[k].name = Of(out[c]).calls[meant].name}
                           in_order == \A i \in (c + 1)..j : MeantCall(out[c], out[i]) = i - c
                       IN  CASE family = "openai" -> found = {meant}
                             [] family = "gemini" -> client.names => found = named
                             [] family \in {"ollama", "prompted"} -> in_order => found = {meant}
===============================================================================
