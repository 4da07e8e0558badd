------------------------------ MODULE PanelApi ------------------------------
(***************************************************************************)
(* The commands of the panel (panel_api.py): the catalogue of producers,   *)
(* syrups and toppings, flavour tags, prompts, and the structured call of  *)
(* a language model, which the Sommelier's generate uses too.              *)
(*                                                                         *)
(* Each of them first makes sure of the panel's tables by executescript(), *)
(* which commits whatever the others have executed so far.                 *)
(***************************************************************************)
EXTENDS SharedConnection

\* A command comes in, to write todo to a row.
PanelBegin(c, op, row, todo) ==
  /\ Call(c, op)
  /\ Go(c, "ensure", Request(op, row, todo, None))
  /\ UNCHANGED <<state, migration, work, disk, writers, dbLock, llm, contended>>

PanelCall(c, op, row, todo) == PanelBegin(c, op, row, todo) /\ UNCHANGED issued

\* The number that AUTOINCREMENT will give the row is picked here.
PanelInsert(c, op, row, todo) ==
  row \notin issued /\ PanelBegin(c, op, row, todo) /\ issued' = issued \cup {row}

\* executescript() commits, and commit() at its end does; the migration of
\* tables that already have their columns does nothing.
EnsurePanelSchema(c) ==
  /\ pc[c] = "ensure"
  /\ disk' = work /\ writers' = {}
  /\ \E step \in {"ensure", "statement"} : Go(c, step, req[c])
  /\ UNCHANGED <<state, migration, work, dbLock, llm, issued, calls, contended>>

PanelStatement(c, op, ok, d) ==
  /\ At(c, op, "statement")
  /\ Execute(c, ok, d, "commit", req[c])
  /\ UNCHANGED <<issued, contended>>

\* producers.name is UNIQUE.
NameFree(p, n) == \A q \in Producers \ {p} : work.producers[q] # n

WsProducersAdd(c) ==
  LET op == "producers/add" p == req[c].row n == req[c].todo IN
  \/ \E q \in Producers, m \in Names : PanelInsert(c, op, q, m)
  \/ PanelStatement(c, op, NameFree(p, n), AddProducer(work, p, n))

\* A patch without a name leaves the name alone.
WsProducersUpdate(c) ==
  LET op == "producers/update" p == req[c].row n == req[c].todo IN
  \/ \E q \in Producers, m \in Names \cup {None} : PanelCall(c, op, q, m)
  \/ /\ n # None
     /\ PanelStatement(c, op, work.producers[p] = None \/ NameFree(p, n),
                       UpdateProducer(work, p, n))
  \/ n = None /\ PanelStatement(c, op, TRUE, work)

WsProducersDelete(c) ==
  LET op == "producers/delete" p == req[c].row IN
  \/ \E q \in Producers : PanelCall(c, op, q, None)
  \/ PanelStatement(c, op, TRUE, DeleteProducer(work, p))

\* Syrups and toppings have the same handlers.
WsAdditivesAdd(c) ==
  LET op == "additives/add" a == req[c].row p == req[c].todo IN
  \/ \E b \in Additives, q \in Producers \cup {None} : PanelInsert(c, op, b, q)
  \/ PanelStatement(c, op, TRUE, AddAdditive(work, a, p))

WsAdditivesUpdate(c) ==
  LET op == "additives/update" a == req[c].row p == req[c].todo IN
  \/ \E b \in Additives, q \in Producers : PanelCall(c, op, b, q)
  \/ PanelStatement(c, op, TRUE, UpdateAdditive(work, a, p))

\* It looks first whether the row is there, and answers not_found if not.
WsAdditivesSetAvailable(c) ==
  LET op == "additives/set_available" a == req[c].row flag == req[c].todo IN
  \/ \E b \in Additives, f \in BOOLEAN : PanelCall(c, op, b, f)
  \/ /\ At(c, op, "statement") /\ UNCHANGED <<issued, contended>>
     /\ IF \E x \in work.additives : x.id = a THEN ReadOn(c, "flag", req[c]) ELSE ReadEnd(c)
  \/ /\ At(c, op, "flag") /\ UNCHANGED <<issued, contended>>
     /\ Execute(c, TRUE, SetAdditiveAvailable(work, a, flag), "commit", req[c])

WsAdditivesDelete(c) ==
  LET op == "additives/delete" a == req[c].row IN
  \/ \E b \in Additives : PanelCall(c, op, b, None)
  \/ PanelStatement(c, op, TRUE, DeleteAdditive(work, a))

WsTagsAdd(c) ==
  LET op == "tags/add" IN
  \/ \E t \in Tags : PanelCall(c, op, t, None)
  \/ PanelStatement(c, op, TRUE, AddTag(work, req[c].row))

WsTagsDelete(c) ==
  LET op == "tags/delete" IN
  \/ \E t \in Tags : PanelCall(c, op, t, None)
  \/ PanelStatement(c, op, TRUE, DeleteTag(work, req[c].row))

\* A slot that is not one of DEFAULT_PROMPTS is refused before the database.
WsPromptsSave(c) ==
  LET op == "prompts/save" IN
  \/ \E s \in Slots : PanelCall(c, op, s, None)
  \/ PanelStatement(c, op, TRUE, SavePrompt(work, req[c].row))

WsPromptsReset(c) ==
  LET op == "prompts/reset" IN
  \/ \E s \in Slots : PanelCall(c, op, s, None)
  \/ PanelStatement(c, op, TRUE, ResetPrompt(work, req[c].row))

(***************************************************************************)
(* _structured_call: at most two attempts at a reply that is JSON of the   *)
(* expected shape.  A reply that is JSON but not of that shape is kept for *)
(* a preview.                                                              *)
(***************************************************************************)
MaxAttempts == 2

\* The native path of a SmartChain agent, which falls back on the text path.
SmartChainReply(c) ==
  /\ pc[c] = "llm" /\ llm[c] = NoReply
  /\ llm' = [llm EXCEPT ![c].parsed = "valid"]
  /\ Go(c, "structured", req[c])
  /\ UNCHANGED <<state, migration, work, disk, writers, dbLock, issued, calls, contended>>

\* Mutant: the errors of the first attempt stay.
JudgedOnce(reply, raw) ==
  [attempt |-> reply.attempt + 1,
   parsed |-> IF raw = "notJson" THEN reply.parsed ELSE raw,
   errors |-> reply.errors \/ raw # "valid",
   raw |-> raw]

\* Mutant: no attempt is counted.
JudgedEndlessly(reply, raw) ==
  [attempt |-> reply.attempt,
   parsed |-> IF raw = "notJson" THEN reply.parsed ELSE raw,
   errors |-> raw # "valid",
   raw |-> raw]

\* _parse_llm_json and _validate_parsed of one reply, whichever it is.
Judged(reply, raw) ==
  [attempt |-> reply.attempt + 1,
   parsed |-> IF raw = "notJson" THEN reply.parsed ELSE raw,
   errors |-> raw # "valid",
   raw |-> raw]

TextReply(c) ==
  /\ pc[c] = "llm"
  /\ \E raw \in {"valid", "invalid", "notJson"} :
       /\ llm' = [llm EXCEPT ![c] = Judged(llm[c], raw)]
       /\ Go(c, IF raw = "valid" \/ llm[c].attempt + 1 = MaxAttempts
                  THEN "structured" ELSE "llm", req[c])
  /\ UNCHANGED <<state, migration, work, disk, writers, dbLock, issued, calls, contended>>

\* The conversation agent raises: conversation_error or generation_failed.
LLMFails(c) ==
  /\ pc[c] = "llm" /\ ReadEnd(c) /\ UNCHANGED <<issued, calls, contended>>

\* beans/autofill answers with the payload as it is.
WsBeansAutofill(c) ==
  LET op == "beans/autofill" IN
  \/ PanelCall(c, op, None, None)
  \/ At(c, op, "statement") /\ ReadOn(c, "llm", req[c]) /\ UNCHANGED <<issued, contended>>
  \/ At(c, op, "structured") /\ ReadEnd(c) /\ UNCHANGED <<issued, contended>>

\* So does that of a syrup or topping, if its producer exists.
WsAdditivesAutofill(c) ==
  LET op == "additives/autofill" IN
  \/ \E p \in Producers : PanelCall(c, op, p, None)
  \/ /\ At(c, op, "statement") /\ UNCHANGED <<issued, contended>>
     /\ IF work.producers[req[c].row] # None
          THEN ReadOn(c, "llm", req[c]) ELSE ReadEnd(c)
  \/ At(c, op, "structured") /\ ReadEnd(c) /\ UNCHANGED <<issued, contended>>

PanelStep(c) ==
  \/ EnsurePanelSchema(c)
  \/ WsProducersAdd(c) \/ WsProducersUpdate(c) \/ WsProducersDelete(c)
  \/ WsAdditivesAdd(c) \/ WsAdditivesUpdate(c) \/ WsAdditivesDelete(c)
  \/ WsAdditivesSetAvailable(c) \/ WsAdditivesAutofill(c)
  \/ WsTagsAdd(c) \/ WsTagsDelete(c)
  \/ WsPromptsSave(c) \/ WsPromptsReset(c) \/ WsBeansAutofill(c)
  \/ SmartChainReply(c) \/ TextReply(c) \/ LLMFails(c)
=============================================================================
