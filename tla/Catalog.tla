------------------------------ MODULE Catalog ------------------------------
(***************************************************************************)
(* The service catalog: an item with a form of fields, and the validation  *)
(* of what a requester has filled in when it opens a ticket with the item. *)
(* Fields are validated in their order and rewritten in place, so what a   *)
(* field shows depends on what the earlier ones have become.               *)
(* The audit record of a new item is left out, for nothing reads it.       *)
(***************************************************************************)
EXTENDS Integers, Sequences

CONSTANTS Forms, Payloads, Nil

(***************************************************************************)
(* item is the row, Nil before it is created; a field is a record of its   *)
(* type, whether it is required, and the field and value that show it. req *)
(* is the ticket under way: the item as it was read, and the payload.      *)
(***************************************************************************)
VARIABLES item, req

vars == <<item, req>>

Types == {"TEXT", "NUMBER", "BOOLEAN", "SELECT", "DATE"}

\* A payload lists the values of the fields; text is what String(value) is. These
\* texts are enough for each type to accept some and refuse others.
Texts == {"", " ", "0", "5", "05", "true", "false", "1 May", "iso"}
Value == [kind : {"string", "number", "boolean"}, text : Texts]
Text(s) == [kind |-> "string", text |-> s]
Empty(v) == v \in {Nil, Text("")}

Idle == [pc |-> "idle", form |-> <<>>, data |-> <<>>, next |-> 1, requiresApproval |-> FALSE]

Init == item = Nil /\ req = Idle

-----------------------------------------------------------------------------
\* A numeral, with blanks around it or with a leading zero, as the number prints;
\* a blank text is 0. The others are not numbers.
Numeral == [x \in {" ", "0", "5", "05"} |-> CASE x = " " -> "0" [] x = "05" -> "5" [] OTHER -> x]
Dates == {"1 May", "5", "05", "0"}
Options == {"5", "true", "1 May"}

\* What validateFieldValue makes of a value that is there, Nil when it throws. The
\* pattern of a field is left out: it refuses more texts and rewrites none.
ValidateFieldValue(type, v) ==
  CASE type = "TEXT" -> IF v.kind = "string" THEN v ELSE Nil
    [] type = "SELECT" -> IF v.kind = "string" /\ v.text \in Options THEN v ELSE Nil
    [] type = "NUMBER" ->
         IF v.kind = "number" THEN v
         ELSE IF v.text \in DOMAIN Numeral THEN [kind |-> "number", text |-> Numeral[v.text]]
         ELSE Nil
    [] type = "BOOLEAN" ->
         IF v.kind = "boolean" \/ v \in {Text("true"), Text("false")}
         THEN [v EXCEPT !.kind = "boolean"] ELSE Nil
    [] type = "DATE" ->
         IF v.text = "iso" \/ v.text \in Dates THEN Text("iso") ELSE Nil

\* A field without a condition is shown, another one when its field has the value,
\* be it a text, a number or a truth value; an absent value reads as "".
IsFieldVisible(field, data) ==
  \/ field.showWhen = Nil
  \/ LET v == data[field.showWhen] IN
     (IF v = Nil THEN "" ELSE v.text) = field.showValue

ValidateFieldAside(form, i, data) ==  \* Fault: the value is checked and not written back
  LET visible == IsFieldVisible(form[i], data)
      value == IF Empty(data[i]) THEN Nil ELSE ValidateFieldValue(form[i].type, data[i])
  IN IF visible /\ Empty(data[i]) /\ form[i].required THEN Nil
     ELSE IF visible /\ ~Empty(data[i]) /\ value = Nil THEN Nil
     ELSE data

\* What becomes of the payload at field i; Nil when the payload is refused.
ValidateField(form, i, data) ==
  LET visible == IsFieldVisible(form[i], data)
      value == IF Empty(data[i]) THEN Nil ELSE ValidateFieldValue(form[i].type, data[i])
  IN IF visible /\ Empty(data[i]) /\ form[i].required THEN Nil
     ELSE IF ~visible \/ Empty(data[i]) THEN data
     ELSE IF value = Nil THEN Nil
     ELSE [data EXCEPT ![i] = value]

-----------------------------------------------------------------------------
CreateItem(form, requiresApproval) ==
  /\ item = Nil
  /\ item' = [fields |-> form, isActive |-> TRUE, requiresApproval |-> requiresApproval]
  /\ UNCHANGED req

\* The columns of the item; its fields are never written again.
UpdateItem(isActive, requiresApproval) ==
  /\ item # Nil
  /\ item' = [item EXCEPT !.isActive = isActive, !.requiresApproval = requiresApproval]
  /\ UNCHANGED req

\* The item is read once; a requester may not take one that is not active, the
\* staff may.
ResolveCatalogForTicketCreation(payload, isRequester) ==
  /\ req.pc = "idle" /\ item # Nil
  /\ item.isActive \/ ~isRequester
  /\ Len(payload) = Len(item.fields)
  /\ req' = [pc |-> "fields", form |-> item.fields, data |-> payload, next |-> 1,
             requiresApproval |-> item.requiresApproval]
  /\ UNCHANGED item

ValidateCatalogPayload ==
  LET data == ValidateField(req.form, req.next, req.data) IN
  /\ req.pc = "fields"
  /\ req' = IF data = Nil THEN Idle
            ELSE [req EXCEPT !.data = data, !.next = @ + 1,
                             !.pc = IF req.next = Len(req.form) THEN "create" ELSE "fields"]
  /\ UNCHANGED item

\* create stores the payload; the ticket is OPEN or waits for an approval.
Create == req.pc = "create" /\ req' = Idle /\ UNCHANGED item

Next ==
  \/ \E form \in Forms, requiresApproval \in BOOLEAN : CreateItem(form, requiresApproval)
  \/ \E isActive, requiresApproval \in BOOLEAN : UpdateItem(isActive, requiresApproval)
  \/ \E payload \in Payloads, isRequester \in BOOLEAN :
       ResolveCatalogForTicketCreation(payload, isRequester)
  \/ ValidateCatalogPayload \/ Create

Spec == Init /\ [][Next]_vars

-----------------------------------------------------------------------------
\* The request keeps to its type.
TypeOK ==
  /\ req.pc \in {"idle", "fields", "create"}
  /\ req.requiresApproval \in BOOLEAN
  /\ \A i \in DOMAIN req.data : req.data[i] = Nil \/ req.data[i] \in Value

\* Every field is shown by one before it, if it is shown by any.
Forward(form) == \A i \in DOMAIN form : form[i].showWhen # Nil => form[i].showWhen < i

\* The fields that a reader of the stored payload is shown are in order: what is
\* required is there, and what is there is the normal form of its type. The
\* reader judges by the whole payload, the validation went field by field; a form
\* whose fields are shown by later ones may be stored with a field that is shown,
\* required and empty, or shown and never looked at.
StoredIsValid ==
  req.pc = "create" /\ Forward(req.form) =>
    \A i \in DOMAIN req.form : IsFieldVisible(req.form[i], req.data) =>
      /\ req.form[i].required => ~Empty(req.data[i])
      /\ Empty(req.data[i]) \/ ValidateFieldValue(req.form[i].type, req.data[i]) = req.data[i]
=============================================================================
