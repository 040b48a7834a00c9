------------------------------ MODULE MCFetch ------------------------------
(* Messages in the layouts that matter to inject(), and the data that other *)
(* programs insert: a row to fetch, one that is already done with, and      *)
(* two with a value of a type unknown to insert(), one of them too long.    *)
EXTENDS Fetch

Kinds(s) == [i \in DOMAIN s |-> Token(s[i])]

Layouts == [
  bare       |-> << Kinds(<<"open", "text", "close">>) >>,
  oneLine    |-> << Kinds(<<"tag", "open", "text", "close", "text">>) >>,
  indented   |-> << Kinds(<<"tag">>), Kinds(<<"blank", "open", "text", "close">>) >>,
  idOnOwn    |-> << Kinds(<<"open">>), Kinds(<<"text">>), Kinds(<<"close">>) >>,
  attributes |-> << Kinds(<<"attrOpen", "text", "close", "tag">>) >>,
  twoOnLine  |-> << Kinds(<<"open", "text", "close", "open", "text", "close">>) >>,
  brokenTags |-> << Kinds(<<"head">>), Kinds(<<"openTail", "text", "head">>),
                    Kinds(<<"closeTail", "head">>), Kinds(<<"tail">>) >>,
  cutStart   |-> << Kinds(<<"head">>), Kinds(<<"cutTail", "text", "close", "tag">>) >>,
  none       |-> << Kinds(<<"tag", "text">>) >>]

Value(type, is) == [type |-> type, is |-> is]

InsertsAny ==
  {Row("k2", "bare"), [Row("k2", "none") EXCEPT ![3].is = "1"],
   <<Value("Other", "k2"), Value("String", "none"), Value("String", "0")>>,
   <<Value("Other", "k2")>> \o Row("k2", "none")}
=============================================================================
