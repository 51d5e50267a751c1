----------------------------- MODULE MarketData -----------------------------
(***************************************************************************)
(* market_adapter.go: what a raw message of an exchange is taken for.      *)
(*                                                                         *)
(* A raw message carries an envelope (type, format, symbol, receipt time)  *)
(* and data: none, garbled, or JSON.  JSON data is a function from the     *)
(* names of its fields to their values; encoding/json gives a field that   *)
(* is absent its zero value, and ignores fields it does not know.  A       *)
(* parser returns the set of the message it made: empty when it returns an *)
(* error.                                                                  *)
(***************************************************************************)
EXTENDS CoreBook, Sequences

RawType == {"increment", "trade", "snapshot", "heartbeat"}

Format == {"JSON", "binary", "FIX"}

\* What the bytes are: none at all, some that json.Unmarshal refuses, or JSON.
Content == {"none", "garbled", "JSON"}

\* The fields of JSON data, with the zero value of those that are absent.
Field(data, name, zero) == IF name \in DOMAIN data THEN data[name] ELSE zero

\* The first checks of every parser; no format but JSON is implemented.
Readable(raw, type) ==
  /\ raw.type = type
  /\ raw.format = "JSON"
  /\ raw.content = "JSON"

IncrementType == {"insert", "delete", "modify"}

\* Faulty: data without a type is taken for OrderInsert, its zero value, and
\* data without a side for SideBuy.
ParseOrderIncrementLenient(raw) ==
  IF Readable(raw, "increment")
    THEN {[type |-> Field(raw.data, "type", "insert"), order |-> Field(raw.data, "order_id", 0),
           price |-> Field(raw.data, "price", 0), qty |-> Field(raw.data, "quantity", 0),
           side |-> Field(raw.data, "side", "buy")]}
    ELSE {}

\* The type and the side must be known ones, the side also for a deletion and
\* a modification, which have no use for it (types.go:59).
ParseOrderIncrement(raw) ==
  IF /\ Readable(raw, "increment")
     /\ Field(raw.data, "type", "") \in IncrementType
     /\ Field(raw.data, "side", "") \in Side
    THEN {[type |-> raw.data["type"], order |-> Field(raw.data, "order_id", 0),
           price |-> Field(raw.data, "price", 0), qty |-> Field(raw.data, "quantity", 0),
           side |-> raw.data["side"]]}
    ELSE {}

\* Any JSON object is a trade; its price, which nothing looks at, is left out.
ParseTrade(raw) ==
  IF Readable(raw, "trade")
    THEN {[buy |-> Field(raw.data, "buy_order_id", 0),
           sell |-> Field(raw.data, "sell_order_id", 0),
           qty |-> Field(raw.data, "quantity", 0)]}
    ELSE {}

\* Any JSON object is a snapshot.
ParseSnapshot(raw) ==
  IF Readable(raw, "snapshot")
    THEN {[symbol |-> Field(raw.data, "symbol_id", 0),
           bids |-> Field(raw.data, "bids", <<>>),
           asks |-> Field(raw.data, "asks", <<>>)]}
    ELSE {}

\* The test a client may make before it parses.
ValidateRawData(raw) == raw.content # "none" /\ raw.symbol # 0 /\ raw.timestamped
=============================================================================
