------------------------------ MODULE JsObject ------------------------------
(***************************************************************************)
(* A plain JavaScript object used as a dictionary, as both programs of the *)
(* repository use `{}`: own string keys kept in insertion order (the order *)
(* Object.keys / Object.entries / JSON.stringify report, since no key of   *)
(* these dictionaries is an array index), and a value per own key.         *)
(*                                                                         *)
(* A lookup `o[k]` of a key that is not an own key falls through to        *)
(* Object.prototype: for the names in ProtoKeys it yields an inherited     *)
(* function (or Object.prototype itself for "__proto__"), which is truthy. *)
(***************************************************************************)
EXTENDS Sequences, SequencesExt

\* The empty object literal {}.
EmptyObject == [keys |-> <<>>, val |-> <<>>]

\* Own keys of o, as a set.
OwnKeys(o) == DOMAIN o.val

\* `k in o` restricted to own keys (what the builder's `if (!o[k])` sees
\* when k is not a prototype name).
HasOwn(o, k) == k \in DOMAIN o.val

\* `o[k] = v`: a new key is appended to the key order, an existing key keeps
\* its position and has its value replaced.
Put(o, k, v) ==
    [keys |-> IF HasOwn(o, k) THEN o.keys ELSE Append(o.keys, k),
     val  |-> [x \in DOMAIN o.val \cup {k} |-> IF x = k THEN v ELSE o.val[x]]]

\* `o[k]` for an own key k.
Get(o, k) == o.val[k]

\* `o[k] || d` for a dictionary of arrays: the own value, or d when absent.
GetOr(o, k, d) == IF HasOwn(o, k) THEN o.val[k] ELSE d

\* Names that every plain object inherits from Object.prototype.
ProtoKeys == {"constructor", "toString", "valueOf", "hasOwnProperty",
              "isPrototypeOf", "__proto__"}

\* Truthiness of the expression `o[k]`: an own value (the dictionaries of
\* this repository only hold non-empty objects and arrays, all truthy) or
\* an inherited member of Object.prototype.
Truthy(o, k) == HasOwn(o, k) \/ k \in ProtoKeys
=============================================================================
