--------------------------- MODULE JsonSchemaMeaning ---------------------------
(***************************************************************************)
(* What a JSON Schema document says (draft 2020-12), for the keywords that *)
(* json_schema.rs writes.  A document is a function from its keywords; the *)
(* schema true is the document without keywords, and false is {"not": {}}. *)
(* A JSON value is a kind and what it holds.  Numbers are twice what they  *)
(* stand for, so that halves can be told from whole numbers.  A pattern is *)
(* the name of a set of texts.                                             *)
(***************************************************************************)
EXTENDS Integers, Sequences, FiniteSets, TLC

CONSTANT Patterns      \* the texts that match a pattern, by its source

JsonNull      == <<"null", << >>>>
JsonBool(b)   == <<"boolean", b>>
JsonNumber(h) == <<"number", h>>
JsonText(t)   == <<"string", t>>
JsonArray(s)  == <<"array", s>>
JsonObject(f) == <<"object", f>>

Anything == << >>
Never    == "not" :> Anything

OfType(type, json) ==
  json[1] = type \/ (type = "integer" /\ json[1] = "number" /\ json[2] % 2 = 0)

Between(doc, least, most, size) ==
  /\ least \in DOMAIN doc => doc[least] <= size
  /\ most \in DOMAIN doc => size <= doc[most]

SatNumber(doc, h) ==
  /\ Between(doc, "minimum", "maximum", h)
  /\ "exclusiveMinimum" \in DOMAIN doc => doc["exclusiveMinimum"] < h
  /\ "exclusiveMaximum" \in DOMAIN doc => h < doc["exclusiveMaximum"]
  /\ "multipleOf" \in DOMAIN doc => h % doc["multipleOf"] = 0

SatText(doc, text) ==
  /\ Between(doc, "minLength", "maxLength", Len(text))
  /\ "pattern" \in DOMAIN doc => text \in Patterns[doc["pattern"]]

(* json satisfies doc; defs are the definitions references are to.         *)
RECURSIVE Sat(_, _, _)

SatArray(doc, defs, items) ==
  LET prefix == IF "prefixItems" \in DOMAIN doc THEN doc["prefixItems"] ELSE << >>
  IN  /\ Between(doc, "minItems", "maxItems", Len(items))
      /\ \A i \in DOMAIN items \cap DOMAIN prefix : Sat(prefix[i], defs, items[i])
      /\ "items" \in DOMAIN doc =>
           \A i \in DOMAIN items \ DOMAIN prefix : Sat(doc["items"], defs, items[i])
      /\ "uniqueItems" \in DOMAIN doc /\ doc["uniqueItems"] =>
           \A i, j \in DOMAIN items : items[i] = items[j] => i = j

SatObject(doc, defs, members) ==
  LET known == IF "properties" \in DOMAIN doc THEN doc["properties"] ELSE << >>
      names == DOMAIN members
  IN  /\ Between(doc, "minProperties", "maxProperties", Cardinality(names))
      /\ "required" \in DOMAIN doc => doc["required"] \subseteq names
      /\ \A n \in names \cap DOMAIN known : Sat(known[n], defs, members[n])
      /\ "additionalProperties" \in DOMAIN doc =>
           \A n \in names \ DOMAIN known : Sat(doc["additionalProperties"], defs, members[n])
      /\ "propertyNames" \in DOMAIN doc =>
           \A n \in names : Sat(doc["propertyNames"], defs, JsonText(n))

Sat(doc, defs, json) ==
  LET has(keyword) == keyword \in DOMAIN doc
      choices(keyword) == {i \in DOMAIN doc[keyword] : Sat(doc[keyword][i], defs, json)}
  IN  /\ has("$ref") => Sat(defs[doc["$ref"]], defs, json)
      /\ has("not") => ~Sat(doc["not"], defs, json)
      /\ has("type") => OfType(doc["type"], json)
      /\ has("const") => json = doc["const"]
      /\ has("enum") => json \in doc["enum"]
      /\ has("anyOf") => choices("anyOf") # {}
      /\ has("oneOf") => Cardinality(choices("oneOf")) = 1
      /\ CASE json[1] = "number" -> SatNumber(doc, json[2])
           [] json[1] = "string" -> SatText(doc, json[2])
           [] json[1] = "array"  -> SatArray(doc, defs, json[2])
           [] json[1] = "object" -> SatObject(doc, defs, json[2])
           [] OTHER              -> TRUE

(* The definitions a document refers to by itself.                         *)
RECURSIVE RefersTo(_)
RefersTo(doc) ==
  LET has(keyword) == keyword \in DOMAIN doc
      within(keyword) == IF has(keyword) THEN RefersTo(doc[keyword]) ELSE {}
      among(keyword) == IF has(keyword)
                        THEN UNION {RefersTo(doc[keyword][k]) : k \in DOMAIN doc[keyword]} ELSE {}
  IN  (IF has("$ref") THEN {doc["$ref"]} ELSE {})
        \cup within("not") \cup within("items") \cup within("contentSchema")
        \cup within("additionalProperties") \cup within("propertyNames")
        \cup among("anyOf") \cup among("oneOf") \cup among("prefixItems") \cup among("properties")
=============================================================================
