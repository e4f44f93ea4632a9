----------------------------- MODULE MCDocuments -----------------------------
(***************************************************************************)
(* SchemaCheck over every schema of at most two keyword groups, schemas    *)
(* that explain a oneOf, and schemas that do not compile, each against the *)
(* same documents.                                                         *)
(***************************************************************************)
EXTENDS SchemaCheck

Ordered ==
  <<"", "$comment", "$defs", "$ref", "(", "0", "1", "2", "^[ab]", "^b", "a", "a.b", "a[0]", "additionalProperties", "allOf", "anyOf",
    "b", "c", "const", "else", "enum", "if", "items", "k", "maxItems", "maximum", "minItems", "minLength",
    "minProperties", "minimum", "node", "not", "oneOf", "pattern", "patternProperties", "properties",
    "propertyNames", "required", "s", "then", "type", "unheard", "uniqueItems", "x-note">>
AnnotationKeywords == {"$comment", "$defs", "x-note"}
BadPatterns == {"("}
PatternsMatch == ("^[ab]" :> {"a", "b", "a.b", "a[0]"}) @@ ("^b" :> {"b"}) @@ ("^x" :> {"x", "xx"})
(* What the names and strings of a document spell, and every other one as   *)
(* a single character.                                                     *)
Characters ==
  ("" :> << >>) @@ ("xx" :> <<"x", "x">>) @@ ("a.b" :> <<"a", ".", "b">>) @@ ("a[0]" :> <<"a", "[", "0", "]">>)
  @@ [text \in Range(Ordered) \cup {"x"} |-> <<text>>]
To(file, pointer) == [file |-> file, pointer |-> pointer]
Targets ==
  ("#" :> To(None, << >>)) @@ ("#/$defs/s" :> To(None, <<"$defs", "s">>)) @@
  ("#/$defs/node" :> To(None, <<"$defs", "node">>)) @@ ("#/$defs/c" :> To(None, <<"$defs", "c">>)) @@
  ("other.json" :> To("other.json", << >>)) @@ ("none.json" :> To("none.json", << >>)) @@
  ("other.json#/$defs/s" :> To("other.json", <<"$defs", "s">>))

One == Num(2, "1")
Schema(fields) == Obj(fields)
Only(keyword, v) == keyword :> v
Typed(name) == Obj(Only("type", Str(name)))
Ref(to) == Obj(Only("$ref", Str(to)))
Strings(texts) == Arr([i \in DOMAIN texts |-> Str(texts[i])])
Requires(names) == Only("required", Strings(names))
Properties(members) == Only("properties", Obj(members))

Definitions ==
  Only("$defs", Obj(("s" :> Obj(Only("type", Str("string")) @@ Only("minLength", One)))
                 @@ ("node" :> Obj(Properties("a" :> Ref("#/$defs/node")) @@ Only("minProperties", One)))))

(* Keyword groups a schema may hold, and those that do not compile. *)
Groups ==
  <<Only("type", Str("object")), Only("type", Strings(<<"string", "null">>)), Only("type", Str("integer")),
    Requires(<<"a">>), Only("minProperties", Num(4, "2")), Only("propertyNames", Obj(Only("pattern", Str("^[ab]")))),
    Properties(("a" :> Typed("string")) @@ ("b" :> Bool(TRUE))),
    Only("patternProperties", Obj(("^[ab]" :> Ref("#/$defs/s")) @@ ("^b" :> Bool(FALSE)))),
    Only("additionalProperties", Bool(FALSE)), Only("additionalProperties", Ref("#/$defs/s")),
    Only("items", Typed("string")) @@ Only("minItems", One), Only("maxItems", One), Only("uniqueItems", Bool(TRUE)),
    Only("enum", Arr(<<Str("x"), One, Arr(<< >>)>>)), Only("const", Obj("a" :> Str("x"))),
    Only("pattern", Str("^x")) @@ Only("minLength", Num(4, "2")),
    Only("minimum", One), Only("maximum", One),
    Only("allOf", Arr(<<Obj(Requires(<<"b">>)), Ref("#/$defs/node")>>)),
    Only("anyOf", Arr(<<Typed("number"), Obj(Requires(<<"a">>))>>)),
    Only("oneOf", Arr(<<Typed("number"), Obj(Requires(<<"a">>)), Obj(Requires(<<"b">>))>>)),
    Only("not", Obj(Requires(<<"b">>))),
    Only("if", Obj(Requires(<<"a">>))) @@ Only("then", Obj(Requires(<<"b">>))) @@ Only("else", Typed("string")),
    Only("$ref", Str("other.json")), Only("$ref", Str("#/$defs/node")), Only("x-note", Str("x"))>>
Broken ==
  <<Only("unheard", One), Only("type", One), Only("required", Arr(<<One>>)), Only("enum", Str("x")),
    Only("minItems", Num(3, "1.5")), Only("maximum", Str("x")), Only("pattern", Str("(")), Only("not", Str("x")),
    Only("properties", Arr(<< >>)), Only("anyOf", Arr(<< >>)), Only("$ref", One), Only("$ref", Str("none.json")),
    Only("$ref", Str("#/$defs/c")), Only("patternProperties", Obj("^b" :> Bool(TRUE) @@ "(" :> Bool(TRUE)))>>

(* Alternatives a reader chose between by type, by members and by neither. *)
Circle == Obj(Properties(("k" :> Obj(Only("const", Str("a")))) @@ ("a" :> Typed("string"))) @@ Requires(<<"k", "a">>))
Square == Obj(Only("allOf", Arr(<<Obj(Properties(("k" :> Obj(Only("const", Str("b")))) @@ ("b" :> Typed("integer")))),
                                  Obj(Requires(<<"k", "b">>))>>)))
Shapes ==
  {Only("oneOf", Arr(<<Circle, Square>>)), Only("oneOf", Arr(<<Circle, Typed("string"), Square>>)),
   Only("oneOf", Arr(<<Ref("#/$defs/s"), Typed("array")>>)), Only("oneOf", Arr(<<Circle, Obj(Only("oneOf", Arr(<<Circle, Square>>)))>>)),
   Only("oneOf", Arr(<<Square, Circle>>)) @@ Only("minProperties", One)}
Nested == {Properties("a" :> Obj(shape)) : shape \in Shapes} \cup {Only("items", Obj(shape)) : shape \in Shapes}

Roots ==
  {Groups[pair[1]] @@ Groups[pair[2]] : pair \in {p \in (DOMAIN Groups) \X (DOMAIN Groups) : p[1] <= p[2]}}
  \cup {Groups[1] @@ bad : bad \in Range(Broken)} \cup {Properties(("a" :> Obj(bad)) @@ ("b" :> Bool(TRUE))) : bad \in Range(Broken)}
  \cup Shapes \cup Nested
Systems ==
  {("root.json" :> Obj(root @@ Definitions)) @@
   ("other.json" :> Obj(Properties("c" :> Ref("other.json#/$defs/s")) @@ Definitions)) : root \in Roots}
  \cup {"root.json" :> Bool(b) : b \in BOOLEAN} \cup {"root.json" :> One}

(* Texts of documents: an object writes its members in order. *)
Written(members) == [kind |-> "object", written |-> members]
M(name, text) == <<name, text>>
Document(text) == [text |-> text, trailing |-> FALSE]
X == Str("x")
Documents ==
  [i \in 1 .. 27 |->
    LET given == <<Null, Bool(TRUE), X, Str("xx"), Str(""), One, Num(3, "1.5"), Arr(<< >>), Arr(<<X, X>>), Arr(<<X, One>>),
                   Written(<< >>), Written(<<M("a", X)>>), Written(<<M("b", One), M("a", X)>>), Written(<<M("b", X)>>),
                   Written(<<M("c", One), M("a", Written(<<M("a", X)>>))>>), Written(<<M("0", Arr(<<X, Written(<<M("", X)>>)>>)), M("", X)>>),
                   Written(<<M("k", Str("a")), M("a", One)>>), Written(<<M("k", Str("b")), M("b", X)>>),
                   Written(<<M("a", Written(<<M("k", Str("b")), M("b", X)>>))>>), Arr(<<Written(<<M("k", Str("a")), M("c", X)>>)>>),
                   Written(<<M("a", X), M("b", Written(<<M("a", X), M("a", One)>>)), M("a", One)>>),
                   Written(<<M("a", X), M("b", X), M("a", Arr(<<Written(<<M("b", X), M("b", X)>>)>>))>>),
                   Arr(<<X, Arr(<<Written(<<M("c", X), M("c", X)>>)>>)>>), Written(<<M("", Written(<<M("b", X)>>)), M("b", X)>>),
                   Written(<<M("a", Written(<<M("b", X)>>)), M("a.b", X)>>), Written(<<M("a", Arr(<<X>>)), M("a[0]", X)>>),
                   Written(<<M("", Arr(<<X>>)), M("0", Written(<<M("b", X)>>))>>)>>
    IN  Document(given[i])]
  @@ (28 :> [text |-> X, trailing |-> TRUE])
=============================================================================
