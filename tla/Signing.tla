------------------------------- MODULE Signing -------------------------------
(***************************************************************************)
(* AWS Signature Version 4: which requests the signature in the            *)
(* Authorization header speaks for.                                        *)
(*                                                                         *)
(* A digest is what it is computed of: two digests are equal when their    *)
(* inputs are.  A text is a number that stands for its characters, whether *)
(* it has characters to be percent-encoded, and how often it has been      *)
(* encoded; a header value also whether it has spare whitespace.           *)
(***************************************************************************)
EXTENDS Naturals, Arranged

TextOf(n, special) == [chars |-> n, special |-> special, coded |-> 0]

\* Every byte outside A-Z a-z 0-9 - _ . ~ becomes %XX, the % of an earlier %XX too.
aws_uri_encode(text) == IF text.special THEN [text EXCEPT !.coded = @ + 1] ELSE text

\* split_whitespace, joined by single spaces
normalize_header_value(value) == [value EXCEPT !.spare = FALSE]

--------------------------------------------------------------------------------
(* The Authorization header: a sequence of key-value pairs. *)

KeysOf(pairs) == {pairs[i][1] : i \in DOMAIN pairs}

\* A later pair replaces an earlier one of the same key.
LastOf(pairs, key) ==
  pairs[CHOOSE i \in DOMAIN pairs :
          pairs[i][1] = key /\ \A j \in DOMAIN pairs : pairs[j][1] = key => j <= i][2]

\* The parameters, or {} for an InvalidAuthorizationHeader.
extract_sigv4_params(authorization) ==
  IF /\ authorization.algorithm = "AWS4-HMAC-SHA256"
     /\ {"Credential", "SignedHeaders", "Signature"} \subseteq KeysOf(authorization.pairs)
     /\ LastOf(authorization.pairs, "Credential").terminator = "aws4_request"
     /\ LastOf(authorization.pairs, "SignedHeaders") # <<>>
    THEN {[scope |-> LastOf(authorization.pairs, "Credential"),
           signed_headers |-> LastOf(authorization.pairs, "SignedHeaders"),
           signature |-> LastOf(authorization.pairs, "Signature")]}
    ELSE {}

--------------------------------------------------------------------------------
(* The canonical request. *)

canonical_uri(path) == aws_uri_encode(path)

\* Mutant: the parameters keep the order of the request.
QueryAsSent(query) ==
  [i \in DOMAIN query |-> <<aws_uri_encode(query[i][1]), aws_uri_encode(query[i][2])>>]

\* The pairs, sorted by their encoded texts.
canonical_query_string(query) ==
  LET coded == [i \in DOMAIN query |-> <<aws_uri_encode(query[i][1]), aws_uri_encode(query[i][2])>>]
      I == DOMAIN query
  IN  Sorted(coded, {p \in I \X I :
                       LET x == coded[p[1]]
                           y == coded[p[2]]
                       IN  \/ x[1].chars < y[1].chars
                           \/ x[1].chars = y[1].chars /\ x[2].chars < y[2].chars})

\* Lowercase, sorted, without duplicates: a set of names.
canonicalize_signed_headers(names) == {names[i] : i \in DOMAIN names}

\* The signed headers' values, or {} for a MissingSignedHeader.
extract_signed_headers(headers, names) ==
  IF names \subseteq DOMAIN headers
    THEN {[h \in names |-> normalize_header_value(headers[h])]}
    ELSE {}

create_canonical_request(request, names) ==
  {[method |-> request.method, uri |-> canonical_uri(request.path),
    query |-> canonical_query_string(request.query), headers |-> values,
    body |-> request.body] :
     values \in extract_signed_headers(request.headers, names)}

derive_signing_key(secret, scope) == <<secret, scope.date, scope.region, scope.service>>

\* The signature the server computes, or {} when it cannot: x-amz-date must be there and
\* begin with the date of the credential's scope.
hash_request(request, params, secret) ==
  IF "x-amz-date" \in DOMAIN request.headers
       /\ request.headers["x-amz-date"].chars = params.scope.date
    THEN {<<derive_signing_key(secret, params.scope), canonical>> :
            canonical \in create_canonical_request(
                            request, canonicalize_signed_headers(params.signed_headers))}
    ELSE {}

\* authenticate_request: the scope's key must exist and the signatures agree.
Authentic(request, secrets) ==
  \E params \in extract_sigv4_params(request.authorization) :
    /\ params.scope.key \in DOMAIN secrets
    /\ params.signature \in hash_request(request, params, secrets[params.scope.key])

--------------------------------------------------------------------------------
(* The client, by the rules of AWS: texts are encoded once on the wire; the canonical  *)
(* request has the parameters as they are on the wire, and the path encoded once more. *)

OnTheWire(request, authorization) ==
  [method |-> request.method, path |-> aws_uri_encode(request.path),
   query |-> [i \in DOMAIN request.query |->
                <<aws_uri_encode(request.query[i][1]), aws_uri_encode(request.query[i][2])>>],
   headers |-> request.headers, body |-> request.body, authorization |-> authorization]

ClientSignature(request, names, scope, secret) ==
  <<derive_signing_key(secret, scope),
    [method |-> request.method,
     uri |-> aws_uri_encode(aws_uri_encode(request.path)),
     query |-> canonical_query_string(request.query),
     headers |-> [h \in {names[i] : i \in DOMAIN names} |->
                    normalize_header_value(request.headers[h])],
     body |-> request.body]>>

--------------------------------------------------------------------------------
(* Properties. *)

\* The same parameters, in whatever order.
SameParameters(query, other) ==
  \E f \in [DOMAIN query -> DOMAIN other] :
    /\ \A i, j \in DOMAIN query : f[i] = f[j] => i = j
    /\ \A k \in DOMAIN other : \E i \in DOMAIN query : f[i] = k
    /\ \A i \in DOMAIN query : query[i] = other[f[i]]

\* What the signature speaks for: method, path, parameters, body, and the signed headers
\* up to whitespace.
SameRequest(r, s, names) ==
  /\ r.method = s.method /\ r.path = s.path /\ r.body = s.body
  /\ SameParameters(r.query, s.query)
  /\ \A i \in DOMAIN names :
       /\ names[i] \in DOMAIN s.headers
       /\ normalize_header_value(r.headers[names[i]]) = normalize_header_value(s.headers[names[i]])

NeedsEncoding(query) == \E i \in DOMAIN query : query[i][1].special \/ query[i][2].special

\* A request s that carries the Authorization header a client made for r is accepted
\* exactly when it is that request and none of its parameters needs percent-encoding.
\* canonical_query_string encodes the parameters as they are on the wire once more,
\* without decoding them first: a rightly signed request with such a parameter is refused.
SignatureSpeaksForRequest(r, s, names, scope, secrets) ==
  LET header == [algorithm |-> "AWS4-HMAC-SHA256",
                 pairs |-> << <<"Credential", scope>>, <<"SignedHeaders", names>>,
                              <<"Signature", ClientSignature(r, names, scope, secrets[scope.key])>> >>]
  IN  Authentic(OnTheWire(s, header), secrets) <=> SameRequest(r, s, names) /\ ~NeedsEncoding(r.query)
================================================================================
