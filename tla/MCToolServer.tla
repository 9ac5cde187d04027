---------------------------- MODULE MCToolServer ----------------------------
(* An instance of ToolServer for TLC. *)
EXTENDS ToolServer, TLC

MCVersion == "old" :> "3.0" @@ "new" :> "3.1" @@ "truncated" :> "none"

MCKind == "bearer" :> "bearer" @@ "client" :> "cached" @@ "partner" :> "cached"
            @@ "cookie" :> "cookie" @@ "sso" :> "login" @@ "other" :> "apiKey"

MCPlace == [s \in DOMAIN MCKind |->
              CASE s = "cookie" -> "Cookie" [] s = "other" -> "key" [] OTHER -> "Authorization"]

MCAuthOf ==
  "old" :> ("t" :> <<<<"other">>, <<"client", "cookie">>>>
            @@ "u" :> <<<<"bearer">>, <<"client">>>>)
  @@ "new" :> ("t" :> <<<<"client", "partner">>>>
               @@ "v" :> <<<<"sso", "cookie">>, <<>>>>
               @@ "w" :> <<<<"other">>>>)
=============================================================================
