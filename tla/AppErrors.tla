------------------------------ MODULE AppErrors ------------------------------
(***************************************************************************)
(* What can go wrong, as the server names it and as the clients understand *)
(* it: the codes and what follows from a code, the envelope a refusal      *)
(* travels in, the forms in which it reaches a page, and the exception     *)
(* every page makes of it.  A message counts for the one thing the clients *)
(* look for in it.                                                         *)
(***************************************************************************)
EXTENDS Naturals, FiniteSets

(* The codes of each category.                                             *)
CodesOf ==
    [ auth       |-> {"AuthWrongCredentials", "AuthUserNotFound", "AuthUserDisabled",
                      "AuthUserDeleted", "AuthMissingCredentials", "AuthTokenInvalid",
                      "AuthTokenExpired", "AuthTokenCreationFailed"},
      user       |-> {"UserUsernameExists", "UserWrongOldPassword", "UserInvalidPassword"},
      sync       |-> {"SyncClientVersionMismatch", "SyncProtocolMismatch", "SyncSessionInvalid"},
      permission |-> {"ResourceForbidden"},
      not_found  |-> {"ResourceNotFound"},
      validation |-> {"RequestValidationFailed"},
      request    |-> {"RequestBadRequest"},
      network    |-> {"NetworkRequestFailed"},
      timeout    |-> {"RequestTimeout"},
      internal   |-> {"InternalServerError", "InternalDbError", "InternalIoError"},
      client     |-> {"TauriInvokeFailed", "ClientUnexpectedError"} ]

Codes == UNION {CodesOf[k] : k \in DOMAIN CodesOf}

CategoryFromErrorCode(c) == CHOOSE k \in DOMAIN CodesOf : c \in CodesOf[k]

IsRetryableErrorCode(c) == c \in CodesOf.internal \cup CodesOf.network \cup CodesOf.timeout

AuthErrorCodes ==
    {"AuthTokenInvalid", "AuthTokenExpired", "AuthUserNotFound", "AuthUserDeleted", "AuthUserDisabled"}

-----------------------------------------------------------------------------
(* The server                                                              *)

Refused(c, status, says) == [code |-> c, status |-> status, says |-> says]

(* Errors that deserve a name of their own below; the others differ from   *)
(* these in wording and category only.                                     *)
WrongCredentials == Refused("AuthWrongCredentials", 401, "other")
UserNotFound     == Refused("AuthUserNotFound", 401, "not found")
UserDisabled     == Refused("AuthUserDisabled", 403, "disabled")
UserDeleted      == Refused("AuthUserDeleted", 403, "deleted")
InvalidToken     == Refused("AuthTokenInvalid", 400, "other")
TokenExpired     == Refused("AuthTokenExpired", 401, "expired")
VersionMismatch  == Refused("SyncClientVersionMismatch", 426, "other")
ProtocolMismatch == Refused("SyncProtocolMismatch", 426, "other")
BadRequest       == Refused("RequestBadRequest", 400, "other")
Sqlx             == Refused("InternalDbError", 400, "other")

Refusals ==
    {WrongCredentials, UserNotFound, UserDisabled, UserDeleted, InvalidToken, TokenExpired,
     VersionMismatch, ProtocolMismatch, BadRequest, Sqlx}

(* ApiResponse::failure: the envelope and the error inside say the same.   *)
Failure(r) ==
    [code |-> r.code, category |-> CategoryFromErrorCode(r.code),
     retryable |-> IsRetryableErrorCode(r.code), status |-> r.status, says |-> r.says]

-----------------------------------------------------------------------------
(* The clients                                                             *)

(* A refusal arrives as the body of an answer, as the text of one, as that *)
(* text after a few words of the command's own, or with a text of which no *)
(* sense can be made, the page of a proxy.                                 *)
Forms == {"body", "text", "prefixed", "garbled"}

NoPayload == [code |-> "none", category |-> "none", retryable |-> FALSE, status |-> 0, says |-> "other"]

ExtractPayload(r, form) == IF form = "garbled" THEN NoPayload ELSE Failure(r)

(* What a code alone makes of an exception.                                *)
CreateAppException(c, says) ==
    [code |-> c, category |-> CategoryFromErrorCode(c), retryable |-> IsRetryableErrorCode(c),
     status |-> 0, says |-> says]

NormalizeAppException(r, form, fallback) ==
    LET p == ExtractPayload(r, form)
    IN IF p = NoPayload THEN [CreateAppException(fallback, "other") EXCEPT !.status = r.status] ELSE p

(* callTauri: a command rejects with a text.                               *)
CallTauri(r, form) ==
    [NormalizeAppException(r, form, "TauriInvokeFailed") EXCEPT !.status = IF form = "garbled" THEN 0 ELSE @]

(* apiClient.  The body is read as JSON first; reading it again as a text  *)
(* fails like a network does.                                              *)
ApiRefused(r, form) ==
    IF form = "garbled" THEN CreateAppException("NetworkRequestFailed", "other")
    ELSE NormalizeAppException(r, form, "InternalServerError")

IsRefreshableAuthError(r) ==
    r.status = 401 \/ (r.status = 400 /\ r.code \in {"AuthTokenExpired", "AuthTokenInvalid"})

(* The page of the server; what is not an envelope is a bad request.       *)
ThrowApiError(r, form) == NormalizeAppException(r, form, "RequestBadRequest")

(* apiClient names what was thrown.                                        *)
Thrown(what) ==
    CreateAppException([aborted |-> "RequestTimeout", typeError |-> "NetworkRequestFailed",
                        anything |-> "ClientUnexpectedError"][what], "other")

IsAuthAppError(e) == e.code \in AuthErrorCodes

-----------------------------------------------------------------------------
(* Properties                                                              *)

(* Whichever way a refusal takes to whichever page, if any sense can be    *)
(* made of it the exception has the server's code and everything that      *)
(* follows from the code; otherwise it has no code of the server, and so   *)
(* ends no session.                                                        *)
RefusalsKeepTheirCode ==
    \A r \in Refusals : \A f \in Forms :
        \A e \in {CallTauri(r, f), ThrowApiError(r, f), ApiRefused(r, f)} :
            IF f = "garbled" THEN ~IsAuthAppError(e)
            ELSE /\ e = Failure(r)
                 /\ e.category = CategoryFromErrorCode(e.code)

(* What is worth trying again is what the server, the network or the clock *)
(* spoiled, not what was refused; a refused token asks for a refresh and   *)
(* is not retried as it is.                                                *)
RetriesCanHelp ==
    /\ \A w \in {"aborted", "typeError"} : Thrown(w).retryable
    /\ \A r \in Refusals : ~(IsRefreshableAuthError(r) /\ Failure(r).retryable)
    /\ IsRefreshableAuthError(TokenExpired) /\ IsRefreshableAuthError(InvalidToken)
    /\ \A k \in {"auth", "user", "permission", "validation"} : \A c \in CodesOf[k] : ~IsRetryableErrorCode(c)
=============================================================================
