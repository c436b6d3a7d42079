------------------------------- MODULE Errors -------------------------------
(***************************************************************************)
(* How a service answers an exception: the exceptions of the code and of   *)
(* the libraries it uses, with their base classes and error codes, the     *)
(* handlers register_exception_handlers installs, and the HTTP status that *)
(* results.  Pure operators, without state.                                *)
(***************************************************************************)

\* The base class of each exception class.
Base ==
    [AuthenticationError |-> "OpsCraftException", InvalidCredentialsError |-> "AuthenticationError",
     TokenExpiredError |-> "AuthenticationError", InvalidTokenError |-> "AuthenticationError",
     AuthorizationError |-> "OpsCraftException",
     ResourceNotFoundError |-> "OpsCraftException",
     ResourceAlreadyExistsError |-> "OpsCraftException",
     ResourceConflictError |-> "OpsCraftException",
     ValidationError |-> "OpsCraftException", InvalidInputError |-> "ValidationError",
     ScriptValidationError |-> "ValidationError",
     ExecutionError |-> "OpsCraftException", ExecutionTimeoutError |-> "ExecutionError",
     ExecutionCancelledError |-> "ExecutionError",
     ServiceUnavailableError |-> "OpsCraftException",
     ServiceTimeoutError |-> "ServiceUnavailableError",
     RateLimitExceededError |-> "OpsCraftException",
     SecretAccessError |-> "OpsCraftException", EncryptionError |-> "OpsCraftException",
     OpsCraftException |-> "Exception",
     RequestValidationError |-> "Exception", PydanticValidationError |-> "Exception",
     SQLAlchemyError |-> "Exception", IntegrityError |-> "SQLAlchemyError",
     OperationalError |-> "SQLAlchemyError",
     RedisError |-> "Exception",
     HTTPError |-> "Exception", TimeoutException |-> "HTTPError",
     KafkaError |-> "Exception", RuntimeError |-> "Exception"]

Classes == DOMAIN Base \cup {"Exception"}

\* The classes of an exception, its own and those it inherits from.
Mro[c \in Classes] == {c} \cup (IF c = "Exception" THEN {} ELSE Mro[Base[c]])

\* error_code as the constructors leave it: a class without one of its own keeps
\* its base class's.
OwnCode ==
    [OpsCraftException |-> "OPSCRAFT_ERROR", AuthenticationError |-> "AUTH_FAILED",
     InvalidCredentialsError |-> "INVALID_CREDENTIALS", TokenExpiredError |-> "TOKEN_EXPIRED",
     InvalidTokenError |-> "INVALID_TOKEN", AuthorizationError |-> "AUTHORIZATION_FAILED",
     ResourceNotFoundError |-> "RESOURCE_NOT_FOUND",
     ResourceAlreadyExistsError |-> "RESOURCE_EXISTS",
     ResourceConflictError |-> "RESOURCE_CONFLICT", ValidationError |-> "VALIDATION_ERROR",
     ScriptValidationError |-> "SCRIPT_VALIDATION_ERROR", ExecutionError |-> "EXECUTION_ERROR",
     ExecutionTimeoutError |-> "EXECUTION_TIMEOUT",
     ExecutionCancelledError |-> "EXECUTION_CANCELLED",
     ServiceUnavailableError |-> "SERVICE_UNAVAILABLE", ServiceTimeoutError |-> "SERVICE_TIMEOUT",
     RateLimitExceededError |-> "RATE_LIMIT_EXCEEDED",
     SecretAccessError |-> "SECRET_ACCESS_ERROR", EncryptionError |-> "ENCRYPTION_ERROR"]

ErrorCode[c \in Classes] == IF c \in DOMAIN OwnCode THEN OwnCode[c] ELSE ErrorCode[Base[c]]

\* exception_to_http_status: the codes of its table, by status; 500 for others.
CodesOf ==
    [s400 |-> {"VALIDATION_ERROR", "SCRIPT_VALIDATION_ERROR"},
     s401 |-> {"AUTH_FAILED", "INVALID_CREDENTIALS", "TOKEN_EXPIRED", "INVALID_TOKEN"},
     s403 |-> {"AUTHORIZATION_FAILED", "SECRET_ACCESS_ERROR"},
     s404 |-> {"RESOURCE_NOT_FOUND"},
     s409 |-> {"RESOURCE_EXISTS", "RESOURCE_CONFLICT"},
     s429 |-> {"RATE_LIMIT_EXCEEDED"},
     s499 |-> {"EXECUTION_CANCELLED"},
     s503 |-> {"SERVICE_UNAVAILABLE"},
     s504 |-> {"EXECUTION_TIMEOUT", "SERVICE_TIMEOUT"}]

ExceptionToHttpStatus(code) ==
    IF \E s \in DOMAIN CodesOf : code \in CodesOf[s]
    THEN CHOOSE s \in DOMAIN CodesOf : code \in CodesOf[s]
    ELSE "s500"

\* The handlers registered; Starlette takes the nearest in the class's order.
Handled == {"OpsCraftException", "RequestValidationError", "PydanticValidationError",
            "SQLAlchemyError", "RedisError", "HTTPError", "KafkaError", "Exception"}

HandlerOf[c \in Classes] == IF c \in Handled THEN c ELSE HandlerOf[Base[c]]

StatusOfAnyDatabaseError(c) ==
    IF HandlerOf[c] = "SQLAlchemyError" THEN "s409" ELSE "s500"

\* What the handlers answer.
Status(c) ==
    CASE HandlerOf[c] = "OpsCraftException" -> ExceptionToHttpStatus(ErrorCode[c])
      [] HandlerOf[c] \in {"RequestValidationError", "PydanticValidationError"} -> "s422"
      [] HandlerOf[c] = "SQLAlchemyError" -> IF "IntegrityError" \in Mro[c] THEN "s409" ELSE "s500"
      [] HandlerOf[c] \in {"RedisError", "KafkaError"} -> "s503"
      [] HandlerOf[c] = "HTTPError" -> IF "TimeoutException" \in Mro[c] THEN "s504" ELSE "s502"
      [] OTHER -> "s500"

ClientErrors == {"s400", "s401", "s403", "s404", "s409", "s422", "s429", "s499"}
=============================================================================
