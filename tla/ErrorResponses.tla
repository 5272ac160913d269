---------------------------- MODULE ErrorResponses ----------------------------
(***************************************************************************)
(* From an exception to the status of the response: the hierarchies of      *)
(* core/exceptions and core/domain/exceptions.py, the translation made by   *)
(* database_error_handler, and the handlers that features/main.py registers. *)
(* Messages, codes and contexts are left out.                               *)
(***************************************************************************)
EXTENDS Naturals, Sequences

\* External: the exceptions of asyncpg, SQLAlchemy, purgatory, slowapi, pydantic and Python, each
\* with the class it derives from.
DriverParent == [
  PostgresConnectionError |-> "Exception", ConnectionFailureError |-> "PostgresConnectionError",
  ConnectionDoesNotExistError |-> "PostgresConnectionError",
  TooManyConnectionsError |-> "Exception",
  OSError |-> "Exception", gaierror |-> "OSError", TimeoutError |-> "OSError",
  ImportError |-> "Exception", OpenedState |-> "Exception",
  SQLAlchemyTimeoutError |-> "Exception", StaleDataError |-> "Exception",
  PendingRollbackError |-> "Exception", DBAPIError |-> "Exception",
  OperationalError |-> "DBAPIError", InterfaceError |-> "DBAPIError", IntegrityError |-> "DBAPIError",
  HTTPException |-> "Exception", RateLimitExceeded |-> "HTTPException",
  ValueError |-> "Exception", RequestValidationError |-> "Exception",
  PydanticValidationError |-> "ValueError" ]

ServiceParent == [
  ServiceException |-> "HTTPException",
  RequestError |-> "ServiceException", AuthenticationFailedError |-> "ServiceException",
  PermissionDeniedError |-> "ServiceException", NotFoundError |-> "ServiceException",
  MethodNotAllowedError |-> "ServiceException", RequestTimeoutError |-> "ServiceException",
  ConflictError |-> "ServiceException", ValidationError |-> "ServiceException",
  RateLimitExceededError |-> "ServiceException", InternalServerError |-> "ServiceException",
  BadGatewayError |-> "ServiceException", ServiceUnavailableError |-> "ServiceException" ]

JwtParent == [
  JWTTokenError |-> "AuthenticationFailedError", JWTInvalidTokenError |-> "JWTTokenError",
  JWTExpiredSignatureError |-> "JWTTokenError", JWTMissingTokenError |-> "JWTTokenError" ]

DatabaseParent == [
  DatabaseError |-> "InternalServerError", DatabaseConnectionError |-> "InternalServerError",
  DatabaseTimeoutError |-> "RequestTimeoutError",
  DatabaseDisconnectionError |-> "ServiceUnavailableError",
  DatabaseInterfaceError |-> "InternalServerError",
  DatabaseOperationalError |-> "InternalServerError", DatabaseDBAPIError |-> "InternalServerError",
  DatabaseCircuitBreakerOpenError |-> "ServiceUnavailableError" ]

DomainParent == [
  DomainError |-> "Exception",
  DomainValidationError |-> "DomainError", EntityNotFoundError |-> "DomainError",
  DomainConflictError |-> "DomainError", DomainStateError |-> "DomainError",
  DomainAuthorizationError |-> "DomainError", DomainInvariantError |-> "DomainError",
  AggregateRootError |-> "DomainError" ]

\* The errors of the AI generation feature.
GenerationParent == [
  AiGenerationError |-> "DomainError", PromptValidationError |-> "DomainValidationError",
  TokenLimitExceededError |-> "AiGenerationError", GenerationFailedError |-> "AiGenerationError",
  QuotaExhaustedError |-> "AiGenerationError" ]

Classes == {"Exception"} \cup DOMAIN DriverParent \cup DOMAIN ServiceParent
             \cup DOMAIN JwtParent \cup DOMAIN DatabaseParent \cup DOMAIN DomainParent \cup DOMAIN GenerationParent

Parent(c) ==
  CASE c \in DOMAIN DriverParent -> DriverParent[c]
    [] c \in DOMAIN ServiceParent -> ServiceParent[c]
    [] c \in DOMAIN JwtParent -> JwtParent[c]
    [] c \in DOMAIN DatabaseParent -> DatabaseParent[c]
    [] c \in DOMAIN DomainParent -> DomainParent[c]
    [] c \in DOMAIN GenerationParent -> GenerationParent[c]

\* The classes an instance of c belongs to.
Ancestors[c \in Classes] == IF c = "Exception" THEN {c} ELSE {c} \cup Ancestors[Parent(c)]

IsInstance(e, c) == c \in Ancestors[e]

-----------------------------------------------------------------------------
(* database_error_handler *)

\* Mutant: the classes of lost connections come without OSError.
NarrowHandlers == <<
  <<{"RequestTimeoutError"}, "RequestTimeoutError">>,
  <<{"PostgresConnectionError", "ConnectionFailureError", "ConnectionDoesNotExistError"},
    "DatabaseDisconnectionError">>,
  <<{"SQLAlchemyTimeoutError"}, "DatabaseTimeoutError">>,
  <<{"DBAPIError"}, "DatabaseDBAPIError">> >>

\* _EXCEPTION_HANDLERS, in its order.  Its last entry is left out: CircuitBreakerFailed
\* is an event of purgatory, and no exception is an instance of it.
ExceptionHandlers == <<
  <<{"RequestTimeoutError"}, "RequestTimeoutError">>,
  <<{"PostgresConnectionError", "ConnectionFailureError", "ConnectionDoesNotExistError",
     "OSError", "gaierror"}, "DatabaseDisconnectionError">>,
  <<{"SQLAlchemyTimeoutError"}, "DatabaseTimeoutError">>,
  <<{"OperationalError"}, "DatabaseOperationalError">>,
  <<{"InterfaceError"}, "DatabaseInterfaceError">>,
  <<{"DBAPIError"}, "DatabaseDBAPIError">> >>

\* What the handler raises for e: the first entry that fits decides.
HandleException(e) ==
  LET Fits(i) == ExceptionHandlers[i][1] \cap Ancestors[e] # {}
      fitting == {i \in DOMAIN ExceptionHandlers : Fits(i)}
  IN IF IsInstance(e, "HTTPException") THEN e
     ELSE IF fitting = {} THEN "DatabaseError"
     ELSE ExceptionHandlers[CHOOSE i \in fitting : \A j \in fitting : i <= j][2]

\* The time-out decorator stands between the breaker and the handler: it turns
\* the built-in TimeoutError into a RequestTimeoutError.
TimedOut(e) == IF IsInstance(e, "TimeoutError") THEN "RequestTimeoutError" ELSE e

\* apply_repository_decorators: what a repository method raises for e.
Translations == [e \in Classes |-> HandleException(TimedOut(e))]

\* BaseUnitOfWork.commit(): the handler stands inside the time-out.
CommitTranslations == [e \in Classes |-> TimedOut(HandleException(e))]

-----------------------------------------------------------------------------
(* The registered handlers *)

ServiceStatus == [
  ServiceException |-> 500, RequestError |-> 400, AuthenticationFailedError |-> 401,
  PermissionDeniedError |-> 403, NotFoundError |-> 404, MethodNotAllowedError |-> 405,
  RequestTimeoutError |-> 408, ConflictError |-> 409, ValidationError |-> 422,
  RateLimitExceededError |-> 429, InternalServerError |-> 500, BadGatewayError |-> 502,
  ServiceUnavailableError |-> 503 ]

ServiceClasses == {e \in Classes : IsInstance(e, "ServiceException")}

\* A class without a status of its own has the one it inherits, and to_response()
\* answers with it.
StatusOfService[e \in ServiceClasses] ==
  IF e \in DOMAIN ServiceStatus THEN ServiceStatus[e] ELSE StatusOfService[Parent(e)]

DomainStatus(e) ==
  CASE IsInstance(e, "EntityNotFoundError") -> 404
    [] IsInstance(e, "DomainConflictError") -> 409
    [] IsInstance(e, "DomainAuthorizationError") -> 403
    [] IsInstance(e, "DomainStateError") -> 422
    [] OTHER -> 400

\* validation_exception_handler makes a ValidationError of what FastAPI found wrong with
\* a request, and of every other use of pydantic that failed, the server's own as well.
ValidationStatus == StatusOfService["ValidationError"]

\* rate_limit_exceeded_handler
RateLimitStatus == 429

\* unhandled_exception_handler
UnhandledStatus == 500

\* Starlette takes the handler of the nearest class.  (A plain HTTPException carries its
\* status with it; the classes say nothing of it.)
Responses == [e \in Classes |->
  CASE IsInstance(e, "ServiceException") -> StatusOfService[e]
    [] IsInstance(e, "RateLimitExceeded") -> RateLimitStatus
    [] e \in {"RequestValidationError", "PydanticValidationError"} -> ValidationStatus
    [] IsInstance(e, "DomainError") -> DomainStatus(e)
    [] OTHER -> UnhandledStatus]
===============================================================================
