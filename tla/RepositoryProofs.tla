--------------------------- MODULE RepositoryProofs ---------------------------
(***************************************************************************)
(* What holds of Repository for any units, rows and threshold.  That no     *)
(* update is lost from a copy loaded under the lock needs that such a copy  *)
(* is the committed version as long as its unit has the lock, which needs   *)
(* that only the holder of a lock writes and that a unit that commits has   *)
(* never failed.                                                            *)
(***************************************************************************)
EXTENDS Repository, FiniteSetTheorems, SequenceTheorems, WellFoundedInduction, TLAPS

-----------------------------------------------------------------------------
(* Exceptions, their ancestors and the status they are answered with *)

\* A set of natural numbers that is not empty has a least element.
LEMMA LeastElement ==
  ASSUME NEW S, S \subseteq Nat, S # {}
  PROVE  \E i \in S : \A j \in S : i <= j
<1> DEFINE Less == OpToRel(<, Nat)
<1>1. IsWellFoundedOn(Less, Nat)
  BY NatLessThanWellFounded
<1> HIDE DEF Less
<1>2. PICK i \in S : \A j \in S : <<j, i>> \notin Less
  BY <1>1, WFMin
<1>3. \A j \in S : ~(j < i)
  BY <1>2 DEF Less, OpToRel
<1> QED BY <1>2, <1>3

\* The parent of a class is a class.
LEMMA ParentIsClass == \A c \in Classes \ {"Exception"} : Parent(c) \in Classes
<1>1. \A c \in DOMAIN DriverParent : DriverParent[c] \in {"Exception"} \cup DOMAIN DriverParent
  BY DEF DriverParent
<1>2. \A c \in DOMAIN ServiceParent : ServiceParent[c] \in DOMAIN DriverParent \cup DOMAIN ServiceParent
  BY DEF DriverParent, ServiceParent
<1>3. \A c \in DOMAIN JwtParent : JwtParent[c] \in DOMAIN ServiceParent \cup DOMAIN JwtParent
  BY DEF ServiceParent, JwtParent
<1>4. \A c \in DOMAIN DatabaseParent : DatabaseParent[c] \in DOMAIN ServiceParent
  BY DEF ServiceParent, DatabaseParent
<1>5. \A c \in DOMAIN DomainParent : DomainParent[c] \in {"Exception"} \cup DOMAIN DomainParent
  BY DEF DomainParent
<1>6. \A c \in DOMAIN GenerationParent : GenerationParent[c] \in DOMAIN DomainParent \cup DOMAIN GenerationParent
  BY DEF DomainParent, GenerationParent
<1> QED BY <1>1, <1>2, <1>3, <1>4, <1>5, <1>6 DEF Parent, Classes

\* What is reached from a class by going from class to parent until a stop: the least set
\* that contains the class and, with each of its classes that is no stop, the parent.
IsPath(S, c, Stops) == c \in S /\ \A y \in S \ Stops : Parent(y) \in S
Reached(c, Stops) == {x \in Classes : \A S \in SUBSET Classes : IsPath(S, c, Stops) => x \in S}

\* From a stop nothing else is reached, and from any other class what its parent reaches.
LEMMA Climbing ==
  ASSUME NEW Stops, "Exception" \in Stops, NEW c \in Classes
  PROVE  Reached(c, Stops) = IF c \in Stops THEN {c} ELSE {c} \cup Reached(Parent(c), Stops)
<1>1. c \in Reached(c, Stops)
  BY DEF Reached, IsPath
<1>2. CASE c \in Stops
  <2>1. IsPath({c}, c, Stops)
    BY <1>2 DEF IsPath
  <2> QED BY <1>1, <1>2, <2>1 DEF Reached
<1>3. CASE c \notin Stops
  <2>1. Parent(c) \in Classes
    BY <1>3, ParentIsClass
  <2>2. ASSUME NEW x \in Reached(Parent(c), Stops) PROVE x \in Reached(c, Stops)
    <3>1. ASSUME NEW S \in SUBSET Classes, IsPath(S, c, Stops) PROVE IsPath(S, Parent(c), Stops)
      BY <1>3, <3>1 DEF IsPath
    <3> QED BY <3>1 DEF Reached
  <2>3. ASSUME NEW x \in Reached(c, Stops), x # c PROVE x \in Reached(Parent(c), Stops)
    <3>1. SUFFICES ASSUME NEW S \in SUBSET Classes, IsPath(S, Parent(c), Stops) PROVE x \in S
      BY DEF Reached
    <3>2. IsPath(S \cup {c}, c, Stops)
      BY <3>1 DEF IsPath
    <3>3. x \in S \cup {c}
      BY <3>2 DEF Reached
    <3> QED BY <2>3, <3>3
  <2> QED BY <1>1, <1>3, <2>2, <2>3
<1> QED BY <1>2, <1>3

\* Ancestors is the function its recursive definition describes.
LEMMA AncestorsDefined ==
  \A c \in Classes : Ancestors[c] = IF c = "Exception" THEN {c} ELSE {c} \cup Ancestors[Parent(c)]
<1> DEFINE reached == [c \in Classes |-> Reached(c, {"Exception"})]
<1>1. \A c \in Classes : reached[c] = IF c = "Exception" THEN {c} ELSE {c} \cup reached[Parent(c)]
  BY Climbing, ParentIsClass
<1>2. reached = [c \in Classes |-> reached[c]]
  OBVIOUS
<1> HIDE DEF reached
<1>3. reached = [c \in Classes |-> IF c = "Exception" THEN {c} ELSE {c} \cup reached[Parent(c)]]
  BY <1>1, <1>2
<1>4. Ancestors = [c \in Classes |-> IF c = "Exception" THEN {c} ELSE {c} \cup Ancestors[Parent(c)]]
  BY <1>3 DEF Ancestors
<1> QED BY <1>4

\* StatusOfService is the function its recursive definition describes.
LEMMA StatusDefined ==
  \A e \in ServiceClasses :
    StatusOfService[e] = IF e \in DOMAIN ServiceStatus THEN ServiceStatus[e] ELSE StatusOfService[Parent(e)]
<1> DEFINE Stops == DOMAIN ServiceStatus \cup {"Exception"}
           nearest(e) == CHOOSE x \in DOMAIN ServiceStatus : x \in Reached(e, Stops)
           status == [e \in ServiceClasses |-> ServiceStatus[nearest(e)]]
<1>1. "ServiceException" \in DOMAIN ServiceStatus /\ "Exception" \notin DOMAIN ServiceStatus
  BY DEF ServiceStatus
<1>2. ASSUME NEW e \in ServiceClasses, e \notin DOMAIN ServiceStatus
      PROVE  Parent(e) \in ServiceClasses /\ nearest(e) = nearest(Parent(e))
  <2>1. e \in Classes /\ e # "Exception" /\ e # "ServiceException"
    BY <1>1, <1>2, AncestorsDefined DEF ServiceClasses, IsInstance
  <2>2. Parent(e) \in ServiceClasses
    BY <2>1, AncestorsDefined, ParentIsClass DEF ServiceClasses, IsInstance
  <2>3. Reached(e, Stops) = {e} \cup Reached(Parent(e), Stops)
    BY <1>2, <2>1, Climbing
  <2>4. \A x \in DOMAIN ServiceStatus : x \in Reached(e, Stops) <=> x \in Reached(Parent(e), Stops)
    BY <1>2, <2>3
  <2> QED BY <2>2, <2>4
<1>3. ASSUME NEW e \in ServiceClasses, e \in DOMAIN ServiceStatus PROVE nearest(e) = e
  <2>1. Reached(e, Stops) = {e}
    BY <1>3, Climbing DEF ServiceClasses
  <2> QED BY <1>3, <2>1
<1> HIDE DEF nearest
<1>4. status = [e \in ServiceClasses |->
                  IF e \in DOMAIN ServiceStatus THEN ServiceStatus[e] ELSE status[Parent(e)]]
  <2>1. \A e \in ServiceClasses :
          status[e] = IF e \in DOMAIN ServiceStatus THEN ServiceStatus[e] ELSE status[Parent(e)]
    BY <1>2, <1>3
  <2>2. status = [e \in ServiceClasses |-> status[e]]
    OBVIOUS
  <2> HIDE DEF status
  <2> QED BY <2>1, <2>2
<1> HIDE DEF status
<1>5. StatusOfService = [e \in ServiceClasses |->
        IF e \in DOMAIN ServiceStatus THEN ServiceStatus[e] ELSE StatusOfService[Parent(e)]]
  BY <1>4 DEF StatusOfService
<1> QED BY <1>5

\* Each table has the parents of its own classes.
LEMMA ParentIs ==
  /\ \A c \in DOMAIN DriverParent : Parent(c) = DriverParent[c]
  /\ \A c \in DOMAIN ServiceParent : Parent(c) = ServiceParent[c]
  /\ \A c \in DOMAIN JwtParent : Parent(c) = JwtParent[c]
  /\ \A c \in DOMAIN DatabaseParent : Parent(c) = DatabaseParent[c]
  /\ \A c \in DOMAIN DomainParent : Parent(c) = DomainParent[c]
  /\ \A c \in DOMAIN GenerationParent : Parent(c) = GenerationParent[c]
<1>1. /\ DOMAIN ServiceParent \cap DOMAIN DriverParent = {}
      /\ DOMAIN JwtParent \cap (DOMAIN DriverParent \cup DOMAIN ServiceParent) = {}
      /\ DOMAIN DatabaseParent \cap (DOMAIN DriverParent \cup DOMAIN ServiceParent \cup DOMAIN JwtParent) = {}
  BY DEF DriverParent, ServiceParent, JwtParent, DatabaseParent
<1>2. DOMAIN DomainParent \cap (DOMAIN DriverParent \cup DOMAIN ServiceParent \cup DOMAIN JwtParent
                                  \cup DOMAIN DatabaseParent) = {}
  BY DEF DriverParent, ServiceParent, JwtParent, DatabaseParent, DomainParent
<1>3. DOMAIN GenerationParent \cap (DOMAIN DriverParent \cup DOMAIN ServiceParent \cup DOMAIN JwtParent
                                  \cup DOMAIN DatabaseParent \cup DOMAIN DomainParent) = {}
  BY DEF DriverParent, ServiceParent, JwtParent, DatabaseParent, DomainParent, GenerationParent
<1> QED BY <1>1, <1>2, <1>3 DEF Parent

\* The ancestors of the exceptions that repository methods meet.
LEMMA AncestorsMet ==
  /\ Ancestors["Exception"] = {"Exception"}
  /\ Ancestors["OSError"] = {"OSError", "Exception"}
  /\ Ancestors["TimeoutError"] = {"TimeoutError", "OSError", "Exception"}
  /\ Ancestors["SQLAlchemyTimeoutError"] = {"SQLAlchemyTimeoutError", "Exception"}
  /\ Ancestors["ImportError"] = {"ImportError", "Exception"}
  /\ Ancestors["OpenedState"] = {"OpenedState", "Exception"}
  /\ Ancestors["StaleDataError"] = {"StaleDataError", "Exception"}
  /\ Ancestors["PendingRollbackError"] = {"PendingRollbackError", "Exception"}
  /\ Ancestors["DBAPIError"] = {"DBAPIError", "Exception"}
  /\ Ancestors["TooManyConnectionsError"] = {"TooManyConnectionsError", "Exception"}
  /\ Ancestors["InterfaceError"] = {"InterfaceError", "DBAPIError", "Exception"}
  /\ Ancestors["IntegrityError"] = {"IntegrityError", "DBAPIError", "Exception"}
  /\ Ancestors["DomainError"] = {"DomainError", "Exception"}
  /\ Ancestors["DomainValidationError"] = {"DomainValidationError", "DomainError", "Exception"}
  /\ Ancestors["EntityNotFoundError"] = {"EntityNotFoundError", "DomainError", "Exception"}
  /\ Ancestors["QuotaExhaustedError"] = {"QuotaExhaustedError", "AiGenerationError", "DomainError", "Exception"}
<1>1. \A c \in DOMAIN DriverParent : c \in Classes /\ c # "Exception"
  BY DEF Classes, DriverParent
<1>2. \A c \in DOMAIN DomainParent : c \in Classes /\ c # "Exception"
  BY DEF Classes, DomainParent
<1>3. \A c \in DOMAIN GenerationParent : c \in Classes /\ c # "Exception"
  BY DEF Classes, GenerationParent
<1>4. Ancestors["Exception"] = {"Exception"}
  BY AncestorsDefined DEF Classes
<1>5. \A c \in DOMAIN DriverParent : Ancestors[c] = {c} \cup Ancestors[DriverParent[c]]
  BY <1>1, AncestorsDefined, ParentIs
<1>6. \A c \in DOMAIN DomainParent : Ancestors[c] = {c} \cup Ancestors[DomainParent[c]]
  BY <1>2, AncestorsDefined, ParentIs
<1>7. \A c \in DOMAIN GenerationParent : Ancestors[c] = {c} \cup Ancestors[GenerationParent[c]]
  BY <1>3, AncestorsDefined, ParentIs
<1>8. /\ Ancestors["OSError"] = {"OSError", "Exception"}
      /\ Ancestors["SQLAlchemyTimeoutError"] = {"SQLAlchemyTimeoutError", "Exception"}
      /\ Ancestors["ImportError"] = {"ImportError", "Exception"}
      /\ Ancestors["OpenedState"] = {"OpenedState", "Exception"}
      /\ Ancestors["StaleDataError"] = {"StaleDataError", "Exception"}
      /\ Ancestors["PendingRollbackError"] = {"PendingRollbackError", "Exception"}
      /\ Ancestors["DBAPIError"] = {"DBAPIError", "Exception"}
      /\ Ancestors["TooManyConnectionsError"] = {"TooManyConnectionsError", "Exception"}
  BY <1>4, <1>5 DEF DriverParent
<1>9. /\ Ancestors["TimeoutError"] = {"TimeoutError", "OSError", "Exception"}
      /\ Ancestors["InterfaceError"] = {"InterfaceError", "DBAPIError", "Exception"}
      /\ Ancestors["IntegrityError"] = {"IntegrityError", "DBAPIError", "Exception"}
  BY <1>5, <1>8 DEF DriverParent
<1>10. Ancestors["DomainError"] = {"DomainError", "Exception"}
  BY <1>4, <1>6 DEF DomainParent
<1>11. /\ Ancestors["DomainValidationError"] = {"DomainValidationError", "DomainError", "Exception"}
       /\ Ancestors["EntityNotFoundError"] = {"EntityNotFoundError", "DomainError", "Exception"}
  BY <1>6, <1>10 DEF DomainParent
<1>12. Ancestors["AiGenerationError"] = {"AiGenerationError", "DomainError", "Exception"}
  BY <1>7, <1>10 DEF GenerationParent
<1>13. Ancestors["QuotaExhaustedError"] = {"QuotaExhaustedError", "AiGenerationError", "DomainError", "Exception"}
  BY <1>7, <1>12 DEF GenerationParent
<1> QED BY <1>4, <1>8, <1>9, <1>10, <1>11, <1>13

\* Only a class of the service, of a token or of the database has the status of a service.
LEMMA ServiceClassesAre ==
  ServiceClasses \subseteq DOMAIN ServiceParent \cup DOMAIN JwtParent \cup DOMAIN DatabaseParent
<1> DEFINE Plain(c) == "ServiceException" \notin Ancestors[c]
<1>1. /\ \A c \in DOMAIN DriverParent : c \in Classes /\ c # "Exception" /\ c # "ServiceException"
      /\ \A c \in DOMAIN DomainParent : c \in Classes /\ c # "Exception" /\ c # "ServiceException"
      /\ \A c \in DOMAIN GenerationParent : c \in Classes /\ c # "Exception" /\ c # "ServiceException"
  <2>1. \A c \in DOMAIN DriverParent : c \in Classes /\ c # "Exception" /\ c # "ServiceException"
    BY DEF Classes, DriverParent
  <2>2. \A c \in DOMAIN DomainParent : c \in Classes /\ c # "Exception" /\ c # "ServiceException"
    BY DEF Classes, DomainParent
  <2>3. \A c \in DOMAIN GenerationParent : c \in Classes /\ c # "Exception" /\ c # "ServiceException"
    BY DEF Classes, GenerationParent
  <2> QED BY <2>1, <2>2, <2>3
<1>2. Plain("Exception")
  BY AncestorsMet
<1>3. /\ \A c \in DOMAIN DriverParent : Plain(DriverParent[c]) => Plain(c)
      /\ \A c \in DOMAIN DomainParent : Plain(DomainParent[c]) => Plain(c)
      /\ \A c \in DOMAIN GenerationParent : Plain(GenerationParent[c]) => Plain(c)
  BY <1>1, AncestorsDefined, ParentIs
<1> HIDE DEF Plain
<1>4. \A c \in DOMAIN DriverParent : Plain(c)
  <2>1. \A c \in DOMAIN DriverParent :
          \/ DriverParent[c] = "Exception"
          \/ DriverParent[c] \in DOMAIN DriverParent /\ DriverParent[DriverParent[c]] = "Exception"
    BY DEF DriverParent
  <2> QED BY <1>2, <1>3, <2>1
<1>5. \A c \in DOMAIN DomainParent : Plain(c)
  <2>1. \A c \in DOMAIN DomainParent :
          \/ DomainParent[c] = "Exception"
          \/ DomainParent[c] \in DOMAIN DomainParent /\ DomainParent[DomainParent[c]] = "Exception"
    BY DEF DomainParent
  <2> QED BY <1>2, <1>3, <2>1
<1>6. \A c \in DOMAIN GenerationParent : Plain(c)
  <2>1. \A c \in DOMAIN GenerationParent :
          \/ GenerationParent[c] \in DOMAIN DomainParent
          \/ /\ GenerationParent[c] \in DOMAIN GenerationParent
             /\ GenerationParent[GenerationParent[c]] \in DOMAIN DomainParent
    BY DEF DomainParent, GenerationParent
  <2> QED BY <1>3, <1>5, <2>1
<1> QED BY <1>2, <1>4, <1>5, <1>6 DEF Plain, ServiceClasses, IsInstance, Classes

\* The status of a service is that of an error.
LEMMA ServiceStatusTypes == \A e \in ServiceClasses : StatusOfService[e] \in 400..599
<1>1. /\ \A c \in DOMAIN ServiceStatus : ServiceStatus[c] \in 400..599
      /\ DOMAIN ServiceParent \subseteq DOMAIN ServiceStatus
      /\ "ServiceException" \in DOMAIN ServiceStatus /\ "Exception" \notin DOMAIN ServiceStatus
  BY DEF ServiceStatus, ServiceParent
<1>2. \A e \in ServiceClasses : e \in DOMAIN ServiceStatus => StatusOfService[e] \in 400..599
  BY <1>1, StatusDefined
<1>3. ASSUME NEW e \in ServiceClasses, e \notin DOMAIN ServiceStatus
      PROVE  Parent(e) \in ServiceClasses /\ StatusOfService[e] = StatusOfService[Parent(e)]
  <2>1. e \in Classes /\ e # "Exception" /\ e # "ServiceException"
    BY <1>1, <1>3, AncestorsDefined DEF ServiceClasses, IsInstance
  <2>2. Parent(e) \in ServiceClasses
    BY <2>1, AncestorsDefined, ParentIsClass DEF ServiceClasses, IsInstance
  <2> QED BY <1>3, <2>2, StatusDefined
<1>4. \A e \in DOMAIN DatabaseParent : Parent(e) \in DOMAIN ServiceStatus
  <2>1. \A e \in DOMAIN DatabaseParent : DatabaseParent[e] \in DOMAIN ServiceParent
    BY DEF DatabaseParent, ServiceParent
  <2> QED BY <1>1, <2>1, ParentIs
<1>5. \A e \in DOMAIN JwtParent : \/ Parent(e) \in DOMAIN ServiceStatus
                                  \/ Parent(e) \in DOMAIN JwtParent /\ Parent(Parent(e)) \in DOMAIN ServiceStatus
  <2>1. \A e \in DOMAIN JwtParent :
          \/ JwtParent[e] \in DOMAIN ServiceParent
          \/ JwtParent[e] \in DOMAIN JwtParent /\ JwtParent[JwtParent[e]] \in DOMAIN ServiceParent
    BY DEF JwtParent, ServiceParent
  <2> QED BY <1>1, <2>1, ParentIs
<1> QED BY <1>1, <1>2, <1>3, <1>4, <1>5, ServiceClassesAre

\* The exceptions that are translated are classes, and so is what becomes of them.
LEMMA TranslationsAreClasses == \A e \in Classes : Translations[e] \in Classes
<1>1. ASSUME NEW e \in Classes PROVE HandleException(e) \in Classes
  <2> DEFINE fitting == {i \in DOMAIN ExceptionHandlers : ExceptionHandlers[i][1] \cap Ancestors[e] # {}}
  <2>1. DOMAIN ExceptionHandlers = 1..6 /\ \A i \in 1..6 : ExceptionHandlers[i][2] \in Classes
    <3>1. DOMAIN ExceptionHandlers = 1..6
      BY DEF ExceptionHandlers
    <3>2. {"RequestTimeoutError", "DatabaseDisconnectionError", "DatabaseTimeoutError", "DatabaseOperationalError",
           "DatabaseInterfaceError", "DatabaseDBAPIError"} \subseteq Classes
      BY DEF Classes, ServiceParent, DatabaseParent
    <3> QED BY <3>1, <3>2 DEF ExceptionHandlers
  <2>2. ASSUME fitting # {} PROVE \E i \in fitting : \A j \in fitting : i <= j
    <3>1. fitting \subseteq Nat
      BY <2>1
    <3> HIDE DEF fitting
    <3> QED BY <2>2, <3>1, LeastElement
  <2>3. "DatabaseError" \in Classes
    BY DEF Classes, DatabaseParent
  <2>4. HandleException(e) =
          IF IsInstance(e, "HTTPException") THEN e
          ELSE IF fitting = {} THEN "DatabaseError"
          ELSE ExceptionHandlers[CHOOSE i \in fitting : \A j \in fitting : i <= j][2]
    BY DEF HandleException
  <2>5. fitting \subseteq 1..6
    BY <2>1
  <2> HIDE DEF fitting
  <2> QED BY <2>1, <2>2, <2>3, <2>4, <2>5
<1>2. "RequestTimeoutError" \in Classes
  BY DEF Classes, ServiceParent
<1> QED BY <1>1, <1>2 DEF Translations, TimedOut

\* No exception is answered with success: every class has a status from 400 to 599.
THEOREM ErrorsAreErrors == \A e \in Classes : Responses[e] \in 400..599
<1>1. "ValidationError" \in ServiceClasses
  <2>1. "ValidationError" \in Classes /\ "ServiceException" \in Classes
    BY DEF Classes, ServiceParent
  <2>2. Parent("ValidationError") = "ServiceException"
    BY ParentIs DEF ServiceParent
  <2>3. "ServiceException" \in Ancestors["ServiceException"]
    BY <2>1, AncestorsDefined
  <2> QED BY <2>1, <2>2, <2>3, AncestorsDefined DEF ServiceClasses, IsInstance
<1>2. ValidationStatus \in 400..599 /\ RateLimitStatus \in 400..599 /\ UnhandledStatus \in 400..599
  BY <1>1, ServiceStatusTypes DEF ValidationStatus, RateLimitStatus, UnhandledStatus
<1>3. \A e \in Classes : DomainStatus(e) \in 400..599
  BY DEF DomainStatus
<1> QED BY <1>2, <1>3, ServiceStatusTypes DEF Responses, ServiceClasses

\* The first entry that fits decides; if there is none the error is a DatabaseError.
LEMMA Handled ==
  ASSUME NEW e \in Classes, "HTTPException" \notin Ancestors[e]
  PROVE  /\ \A i \in 1..6 :
              /\ ExceptionHandlers[i][1] \cap Ancestors[e] # {}
              /\ \A j \in 1..6 : j < i => ExceptionHandlers[j][1] \cap Ancestors[e] = {}
              => HandleException(e) = ExceptionHandlers[i][2]
         /\ (\A i \in 1..6 : ExceptionHandlers[i][1] \cap Ancestors[e] = {}) =>
              HandleException(e) = "DatabaseError"
<1> DEFINE fitting == {i \in DOMAIN ExceptionHandlers : ExceptionHandlers[i][1] \cap Ancestors[e] # {}}
<1>1. HandleException(e) =
          IF fitting = {} THEN "DatabaseError"
          ELSE ExceptionHandlers[CHOOSE i \in fitting : \A j \in fitting : i <= j][2]
  BY DEF HandleException, IsInstance
<1>2. DOMAIN ExceptionHandlers = 1..6
  BY DEF ExceptionHandlers
<1>3. \A i \in 1..6 : i \in fitting <=> ExceptionHandlers[i][1] \cap Ancestors[e] # {}
  BY <1>2
<1>4. \A i \in fitting : i \in 1..6
  BY <1>2
<1> HIDE DEF fitting
<1>5. ASSUME NEW i \in fitting, \A j \in 1..6 : j < i => j \notin fitting
      PROVE  (CHOOSE k \in fitting : \A j \in fitting : k <= j) = i
  <2>1. \A j \in fitting : i <= j
    BY <1>4, <1>5
  <2>2. \A k \in fitting : (\A j \in fitting : k <= j) => k = i
    BY <1>4, <2>1
  <2> QED BY <2>1, <2>2
<1>6. ASSUME \A i \in 1..6 : ExceptionHandlers[i][1] \cap Ancestors[e] = {}
      PROVE  HandleException(e) = "DatabaseError"
  BY <1>1, <1>3, <1>4, <1>6
<1>7. ASSUME NEW i \in 1..6, ExceptionHandlers[i][1] \cap Ancestors[e] # {},
             \A j \in 1..6 : j < i => ExceptionHandlers[j][1] \cap Ancestors[e] = {}
      PROVE  HandleException(e) = ExceptionHandlers[i][2]
  <2>1. i \in fitting /\ \A j \in 1..6 : j < i => j \notin fitting
    BY <1>3, <1>7
  <2>2. fitting # {} /\ (CHOOSE k \in fitting : \A j \in fitting : k <= j) = i
    BY <1>5, <2>1
  <2> QED BY <1>1, <2>2
<1> QED BY <1>6, <1>7

\* What the decorators make of the exceptions that the database and its driver raise.
LEMMA TranslatedTo ==
  /\ Translations["OSError"] = "DatabaseDisconnectionError"
  /\ Translations["SQLAlchemyTimeoutError"] = "DatabaseTimeoutError"
  /\ Translations["TimeoutError"] = "RequestTimeoutError"
  /\ Translations["InterfaceError"] = "DatabaseInterfaceError"
  /\ \A e \in {"DBAPIError", "IntegrityError"} : Translations[e] = "DatabaseDBAPIError"
  /\ \A e \in {"TooManyConnectionsError", "PendingRollbackError", "StaleDataError", "OpenedState",
             "DomainValidationError"} :
       Translations[e] = "DatabaseError"
  /\ CommitTranslations["RequestTimeoutError"] = "RequestTimeoutError"
  /\ \A e \in {"OSError", "SQLAlchemyTimeoutError", "TooManyConnectionsError", "InterfaceError", "DBAPIError",
              "IntegrityError", "PendingRollbackError", "StaleDataError"} :
       CommitTranslations[e] = Translations[e]
<1> DEFINE met == {"OSError", "SQLAlchemyTimeoutError", "InterfaceError", "DBAPIError", "IntegrityError",
                   "TooManyConnectionsError", "PendingRollbackError", "StaleDataError", "OpenedState",
                   "DomainValidationError"}
<1>1. met \subseteq Classes /\ "TimeoutError" \in Classes /\ "RequestTimeoutError" \in Classes
      /\ "ServiceException" \in Classes /\ "HTTPException" \in Classes
  BY DEF Classes, DriverParent, DomainParent, ServiceParent
<1>2. \A e \in met : "HTTPException" \notin Ancestors[e] /\ "TimeoutError" \notin Ancestors[e]
  BY AncestorsMet
<1>3. "TimeoutError" \in Ancestors["TimeoutError"]
  BY AncestorsMet
<1>4. "HTTPException" \in Ancestors["RequestTimeoutError"]
  <2>1. Parent("RequestTimeoutError") = "ServiceException" /\ Parent("ServiceException") = "HTTPException"
    BY ParentIs DEF ServiceParent
  <2> QED BY <1>1, <2>1, AncestorsDefined
<1> HIDE DEF met
<1>5. \A e \in met : Translations[e] = HandleException(e)
  BY <1>1, <1>2 DEF Translations, TimedOut, IsInstance
<1>6. Translations["TimeoutError"] = "RequestTimeoutError"
  <2>1. TimedOut("TimeoutError") = "RequestTimeoutError"
    BY <1>3 DEF TimedOut, IsInstance
  <2>2. HandleException("RequestTimeoutError") = "RequestTimeoutError"
    BY <1>4 DEF HandleException, IsInstance
  <2> QED BY <1>1, <2>1, <2>2 DEF Translations
<1>7. /\ \A e \in met : e \in {"OSError"} => 
            /\ \A j \in 1..6 : j < 2 => ExceptionHandlers[j][1] \cap Ancestors[e] = {}
            /\ ExceptionHandlers[2][1] \cap Ancestors[e] # {}
            /\ ExceptionHandlers[2][2] = "DatabaseDisconnectionError"
      /\ \A e \in met : e \in {"SQLAlchemyTimeoutError"} => 
            /\ \A j \in 1..6 : j < 3 => ExceptionHandlers[j][1] \cap Ancestors[e] = {}
            /\ ExceptionHandlers[3][1] \cap Ancestors[e] # {}
            /\ ExceptionHandlers[3][2] = "DatabaseTimeoutError"
      /\ \A e \in met : e \in {"InterfaceError"} => 
            /\ \A j \in 1..6 : j < 5 => ExceptionHandlers[j][1] \cap Ancestors[e] = {}
            /\ ExceptionHandlers[5][1] \cap Ancestors[e] # {}
            /\ ExceptionHandlers[5][2] = "DatabaseInterfaceError"
      /\ \A e \in met : e \in {"DBAPIError", "IntegrityError"} => 
            /\ \A j \in 1..6 : j < 6 => ExceptionHandlers[j][1] \cap Ancestors[e] = {}
            /\ ExceptionHandlers[6][1] \cap Ancestors[e] # {}
            /\ ExceptionHandlers[6][2] = "DatabaseDBAPIError"
      /\ \A e \in met : e \in {"TooManyConnectionsError", "PendingRollbackError", "StaleDataError", "OpenedState",
             "DomainValidationError"} =>
            \A j \in 1..6 : ExceptionHandlers[j][1] \cap Ancestors[e] = {}
  BY AncestorsMet DEF ExceptionHandlers
<1>8. /\ \A e \in {"OSError"} : HandleException(e) = "DatabaseDisconnectionError"
      /\ \A e \in {"SQLAlchemyTimeoutError"} : HandleException(e) = "DatabaseTimeoutError"
      /\ \A e \in {"InterfaceError"} : HandleException(e) = "DatabaseInterfaceError"
      /\ \A e \in {"DBAPIError", "IntegrityError"} : HandleException(e) = "DatabaseDBAPIError"
      /\ \A e \in {"TooManyConnectionsError", "PendingRollbackError", "StaleDataError", "OpenedState",
             "DomainValidationError"} :
           HandleException(e) = "DatabaseError"
  BY <1>1, <1>2, <1>7, Handled DEF met
<1>9. /\ Parent("RequestTimeoutError") = "ServiceException" /\ Parent("ServiceException") = "HTTPException"
      /\ Parent("HTTPException") = "Exception"
      /\ Parent("DatabaseDisconnectionError") = "ServiceUnavailableError"
      /\ Parent("DatabaseTimeoutError") = "RequestTimeoutError"
      /\ \A e \in {"DatabaseInterfaceError", "DatabaseDBAPIError", "DatabaseError"} : Parent(e) = "InternalServerError"
      /\ \A e \in {"ServiceUnavailableError", "InternalServerError"} : Parent(e) = "ServiceException"
  BY ParentIs DEF DriverParent, ServiceParent, DatabaseParent
<1>10. \A e \in {"RequestTimeoutError", "DatabaseDisconnectionError", "DatabaseTimeoutError", "DatabaseInterfaceError",
                "DatabaseDBAPIError", "DatabaseError"} : TimedOut(e) = e
  <2>1. {"RequestTimeoutError", "ServiceUnavailableError", "InternalServerError", "ServiceException", "HTTPException",
         "DatabaseDisconnectionError", "DatabaseTimeoutError", "DatabaseInterfaceError", "DatabaseDBAPIError",
         "DatabaseError"} \subseteq Classes
    BY DEF Classes, DriverParent, ServiceParent, DatabaseParent
  <2>2. "TimeoutError" \notin Ancestors["HTTPException"]
    <3>1. Ancestors["HTTPException"] = {"HTTPException"} \cup Ancestors["Exception"]
      BY <1>9, <2>1, AncestorsDefined
    <3>2. Ancestors["Exception"] = {"Exception"}
      BY AncestorsMet
    <3> QED BY <3>1, <3>2
  <2>3. "TimeoutError" \notin Ancestors["ServiceException"]
    BY <1>9, <2>1, <2>2, AncestorsDefined
  <2>4. \A e \in {"RequestTimeoutError", "ServiceUnavailableError", "InternalServerError"} : "TimeoutError" \notin Ancestors[e]
    BY <1>9, <2>1, <2>3, AncestorsDefined
  <2>5. \A e \in {"DatabaseDisconnectionError", "DatabaseTimeoutError", "DatabaseInterfaceError",
                 "DatabaseDBAPIError", "DatabaseError"} : "TimeoutError" \notin Ancestors[e]
    BY <1>9, <2>1, <2>4, AncestorsDefined
  <2> QED BY <2>4, <2>5 DEF TimedOut, IsInstance
<1>11. CommitTranslations["RequestTimeoutError"] = "RequestTimeoutError"
  BY <1>1, <1>4, <1>10 DEF CommitTranslations, HandleException, IsInstance
<1>12. \A e \in met \ {"OpenedState", "DomainValidationError"} : CommitTranslations[e] = Translations[e]
  <2>1. \A e \in met : TimedOut(HandleException(e)) = HandleException(e)
    BY <1>8, <1>10 DEF met
  <2> QED BY <1>1, <1>5, <2>1 DEF CommitTranslations
<1> QED BY <1>5, <1>6, <1>8, <1>11, <1>12 DEF met

\* The statuses of what the translated errors become.
LEMMA StatusesOfDatabase ==
  /\ Responses["RequestTimeoutError"] = 408 /\ Responses["DatabaseTimeoutError"] = 408
  /\ Responses["DatabaseDisconnectionError"] = 503
  /\ \A e \in {"DatabaseError", "DatabaseInterfaceError", "DatabaseDBAPIError"} : Responses[e] = 500
<1> DEFINE errors == {"DatabaseTimeoutError", "DatabaseDisconnectionError", "DatabaseError",
                      "DatabaseInterfaceError", "DatabaseDBAPIError"}
           bases == {"RequestTimeoutError", "ServiceUnavailableError", "InternalServerError"}
<1>1. /\ errors \subseteq Classes /\ bases \subseteq Classes /\ "ServiceException" \in Classes
      /\ "Exception" \notin errors \cup bases \cup {"ServiceException"}
  BY DEF Classes, DatabaseParent, ServiceParent
<1>2. \A e \in bases : Parent(e) = "ServiceException"
  BY ParentIs DEF ServiceParent
<1>3. /\ Parent("DatabaseTimeoutError") = "RequestTimeoutError"
      /\ Parent("DatabaseDisconnectionError") = "ServiceUnavailableError"
      /\ Parent("DatabaseError") = "InternalServerError" /\ Parent("DatabaseInterfaceError") = "InternalServerError"
      /\ Parent("DatabaseDBAPIError") = "InternalServerError"
  BY ParentIs DEF DatabaseParent
<1>4. \A e \in errors : Parent(e) \in bases
  BY <1>3
<1>5. \A e \in errors : e \notin DOMAIN ServiceStatus
  BY DEF ServiceStatus
<1>6. ServiceStatus["RequestTimeoutError"] = 408 /\ ServiceStatus["ServiceUnavailableError"] = 503
      /\ ServiceStatus["InternalServerError"] = 500 /\ \A e \in bases : e \in DOMAIN ServiceStatus
  BY DEF ServiceStatus
<1> HIDE DEF errors, bases
<1>7. "ServiceException" \in Ancestors["ServiceException"]
  BY <1>1, AncestorsDefined
<1>8. \A e \in bases : e \in ServiceClasses
  BY <1>1, <1>2, <1>7, AncestorsDefined DEF ServiceClasses, IsInstance
<1>9. \A e \in errors : e \in ServiceClasses
  BY <1>1, <1>4, <1>8, AncestorsDefined DEF ServiceClasses, IsInstance
<1>10. /\ \A e \in bases : Responses[e] = ServiceStatus[e]
       /\ \A e \in errors : Responses[e] = ServiceStatus[Parent(e)]
  <2> DEFINE service == {"ServiceException", "HTTPException", "Exception"}
  <2>1. Ancestors["ServiceException"] = service
    <3>1. Parent("ServiceException") = "HTTPException" /\ Parent("HTTPException") = "Exception"
      BY ParentIs DEF ServiceParent, DriverParent
    <3>2. "HTTPException" \in Classes
      BY DEF Classes, DriverParent
    <3>3. Ancestors["HTTPException"] = {"HTTPException"} \cup Ancestors["Exception"]
      BY <3>1, <3>2, AncestorsDefined
    <3>4. Ancestors["ServiceException"] = {"ServiceException"} \cup Ancestors["HTTPException"]
      BY <1>1, <3>1, AncestorsDefined
    <3>5. Ancestors["Exception"] = {"Exception"}
      BY AncestorsMet
    <3> QED BY <3>3, <3>4, <3>5
  <2>2. \A e \in bases : Ancestors[e] = {e} \cup service
    BY <1>1, <1>2, <2>1, AncestorsDefined
  <2>3. \A e \in errors : Ancestors[e] = {e, Parent(e)} \cup service
    <3> SUFFICES ASSUME NEW e \in errors PROVE Ancestors[e] = {e, Parent(e)} \cup service
      OBVIOUS
    <3>1. Ancestors[e] = {e} \cup Ancestors[Parent(e)]
      BY <1>1, AncestorsDefined
    <3>2. Ancestors[Parent(e)] = {Parent(e)} \cup service
      BY <1>4, <2>2
    <3> QED BY <3>1, <3>2
  <2>4. \A e \in bases \cup errors : e \in Classes /\ e \notin {"RequestValidationError", "PydanticValidationError",
                                     "RateLimitExceeded", "DomainError"}
    BY <1>1 DEF bases, errors
  <2>5. \A e \in bases \cup errors : /\ "ServiceException" \in Ancestors[e] /\ "RateLimitExceeded" \notin Ancestors[e]
                                   /\ "DomainError" \notin Ancestors[e]
    BY <1>4, <2>2, <2>3, <2>4
  <2> HIDE DEF service
  <2>6. \A e \in bases \cup errors : Responses[e] = StatusOfService[e]
    BY <2>4, <2>5 DEF Responses, IsInstance
  <2> QED BY <1>4, <1>5, <1>6, <1>8, <1>9, <2>6, StatusDefined
<1> QED BY <1>3, <1>6, <1>10 DEF errors, bases

\* What a repository method is answered with: a client is told to come back if there was no
\* connection or no time, and only then.
THEOREM AnswersOfMethods ==
  /\ \A e \in {"OSError", "SQLAlchemyTimeoutError", "TimeoutError"} : Responses[Translations[e]] \in {408, 503}
  /\ \A e \in {"TooManyConnectionsError", "InterfaceError", "DBAPIError", "PendingRollbackError", "IntegrityError",
              "StaleDataError", "OpenedState", "DomainValidationError"} : Responses[Translations[e]] = 500
  /\ Responses["ImportError"] = 500
  /\ Responses["EntityNotFoundError"] = 404 /\ Responses["QuotaExhaustedError"] = 400
<1>1. "ImportError" \in Classes /\ "EntityNotFoundError" \in Classes /\ "QuotaExhaustedError" \in Classes
  BY DEF Classes, DriverParent, DomainParent, GenerationParent
<1>2. Responses["ImportError"] = 500
  BY <1>1, AncestorsMet DEF Responses, IsInstance, UnhandledStatus
<1>3. Responses["EntityNotFoundError"] = 404
  BY <1>1, AncestorsMet DEF Responses, IsInstance, DomainStatus
<1>4. Responses["QuotaExhaustedError"] = 400
  BY <1>1, AncestorsMet DEF Responses, IsInstance, DomainStatus
<1> QED BY <1>2, <1>3, <1>4, TranslatedTo, StatusesOfDatabase

\* What the COMMIT of a unit of work is answered with, and that of a bare session.
LEMMA AnswersOfCommits ==
  /\ \A e \in {"OSError", "SQLAlchemyTimeoutError", "RequestTimeoutError"} :
       Responses[CommitTranslations[e]] \in {408, 503}
  /\ \A e \in {"TooManyConnectionsError", "InterfaceError", "DBAPIError", "PendingRollbackError", "IntegrityError",
              "StaleDataError"} : Responses[CommitTranslations[e]] = 500
  /\ \A e \in {"OSError", "SQLAlchemyTimeoutError", "TooManyConnectionsError", "InterfaceError", "DBAPIError",
              "PendingRollbackError", "IntegrityError", "StaleDataError"} : Responses[e] = 500
<1> DEFINE bare == {"OSError", "SQLAlchemyTimeoutError", "TooManyConnectionsError", "InterfaceError", "DBAPIError",
                    "PendingRollbackError", "IntegrityError", "StaleDataError"}
<1>1. bare \subseteq Classes /\ \A e \in bare : e \notin {"RequestValidationError", "PydanticValidationError"}
  BY DEF Classes, DriverParent
<1>2. \A e \in bare : /\ "ServiceException" \notin Ancestors[e] /\ "RateLimitExceeded" \notin Ancestors[e]
                     /\ "DomainError" \notin Ancestors[e]
  BY AncestorsMet
<1> HIDE DEF bare
<1>3. \A e \in bare : Responses[e] = 500
  BY <1>1, <1>2 DEF Responses, IsInstance, UnhandledStatus
<1> QED BY <1>3, TranslatedTo, StatusesOfDatabase, AnswersOfMethods DEF bare

-----------------------------------------------------------------------------
(* The invariant *)

\* The transaction of u has its locks.
Live(u) == trans[u] \in {"new", "active", "aborted"}

\* A copy loaded under the lock is the committed version of a locked row.
SafeCopiesAreCurrent ==
  \A u \in Units, r \in Rows : r \in safe[u] /\ Live(u) => owner[r] = u /\ seen[u][r] = row[r]

\* A row that is written is locked.
WritersHaveLocks ==
  \A u \in Units, r \in Rows : work[u][r] \in {"written", "deleted"} /\ Live(u) => owner[r] = u

\* A copy from which a row was overwritten was not safe, and does not become so
\* before the unit ends.
LostStaysUnsafe ==
  \A w \in lost : w[2] \notin safe[w[1]] /\ (Running(w[1]) => work[w[1]][w[2]] # "none")

\* A commit is under way only in a transaction in which nothing has failed.
CommitsAreSound ==
  \A u \in Units :
    /\ op[u] = "commit" => trans[u] \in {"new", "active"}
    /\ u \in swallowed => trans[u] \in {"aborted", "invalid", "undone"}
    /\ trans[u] \in {"aborted", "invalid"} => u \in swallowed
    /\ Running(u) => reply[u] = 0

Invariant ==
  /\ TypeOK /\ SafeCopiesAreCurrent /\ WritersHaveLocks /\ LostStaysUnsafe
  /\ CommitsAreSound /\ AllOrNothing

-----------------------------------------------------------------------------

\* What the breaker's steps return is a breaker.
LEMMA BreakerTypes ==
  ASSUME NEW b \in Breaker
  PROVE  /\ Entered(b) \in Breaker /\ Succeeded(b) \in Breaker
         /\ Failed(b) \in Breaker /\ Expired(b) \in Breaker
<1>1. Closed \in Breaker /\ Opened \in Breaker
  BY ThresholdAssumption DEF Closed, Opened, Breaker
<1>2. Entered(b) \in Breaker /\ Expired(b) \in Breaker
  BY DEF Entered, Expired, Breaker
<1>3. Succeeded(b) \in Breaker
  BY <1>1 DEF Succeeded
<1>4. Failed(b) \in Breaker
  <2>1. ASSUME b.failures + 1 < Threshold PROVE [b EXCEPT !.failures = @ + 1] \in Breaker
    BY <2>1, ThresholdAssumption DEF Breaker
  <2> QED BY <1>1, <2>1 DEF Failed
<1> QED BY <1>2, <1>3, <1>4

\* Every error of the model is a class, whatever it is translated to.
LEMMA ErrorClasses ==
  {"ImportError", "OSError", "SQLAlchemyTimeoutError", "TooManyConnectionsError", "TimeoutError",
   "RequestTimeoutError", "InterfaceError", "DBAPIError", "PendingRollbackError", "IntegrityError", "StaleDataError", "OpenedState",
   "DomainValidationError", "EntityNotFoundError", "QuotaExhaustedError"} \subseteq Classes
BY DEF Classes, DriverParent, ServiceParent, DomainParent, GenerationParent

\* The errors that the calls of a method meet.
MethodErrors ==
  {"OSError", "SQLAlchemyTimeoutError", "TooManyConnectionsError", "TimeoutError", "InterfaceError",
   "DBAPIError", "PendingRollbackError", "IntegrityError", "StaleDataError", "DomainValidationError"}

\* A unit is answered with an error when an error leaves its block.
LEMMA AnswerTypes ==
  ASSUME NEW u \in Units, NEW e \in Classes
  PROVE  Answer(u, e) \in 400..599 /\ Answer(u, Translations[e]) \in 400..599
BY ErrorsAreErrors, TranslationsAreClasses, ErrorClasses DEF Answer

\* So it is when its COMMIT fails, and which kind of error it is decides with which.
LEMMA CommitAnswers ==
  ASSUME NEW u \in Units, NEW e \in CommitErrors, CommitRaises(u, e)
  PROVE  /\ CommitAnswer(u, e) \in 400..599
         /\ IF e \in Transient /\ u \in Managed THEN CommitAnswer(u, e) \in {408, 503} ELSE CommitAnswer(u, e) = 500
<1>1. e \in {"OSError", "SQLAlchemyTimeoutError", "TooManyConnectionsError", "InterfaceError", "RequestTimeoutError",
             "DBAPIError", "PendingRollbackError", "IntegrityError", "StaleDataError"}
  BY DEF CommitErrors, ConnectErrors, LostErrors
<1>2. e = "RequestTimeoutError" => u \in Managed
  BY DEF CommitRaises, ConnectErrors, LostErrors, Conflict
<1>3. CASE u \in Managed
  <2>1. CommitAnswer(u, e) = Responses[CommitTranslations[e]]
    BY <1>3 DEF CommitAnswer
  <2> QED BY <1>1, <1>3, <2>1, AnswersOfCommits DEF Transient
<1>4. CASE u \notin Managed
  <2>1. CommitAnswer(u, e) = Responses[e] /\ e # "RequestTimeoutError"
    BY <1>2, <1>4 DEF CommitAnswer
  <2> QED BY <1>1, <1>4, <2>1, AnswersOfCommits
<1> QED BY <1>3, <1>4

\* At the start nothing is locked, copied or written.
LEMMA InitInvariant == Init => Invariant
<1> SUFFICES ASSUME Init PROVE Invariant
  OBVIOUS
<1>1. TypeOK
  BY RepositoryAssumption, ThresholdAssumption
  DEF Init, TypeOK, Tags, Works, Ops, Selects, Breaker, Closed
<1>2. SafeCopiesAreCurrent /\ WritersHaveLocks /\ LostStaysUnsafe
  BY DEF Init, SafeCopiesAreCurrent, WritersHaveLocks, LostStaysUnsafe
<1>3. CommitsAreSound /\ AllOrNothing
  BY DEF Init, CommitsAreSound, AllOrNothing, Running
<1> QED BY <1>1, <1>2, <1>3 DEF Invariant

-----------------------------------------------------------------------------
(* What the methods, the failures and the end of a block have in common *)

\* Whatever method is called, the session only adds pending work, and what it has
\* loaded stays as it was.
LEMMA MethodShape ==
  ASSUME TypeOK, NEW u \in Units, Method(u)
  PROVE  \E o \in Ops \ {"none", "commit"}, S \in SUBSET Rows, w \in [Rows -> Works] :
           /\ Call(u, o, S, w)
           /\ \A r \in Rows : w[r] = work[u][r] \/ w[r] \in Pending
           /\ seen' \in [Units -> [Rows -> Units \cup {Initial, Unread}]]
           /\ \A v \in Units, r \in Rows : Loaded(v, r) => seen'[v][r] = seen[v][r]
<1> DEFINE Shape(o, S, w) ==
             /\ Call(u, o, S, w)
             /\ \A r \in Rows : w[r] = work[u][r] \/ w[r] \in Pending
             /\ seen' \in [Units -> [Rows -> Units \cup {Initial, Unread}]]
             /\ \A v \in Units, r \in Rows : Loaded(v, r) => seen'[v][r] = seen[v][r]
<1>t. /\ work[u] \in [Rows -> Works] /\ PendingRows(u) \in SUBSET Rows
      /\ seen \in [Units -> [Rows -> Units \cup {Initial, Unread}]]
      /\ \A S \in Targets : S \in SUBSET Rows
      /\ Selects \cup {"flush", "statement", "merge", "from_domain"} = Ops \ {"none", "commit"}
  BY RepositoryAssumption DEF TypeOK, PendingRows, Ops, Selects
<1>a. ASSUME NEW r \in Rows, NEW kind \in Pending, AddAndFlush(u, r, kind),
             seen' \in [Units -> [Rows -> Units \cup {Initial, Unread}]],
             \A v \in Units, q \in Rows : Loaded(v, q) => seen'[v][q] = seen[v][q]
      PROVE  \E o \in Ops \ {"none", "commit"}, S \in SUBSET Rows, w \in [Rows -> Works] : Shape(o, S, w)
  <2> DEFINE w == [work[u] EXCEPT ![r] = kind]
  <2>1. w \in [Rows -> Works] /\ \A q \in Rows : w[q] = work[u][q] \/ w[q] \in Pending
    BY <1>t DEF Pending, Works
  <2>2. PICK flush \in BOOLEAN : Call(u, "flush", IF flush THEN {r} \cup PendingRows(u) ELSE {}, w)
    BY <1>a DEF AddAndFlush
  <2>3. (IF flush THEN {r} \cup PendingRows(u) ELSE {}) \in SUBSET Rows
    BY <1>t
  <2> HIDE DEF w
  <2>4. Shape("flush", IF flush THEN {r} \cup PendingRows(u) ELSE {}, w)
    BY <2>1, <2>2, <1>a
  <2> QED BY <2>1, <2>3, <2>4, <1>t DEF Ops, Selects
<1>1. ASSUME NEW S \in Targets, Statement(u, S)
      PROVE  \E o \in Ops \ {"none", "commit"}, T \in SUBSET Rows, w \in [Rows -> Works] : Shape(o, T, w)
  <2>1. Shape("statement", S, work[u])
    BY <1>1, <1>t DEF Statement
  <2> QED BY <2>1, <1>t
<1>2. ASSUME NEW S \in Targets, NEW o \in Selects, Select(u, o, S)
      PROVE  \E k \in Ops \ {"none", "commit"}, T \in SUBSET Rows, w \in [Rows -> Works] : Shape(k, T, w)
  <2>1. Shape(o, S, work[u])
    BY <1>2, <1>t DEF Select
  <2> QED BY <2>1, <1>t
<1>3. ASSUME NEW r \in Rows, BulkInsert(u, r)
      PROVE  \E o \in Ops \ {"none", "commit"}, S \in SUBSET Rows, w \in [Rows -> Works] : Shape(o, S, w)
  <2> DEFINE w == [work[u] EXCEPT ![r] = "insert"]
  <2>1. w \in [Rows -> Works] /\ \A q \in Rows : w[q] = work[u][q] \/ w[q] \in Pending
    BY <1>t DEF Pending, Works
  <2>2. Shape("flush", {r}, w)
    BY <1>3, <1>t, <2>1 DEF BulkInsert
  <2> QED BY <2>1, <2>2, <1>t
<1>4. ASSUME NEW r \in Rows, Insert(u, r) \/ Update(u, r) \/ Delete(u, r)
      PROVE  \E o \in Ops \ {"none", "commit"}, S \in SUBSET Rows, w \in [Rows -> Works] : Shape(o, S, w)
  BY <1>4, <1>a, <1>t DEF Insert, Update, Delete, Pending
<1>5. ASSUME NEW r \in Rows, Upsert(u, r)
      PROVE  \E o \in Ops \ {"none", "commit"}, S \in SUBSET Rows, w \in [Rows -> Works] : Shape(o, S, w)
  <2>1. CASE Loaded(u, r)
    BY <1>5, <1>a, <1>t, <2>1 DEF Upsert, Pending
  <2>2. CASE ~Loaded(u, r)
    <3>1. Shape("merge", {r}, work[u])
      BY <1>5, <1>t, <2>2 DEF Upsert
    <3> QED BY <3>1, <1>t
  <2> QED BY <2>1, <2>2
<1>6. ASSUME NEW r \in Rows, UpdateFromDomain(u, r)
      PROVE  \E o \in Ops \ {"none", "commit"}, S \in SUBSET Rows, w \in [Rows -> Works] : Shape(o, S, w)
  <2>1. Shape("from_domain", {r}, work[u])
    BY <1>6, <1>t DEF UpdateFromDomain
  <2> QED BY <2>1, <1>t
<1> HIDE DEF Shape
<1>7. \E o \in Ops \ {"none", "commit"}, S \in SUBSET Rows, w \in [Rows -> Works] : Shape(o, S, w)
  BY <1>1, <1>2, <1>3, <1>4, <1>5, <1>6 DEF Method
<1> QED BY <1>7 DEF Shape

\* Whatever fails, a transaction that has failed or ended does not come to life
\* again.
LEMMA FailureShape ==
  ASSUME TypeOK, NEW u \in Units, CallFails(u)
  PROVE  \/ Refused(u)
         \/ \E e \in MethodErrors, t \in {"new", "active", "aborted", "invalid"} :
              /\ InCall(u) /\ op[u] # "commit" /\ Raises(u, e, t)
              /\ brk' \in Breaker
              /\ t \in {"new", "active"} => trans[u] = t
              /\ t = "aborted" => trans[u] \in {"new", "active", "aborted"}
<1> DEFINE Shape(e, t) ==
             /\ InCall(u) /\ op[u] # "commit" /\ Raises(u, e, t)
             /\ brk' \in Breaker
             /\ t \in {"new", "active"} => trans[u] = t
             /\ t = "aborted" => trans[u] \in {"new", "active", "aborted"}
           Some == \E e \in MethodErrors, t \in {"new", "active", "aborted", "invalid"} : Shape(e, t)
<1>b. brk \in Breaker /\ Failed(brk) \in Breaker
  BY BreakerTypes DEF TypeOK
<1>s. ASSUME NEW e \in MethodErrors, InCall(u), op[u] # "commit", trans[u] \in {"new", "active"},
             StatementFails(u, e)
      PROVE  Some
  <2>1. Shape(e, IF op[u] = "flush" THEN "invalid" ELSE "aborted")
    BY <1>s, <1>b DEF StatementFails, Fails
  <2> QED BY <2>1
<1>1. CASE NotConnected(u)
  <2>1. PICK e \in ConnectErrors : Fails(u, e, "new")
    BY <1>1 DEF NotConnected
  <2>2. Shape(e, "new")
    BY <1>1, <1>b, <2>1 DEF NotConnected, InMethod, Fails
  <2> QED BY <2>2 DEF MethodErrors, ConnectErrors
<1>2. CASE CallTimesOut(u)
  <2>1. Shape("TimeoutError", IF trans[u] = "new" THEN "new" ELSE "invalid")
    BY <1>2, <1>b DEF CallTimesOut, InMethod
  <2> QED BY <2>1 DEF MethodErrors
<1>3. CASE ConnectionLost(u)
  <2>1. PICK e \in LostErrors : Fails(u, e, "invalid")
    BY <1>3 DEF ConnectionLost
  <2>2. Shape(e, "invalid")
    BY <1>3, <1>b, <2>1 DEF ConnectionLost, InMethod, Fails
  <2> QED BY <2>2 DEF MethodErrors, LostErrors
<1>4. CASE AlreadyFailed(u)
  <2>1. Shape(IF trans[u] = "aborted" THEN "DBAPIError" ELSE "PendingRollbackError", trans[u])
    BY <1>4, <1>b DEF AlreadyFailed, InMethod, Fails
  <2>2. trans[u] \in {"aborted", "invalid"}
    BY <1>4 DEF AlreadyFailed
  <2> QED BY <2>1, <2>2 DEF MethodErrors
<1>5. CASE LockNotAvailable(u)
  BY <1>5, <1>s DEF MethodErrors, LockNotAvailable, Visiting
<1>6. CASE DeadlockDetected(u)
  BY <1>6, <1>s DEF MethodErrors, DeadlockDetected, Deadlocked, InMethod, WaitsFor, Visiting
<1>7. CASE FlushConflicts(u)
  BY <1>7, <1>s DEF MethodErrors, FlushConflicts, Conflict, Visiting
<1>8. CASE ConversionFails(u)
  <2>1. Shape("DomainValidationError", "active")
    BY <1>8, <1>b DEF ConversionFails, Fails
  <2> QED BY <2>1 DEF MethodErrors
<1>9. CASE Refused(u)
  BY <1>9
<1> QED BY <1>1, <1>2, <1>3, <1>4, <1>5, <1>6, <1>7, <1>8, <1>9 DEF CallFails

\* The types of what Ends leaves to the actions that use it.
OthersTyped ==
  /\ row \in [Rows -> Tags] /\ op \in [Units -> Ops] /\ todo \in [Units -> SUBSET Rows]
  /\ raised \in [Units -> {"nothing", "transient", "uncommitted", "rule", "other"}]
  /\ swallowed \in SUBSET Units /\ lost \in SUBSET (Units \X Rows)
  /\ brk \in Breaker /\ calls \in 0..MaxCalls

\* The end of a block leaves variables of their types.
LEMMA EndsTypes ==
  ASSUME TypeOK, NEW u \in Units, NEW t \in {"committed", "undone"},
         NEW status \in {0, 200} \cup (400..599), Ends(u, t, status), OthersTyped'
  PROVE  TypeOK'
<1>t. /\ owner \in [Rows -> Units \cup {Nobody}]
      /\ seen \in [Units -> [Rows -> Units \cup {Initial, Unread}]]
      /\ safe \in [Units -> SUBSET Rows] /\ work \in [Units -> [Rows -> Works]]
      /\ trans \in [Units -> {"new", "active", "aborted", "invalid", "committed", "undone"}]
      /\ reply \in [Units -> {0, 200} \cup (400..599)]
  BY DEF TypeOK
<1>1. owner' \in [Rows -> Units \cup {Nobody}]
  BY <1>t DEF Ends, Unlocked
<1>2. seen' \in [Units -> [Rows -> Units \cup {Initial, Unread}]]
  BY <1>t DEF Ends
<1>3. work' \in [Units -> [Rows -> Works]]
  BY <1>t DEF Ends, Works
<1>4. safe' \in [Units -> SUBSET Rows] /\ reply' \in [Units -> {0, 200} \cup (400..599)]
  BY <1>t DEF Ends
<1>5. trans' \in [Units -> {"new", "active", "aborted", "invalid", "committed", "undone"}]
  BY <1>t DEF Ends
<1> QED BY <1>1, <1>2, <1>3, <1>4, <1>5 DEF OthersTyped, TypeOK

\* What is kept for each unit and row stays so when one entry is replaced.
LEMMA EntryReplaced ==
  ASSUME NEW V, NEW f \in [Units -> [Rows -> V]], NEW u \in Units, NEW r \in Rows, NEW v \in V
  PROVE  [f EXCEPT ![u][r] = v] \in [Units -> [Rows -> V]]
OBVIOUS

\* Every step keeps the types.
LEMMA TypeStep == ASSUME TypeOK, [Next]_vars PROVE TypeOK'
<1>t. OthersTyped
  BY DEF OthersTyped, TypeOK
<1>0. CASE UNCHANGED vars
  BY <1>0 DEF vars, TypeOK
<1>1. ASSUME NEW u \in Units, Method(u) PROVE TypeOK'
  <2>1. PICK o \in Ops \ {"none", "commit"}, S \in SUBSET Rows, w \in [Rows -> Works] :
          /\ Call(u, o, S, w)
          /\ seen' \in [Units -> [Rows -> Units \cup {Initial, Unread}]]
    BY <1>1, MethodShape
  <2>2. brk' \in Breaker /\ calls' \in 0..MaxCalls
    BY <2>1, BreakerTypes, RepositoryAssumption DEF Call, TypeOK
  <2> QED BY <2>1, <2>2 DEF Call, TypeOK
<1>2. ASSUME NEW u \in Units, Reads(u) PROVE TypeOK'
  <2>1. \A q \in Rows : Copy(q) \in Units \cup {Initial, Unread}
    BY DEF Copy, TypeOK, Tags
  <2>2. seen' \in [Units -> [Rows -> Units \cup {Initial, Unread}]]
    <3> DEFINE copies == [q \in Rows |-> IF q \in todo[u] /\ ~Loaded(u, q) THEN Copy(q) ELSE seen[u][q]]
    <3>1. seen \in [Units -> [Rows -> Units \cup {Initial, Unread}]]
      BY DEF TypeOK
    <3>2. copies \in [Rows -> Units \cup {Initial, Unread}]
      BY <2>1, <3>1
    <3>3. seen' = [seen EXCEPT ![u] = copies]
      BY <1>2, <3>1 DEF Reads
    <3> HIDE DEF copies
    <3> QED BY <3>1, <3>2, <3>3
  <2>3. trans' \in [Units -> {"new", "active", "aborted", "invalid", "committed", "undone"}]
        /\ todo' \in [Units -> SUBSET Rows]
    BY <1>2 DEF Reads, Begun, TypeOK
  <2> QED BY <1>2, <2>2, <2>3 DEF Reads, TypeOK
<1>3. ASSUME NEW u \in Units, NEW r \in Rows, ReadsLocked(u, r) PROVE TypeOK'
  <2>0. todo' \in [Units -> SUBSET Rows]
    BY <1>3 DEF ReadsLocked, Visited, TypeOK
  <2>1. owner' \in [Rows -> Units \cup {Nobody}]
    <3>1. owner \in [Rows -> Units \cup {Nobody}]
      BY DEF TypeOK
    <3>2. owner' = owner \/ owner' = [owner EXCEPT ![r] = u]
      BY <1>3 DEF ReadsLocked, Locked
    <3> QED BY <3>1, <3>2
  <2>2. trans' \in [Units -> {"new", "active", "aborted", "invalid", "committed", "undone"}]
    BY <1>3 DEF ReadsLocked, Begun, TypeOK
  <2>3. seen' \in [Units -> [Rows -> Units \cup {Initial, Unread}]]
    <3>t. seen \in [Units -> [Rows -> Units \cup {Initial, Unread}]]
      BY DEF TypeOK
    <3>1. row[r] # Absent => row[r] \in Units \cup {Initial, Unread}
      BY DEF TypeOK, Tags
    <3>2. seen' = seen \/ (row[r] # Absent /\ seen' = [seen EXCEPT ![u][r] = row[r]])
      BY <1>3 DEF ReadsLocked
    <3> DEFINE version == row[r]
    <3>3. ASSUME row[r] # Absent PROVE [seen EXCEPT ![u][r] = version] \in [Units -> [Rows -> Units \cup {Initial, Unread}]]
      <4>1. version \in Units \cup {Initial, Unread}
        BY <3>1, <3>3
      <4> HIDE DEF version
      <4> QED BY <4>1, <3>t, EntryReplaced
    <3> QED BY <3>2, <3>3, <3>t
  <2>4. safe' \in [Units -> SUBSET Rows]
    <3>1. safe \in [Units -> SUBSET Rows]
      BY DEF TypeOK
    <3> QED BY <1>3, <3>1 DEF ReadsLocked
  <2> QED BY <1>3, <2>0, <2>1, <2>2, <2>3, <2>4 DEF ReadsLocked, TypeOK
<1>4. ASSUME NEW u \in Units, NEW r \in Rows, SkipsLocked(u, r) PROVE TypeOK'
  BY <1>4 DEF SkipsLocked, Visited, Begun, TypeOK
<1>5. ASSUME NEW u \in Units, NEW r \in Rows, LocksForDomain(u, r) PROVE TypeOK'
  <2>1. trans' \in [Units -> {"new", "active", "aborted", "invalid", "committed", "undone"}]
    BY <1>5 DEF LocksForDomain, Begun, TypeOK
  <2>2. PICK flush \in BOOLEAN :
          \/ op' = op /\ todo' = [todo EXCEPT ![u] = {}] /\ UNCHANGED <<owner, work>>
          \/ /\ Locked(u, r)
             /\ work' = [work EXCEPT ![u][r] = "update"]
             /\ op' = [op EXCEPT ![u] = "flush"]
             /\ todo' = [todo EXCEPT ![u] = IF flush THEN {r} \cup PendingRows(u) ELSE {}]
    BY <1>5 DEF LocksForDomain
  <2>3. "update" \in Works /\ "flush" \in Ops /\ {r} \cup PendingRows(u) \in SUBSET Rows
    BY DEF Works, Ops, PendingRows
  <2>t. /\ owner \in [Rows -> Units \cup {Nobody}] /\ work \in [Units -> [Rows -> Works]]
        /\ op \in [Units -> Ops] /\ todo \in [Units -> SUBSET Rows]
    BY DEF TypeOK
  <2>4. owner' \in [Rows -> Units \cup {Nobody}] /\ work' \in [Units -> [Rows -> Works]]
    <3>1. [work EXCEPT ![u][r] = "update"] \in [Units -> [Rows -> Works]]
      BY <2>3, <2>t, EntryReplaced
    <3>2. [owner EXCEPT ![r] = u] \in [Rows -> Units \cup {Nobody}]
      BY <2>t
    <3> QED BY <2>2, <2>t, <3>1, <3>2 DEF Locked
  <2>5. op' \in [Units -> Ops]
    BY <2>2, <2>3, <2>t
  <2>6. todo' \in [Units -> SUBSET Rows]
    <3> DEFINE next == IF flush THEN {r} \cup PendingRows(u) ELSE {}
    <3>1. next \in SUBSET Rows
      BY <2>3
    <3> HIDE DEF next
    <3>2. todo' = [todo EXCEPT ![u] = {}] \/ todo' = [todo EXCEPT ![u] = next]
      BY <2>2 DEF next
    <3> QED BY <3>1, <3>2, <2>t
  <2> QED BY <1>5, <2>1, <2>4, <2>5, <2>6 DEF LocksForDomain, TypeOK
<1>m. ASSUME NEW u \in Units, NEW r \in Rows, Merges(u, r) PROVE TypeOK'
  <2> DEFINE kind == IF row[r] = Absent THEN "insert" ELSE "update"
             found == Copy(r)
  <2>t. /\ work \in [Units -> [Rows -> Works]] /\ seen \in [Units -> [Rows -> Units \cup {Initial, Unread}]]
        /\ op \in [Units -> Ops] /\ todo \in [Units -> SUBSET Rows]
    BY DEF TypeOK
  <2>1. kind \in Works /\ "flush" \in Ops /\ {r} \cup PendingRows(u) \in SUBSET Rows
    BY DEF Works, Ops, PendingRows
  <2>2. found \in Units \cup {Initial, Unread}
    BY DEF Copy, TypeOK, Tags
  <2>3. /\ seen' = [seen EXCEPT ![u][r] = found] /\ work' = [work EXCEPT ![u][r] = kind]
        /\ op' = [op EXCEPT ![u] = "flush"]
    BY <1>m DEF Merges
  <2> HIDE DEF kind, found
  <2>4. work' \in [Units -> [Rows -> Works]]
    BY <2>t, <2>1, <2>3, EntryReplaced
  <2>5. seen' \in [Units -> [Rows -> Units \cup {Initial, Unread}]]
    BY <2>t, <2>2, <2>3, EntryReplaced
  <2>6. op' \in [Units -> Ops]
    BY <2>t, <2>1, <2>3
  <2>7. todo' \in [Units -> SUBSET Rows]
    <3>1. PICK S \in SUBSET Rows : todo' = [todo EXCEPT ![u] = S]
      BY <1>m, <2>1 DEF Merges
    <3> QED BY <2>t, <3>1
  <2>8. trans' \in [Units -> {"new", "active", "aborted", "invalid", "committed", "undone"}]
    BY <1>m DEF Merges, Begun, TypeOK
  <2> QED BY <1>m, <2>4, <2>5, <2>6, <2>7, <2>8 DEF Merges, TypeOK
<1>6. ASSUME NEW u \in Units, NEW r \in Rows, Flushes(u, r) PROVE TypeOK'
  BY <1>6 DEF Flushes, Visited, Begun, Locked, TypeOK, Works
<1>7. ASSUME NEW u \in Units, NEW r \in Rows, Executes(u, r) PROVE TypeOK'
  <2>1. /\ trans' \in [Units -> {"new", "active", "aborted", "invalid", "committed", "undone"}]
        /\ todo' \in [Units -> SUBSET Rows]
    BY <1>7 DEF Executes, Visited, Begun, TypeOK
  <2>2. owner' \in [Rows -> Units \cup {Nobody}]
    BY <1>7 DEF Executes, Locked, TypeOK
  <2>3. work' \in [Units -> [Rows -> Works]]
    <3>1. work' = work \/ \E w \in {"written", "deleted"} : work' = [work EXCEPT ![u][r] = w]
      BY <1>7 DEF Executes
    <3>2. {"written", "deleted"} \subseteq Works
      BY DEF Works
    <3>3. work \in [Units -> [Rows -> Works]]
      BY DEF TypeOK
    <3>4. \A w \in Works : [work EXCEPT ![u][r] = w] \in [Units -> [Rows -> Works]]
      BY <3>3, EntryReplaced
    <3> QED BY <3>1, <3>2, <3>3, <3>4
  <2> QED BY <1>7, <2>1, <2>2, <2>3 DEF Executes, TypeOK
<1>8. ASSUME NEW u \in Units, Returns(u) PROVE TypeOK'
  BY <1>8, BreakerTypes DEF Returns, TypeOK, Ops
<1>9. ASSUME NEW u \in Units, CallFails(u) PROVE TypeOK'
  <2>1. ASSUME Refused(u) PROVE TypeOK'
    <3>1. calls' \in 0..MaxCalls
      BY <2>1, RepositoryAssumption DEF Refused, TypeOK
    <3>2. CASE Leaves(u, Kind("OpenedState"), Answer(u, Translations["OpenedState"]))
      <4>1. Answer(u, Translations["OpenedState"]) \in 400..599
        BY AnswerTypes, ErrorClasses
      <4>2. Kind("OpenedState") \in {"transient", "other"}
        BY DEF Kind
      <4>3. raised' \in [Units -> {"nothing", "transient", "uncommitted", "rule", "other"}]
        BY <3>2, <4>2 DEF Leaves, TypeOK
      <4>4. OthersTyped'
        BY <2>1, <3>1, <4>3, <1>t DEF Refused, OthersTyped
      <4>5. Ends(u, "undone", Answer(u, Translations["OpenedState"]))
        BY <3>2 DEF Leaves
      <4> QED BY <4>1, <4>4, <4>5, EndsTypes
    <3> QED BY <2>1, <3>1, <3>2 DEF Refused, TypeOK
  <2>2. ASSUME NEW e \in Classes, NEW t \in {"new", "active", "aborted", "invalid"},
               Raises(u, e, t), brk' \in Breaker
        PROVE  TypeOK'
    <3>1. Answer(u, Translations[e]) \in 400..599 /\ Kind(e) \in {"transient", "other"}
      BY AnswerTypes DEF Kind
    <3>2. CASE Leaves(u, Kind(e), Answer(u, Translations[e])) /\ UNCHANGED swallowed
      <4>1. raised' \in [Units -> {"nothing", "transient", "uncommitted", "rule", "other"}]
        BY <3>1, <3>2 DEF Leaves, TypeOK
      <4>2. op' \in [Units -> Ops] /\ todo' \in [Units -> SUBSET Rows]
        BY <2>2 DEF Raises, TypeOK, Ops
      <4>3. OthersTyped'
        BY <2>2, <3>2, <4>1, <4>2, <1>t DEF Raises, OthersTyped
      <4>4. Ends(u, "undone", Answer(u, Translations[e]))
        BY <3>2 DEF Leaves
      <4> QED BY <3>1, <4>3, <4>4, EndsTypes
    <3>3. CASE /\ trans' = [trans EXCEPT ![u] = t]
               /\ owner' = IF t = "invalid" THEN Unlocked(u) ELSE owner
               /\ swallowed' = IF t \in {"new", "active"} THEN swallowed ELSE swallowed \cup {u}
               /\ UNCHANGED <<raised, reply, seen, safe, work>>
      BY <2>2, <3>3 DEF Raises, Unlocked, TypeOK, Ops
    <3> QED BY <2>2, <3>2, <3>3 DEF Raises
  <2> QED BY <1>9, <2>1, <2>2, FailureShape, ErrorClasses DEF MethodErrors
<1>10. ASSUME NEW u \in Units, End(u) PROVE TypeOK'
  <2>1. CASE Commits(u)
    BY <2>1 DEF Commits, data, PendingRows, TypeOK, Ops
  <2>2. CASE Committed(u)
    <3>1. row' \in [Rows -> Tags]
      BY <2>2 DEF Committed, TypeOK, Tags
    <3>2. op' \in [Units -> Ops]
      BY <2>2 DEF Committed, TypeOK, Ops
    <3>3. OthersTyped'
      BY <2>2, <3>1, <3>2, <1>t DEF Committed, OthersTyped
    <3>4. Ends(u, "committed", 200)
      BY <2>2 DEF Committed
    <3> QED BY <3>3, <3>4, EndsTypes
  <2>3. CASE CommitsAborted(u)
    <3>1. OthersTyped'
      BY <2>3, <1>t DEF CommitsAborted, OthersTyped
    <3>2. Ends(u, "undone", 200)
      BY <2>3 DEF CommitsAborted
    <3> QED BY <3>1, <3>2, EndsTypes
  <2>4. CASE CommitFails(u)
    <3>1. op' \in [Units -> Ops] /\ todo' \in [Units -> SUBSET Rows]
      BY <2>4 DEF CommitFails, TypeOK, Ops
    <3>2. raised' \in [Units -> {"nothing", "transient", "uncommitted", "rule", "other"}]
      BY <2>4 DEF CommitFails, Leaves, TypeOK
    <3>3. PICK e \in CommitErrors : CommitRaises(u, e) /\ Ends(u, "undone", CommitAnswer(u, e))
      BY <2>4 DEF CommitFails, Leaves
    <3>4. CommitAnswer(u, e) \in 400..599 /\ UNCHANGED <<row, swallowed, lost, brk, calls>>
      BY <2>4, <3>3, CommitAnswers DEF CommitFails
    <3>5. OthersTyped'
      BY <3>1, <3>2, <3>4, <1>t DEF OthersTyped
    <3> QED BY <3>3, <3>4, <3>5, EndsTypes
  <2>5. CASE BodyRaises(u)
    <3>1. PICK e \in {"EntityNotFoundError", "QuotaExhaustedError"} : Leaves(u, "rule", Answer(u, e))
      BY <2>5 DEF BodyRaises
    <3>2. Answer(u, e) \in 400..599
      BY AnswerTypes, ErrorClasses
    <3>3. raised' \in [Units -> {"nothing", "transient", "uncommitted", "rule", "other"}]
      BY <3>1 DEF Leaves, TypeOK
    <3>4. OthersTyped'
      BY <2>5, <3>3, <1>t DEF BodyRaises, OthersTyped
    <3>5. Ends(u, "undone", Answer(u, e))
      BY <3>1 DEF Leaves
    <3> QED BY <3>2, <3>4, <3>5, EndsTypes
  <2> QED BY <1>10, <2>1, <2>2, <2>3, <2>4, <2>5 DEF End
<1>11. ASSUME BreakerExpires PROVE TypeOK'
  BY <1>11, BreakerTypes DEF BreakerExpires, data, TypeOK
<1> QED BY <1>0, <1>1, <1>2, <1>3, <1>4, <1>5, <1>m, <1>6, <1>7, <1>8, <1>9, <1>10, <1>11 DEF Next, Visit, AllDone

-----------------------------------------------------------------------------
(* Copies, locks and lost updates *)

LockInvariant == SafeCopiesAreCurrent /\ WritersHaveLocks /\ LostStaysUnsafe

\* The end of a unit changes only rows it has written, and so has locked.
LEMMA EndsLocks ==
  ASSUME TypeOK, LockInvariant, NEW u \in Units, NEW t \in {"committed", "undone"},
         NEW status, Ends(u, t, status), lost' = lost,
         \A r \in Rows : row'[r] = row[r] \/ (Live(u) /\ work[u][r] \in {"written", "deleted"})
  PROVE  LockInvariant'
<1>0. /\ trans' = [trans EXCEPT ![u] = t] /\ safe' = [safe EXCEPT ![u] = {}]
      /\ \A v \in Units \ {u} : seen'[v] = seen[v] /\ work'[v] = work[v]
      /\ \A r \in Rows : owner[r] # u => owner'[r] = owner[r]
  BY DEF Ends, TypeOK, Unlocked
<1>1. SafeCopiesAreCurrent'
  <2> SUFFICES ASSUME NEW v \in Units, NEW r \in Rows, r \in safe'[v], Live(v)'
               PROVE  owner'[r] = v /\ seen'[v][r] = row'[r]
    BY DEF SafeCopiesAreCurrent
  <2>1. v # u /\ r \in safe[v] /\ Live(v)
    BY <1>0 DEF Live, TypeOK
  <2>2. owner[r] = v /\ seen[v][r] = row[r]
    BY <2>1 DEF LockInvariant, SafeCopiesAreCurrent
  <2>3. row'[r] = row[r]
    BY <2>1, <2>2 DEF LockInvariant, WritersHaveLocks
  <2> QED BY <1>0, <2>1, <2>2, <2>3
<1>2. WritersHaveLocks'
  <2> SUFFICES ASSUME NEW v \in Units, NEW r \in Rows, work'[v][r] \in {"written", "deleted"}, Live(v)'
               PROVE  owner'[r] = v
    BY DEF WritersHaveLocks
  <2>1. v # u /\ work[v][r] \in {"written", "deleted"} /\ Live(v)
    BY <1>0 DEF Live, TypeOK
  <2> QED BY <1>0, <2>1 DEF LockInvariant, WritersHaveLocks
<1>3. LostStaysUnsafe'
  <2> SUFFICES ASSUME NEW w \in lost
               PROVE  w[2] \notin safe'[w[1]] /\ (Running(w[1])' => work'[w[1]][w[2]] # "none")
    BY DEF LostStaysUnsafe
  <2>1. w[1] \in Units
    BY DEF TypeOK
  <2> QED BY <1>0, <2>1 DEF LockInvariant, LostStaysUnsafe, Running, TypeOK
<1> QED BY <1>1, <1>2, <1>3 DEF LockInvariant

\* A step inside a transaction that locks at most free rows, and replaces at most
\* copies that are not safe, keeps them.
LEMMA StepLocks ==
  ASSUME TypeOK, LockInvariant, row' = row, safe' = safe,
         \A w \in lost' \ lost : w[2] \notin safe[w[1]] /\ work'[w[1]][w[2]] # "none",
         \A v \in Units : Live(v)' => Live(v),
         \A v \in Units, r \in Rows : Live(v) /\ Live(v)' /\ owner[r] = v => owner'[r] = v,
         \A v \in Units, r \in Rows : seen[v][r] \in Tags => seen'[v][r] \in {seen[v][r], row[r]},
         \A v \in Units, r \in Rows :
           \/ work'[v][r] = work[v][r]
           \/ work'[v][r] \in Pending
           \/ work'[v][r] \in {"written", "deleted"} /\ owner'[r] = v,
         \A v \in Units : Running(v)' => Running(v)
  PROVE  LockInvariant'
<1>1. SafeCopiesAreCurrent'
  <2> SUFFICES ASSUME NEW v \in Units, NEW r \in Rows, r \in safe[v], Live(v)'
               PROVE  owner'[r] = v /\ seen'[v][r] = row[r]
    BY DEF SafeCopiesAreCurrent
  <2>1. owner[r] = v /\ seen[v][r] = row[r]
    BY DEF LockInvariant, SafeCopiesAreCurrent
  <2>2. row[r] \in Tags
    BY DEF TypeOK
  <2> QED BY <2>1, <2>2
<1>2. WritersHaveLocks'
  BY DEF LockInvariant, WritersHaveLocks, Pending
<1>3. LostStaysUnsafe'
  <2> SUFFICES ASSUME NEW w \in lost'
               PROVE  w[2] \notin safe[w[1]] /\ (Running(w[1])' => work'[w[1]][w[2]] # "none")
    BY DEF LostStaysUnsafe
  <2>1. CASE w \in lost
    <3>1. w[1] \in Units /\ w[2] \in Rows
      BY <2>1 DEF TypeOK
    <3> QED BY <2>1, <3>1 DEF LockInvariant, LostStaysUnsafe, Pending
  <2> QED BY <2>1 DEF LockInvariant, LostStaysUnsafe, Pending
<1> QED BY <1>1, <1>2, <1>3 DEF LockInvariant

\* Every step keeps them.
LEMMA LocksStep == ASSUME TypeOK, LockInvariant, CommitsAreSound, [Next]_vars PROVE LockInvariant'
<1>t. /\ Unread \notin Tags
      /\ trans \in [Units -> {"new", "active", "aborted", "invalid", "committed", "undone"}]
      /\ work \in [Units -> [Rows -> Works]]
      /\ seen \in [Units -> [Rows -> Units \cup {Initial, Unread}]]
      /\ owner \in [Rows -> Units \cup {Nobody}]
  BY RepositoryAssumption DEF TypeOK
<1>0. CASE UNCHANGED vars
  BY <1>0, StepLocks DEF vars, Live, Running
<1>1. ASSUME NEW u \in Units, Method(u) PROVE LockInvariant'
  <2>1. PICK o \in Ops \ {"none", "commit"}, S \in SUBSET Rows, w \in [Rows -> Works] :
          /\ Call(u, o, S, w)
          /\ \A r \in Rows : w[r] = work[u][r] \/ w[r] \in Pending
          /\ \A v \in Units, r \in Rows : Loaded(v, r) => seen'[v][r] = seen[v][r]
    BY <1>1, MethodShape
  <2>2. \A v \in Units, r \in Rows : seen[v][r] \in Tags => seen'[v][r] \in {seen[v][r], row[r]}
    BY <2>1, <1>t DEF Loaded
  <2>3. \A v \in Units, r \in Rows : work'[v][r] = work[v][r] \/ work'[v][r] \in Pending
    BY <2>1, <1>t DEF Call
  <2> QED BY <2>1, <2>2, <2>3, StepLocks DEF Call, Live, Running
<1>2. ASSUME NEW u \in Units, Reads(u) PROVE LockInvariant'
  <2>1. \A v \in Units, r \in Rows : seen[v][r] \in Tags => seen'[v][r] \in {seen[v][r], row[r]}
    BY <1>2, <1>t DEF Reads, Loaded
  <2>2. \A v \in Units : (Live(v)' => Live(v)) /\ (Running(v)' => Running(v))
    BY <1>2, <1>t DEF Reads, Visiting, Begun, Live, Running
  <2> QED BY <1>2, <2>1, <2>2, StepLocks DEF Reads
<1>3. ASSUME NEW u \in Units, NEW r \in Rows, SkipsLocked(u, r) PROVE LockInvariant'
  <2>2. \A v \in Units : (Live(v)' => Live(v)) /\ (Running(v)' => Running(v))
    BY <1>3, <1>t DEF SkipsLocked, Visiting, Begun, Live, Running
  <2> QED BY <1>3, <2>2, StepLocks DEF SkipsLocked
<1>4. ASSUME NEW u \in Units, NEW r \in Rows, ReadsLocked(u, r) PROVE LockInvariant'
  <2>1. \A v \in Units : (Live(v)' <=> Live(v)) /\ (Running(v)' => Running(v))
    BY <1>4, <1>t DEF ReadsLocked, Visiting, Begun, Live, Running
  <2>2. \A v \in Units, q \in Rows : Live(v) /\ owner[q] = v => owner'[q] = v
    BY <1>4, <1>t, RepositoryAssumption DEF ReadsLocked, Locked, Lockable
  <2>3. \A v \in Units, q \in Rows :
          /\ seen[v][q] \in Tags => seen'[v][q] \in {seen[v][q], row[q]}
          /\ q \in safe'[v] => q \in safe[v] \/ (/\ v = u /\ q = r /\ work[v][q] = "none"
                                              /\ owner'[q] = v /\ seen'[v][q] = row[q])
    BY <1>4, <1>t DEF ReadsLocked, Locked, TypeOK
  <2>4. SafeCopiesAreCurrent'
    <3> SUFFICES ASSUME NEW v \in Units, NEW q \in Rows, q \in safe'[v], Live(v)'
                 PROVE  owner'[q] = v /\ seen'[v][q] = row[q]
      BY <1>4 DEF SafeCopiesAreCurrent, ReadsLocked
    <3>1. CASE q \in safe[v]
      <4>1. owner[q] = v /\ seen[v][q] = row[q] /\ row[q] \in Tags
        BY <2>1, <3>1 DEF LockInvariant, SafeCopiesAreCurrent, TypeOK
      <4> QED BY <4>1, <2>1, <2>2, <2>3
    <3> QED BY <2>3, <3>1
  <2>5. WritersHaveLocks'
    BY <1>4, <2>1, <2>2 DEF LockInvariant, WritersHaveLocks, ReadsLocked
  <2>6. LostStaysUnsafe'
    <3> SUFFICES ASSUME NEW w \in lost
                 PROVE  w[2] \notin safe'[w[1]] /\ (Running(w[1])' => work[w[1]][w[2]] # "none")
      BY <1>4 DEF LostStaysUnsafe, ReadsLocked
    <3>1. w[1] \in Units /\ w[2] \in Rows
      BY DEF TypeOK
    <3>2. w[2] \notin safe[w[1]] /\ (Running(w[1]) => work[w[1]][w[2]] # "none")
      BY DEF LockInvariant, LostStaysUnsafe
    <3>3. Running(u)
      BY <1>4 DEF ReadsLocked, Visiting, InCall
    <3> QED BY <2>1, <2>3, <3>1, <3>2, <3>3
  <2> QED BY <2>4, <2>5, <2>6 DEF LockInvariant
<1>5. ASSUME NEW u \in Units, NEW r \in Rows, LocksForDomain(u, r) PROVE LockInvariant'
  <2>1. \A v \in Units : (Live(v)' => Live(v)) /\ (Running(v)' => Running(v))
    BY <1>5, <1>t DEF LocksForDomain, Visiting, Begun, Live, Running
  <2>2. \A v \in Units, q \in Rows : owner[q] = v => owner'[q] = v
    BY <1>5, <1>t, RepositoryAssumption DEF LocksForDomain, Locked, Lockable
  <2>3. \A v \in Units, q \in Rows : work'[v][q] = work[v][q] \/ work'[v][q] \in Pending
    BY <1>5, <1>t DEF LocksForDomain, Pending
  <2> QED BY <1>5, <2>1, <2>2, <2>3, StepLocks DEF LocksForDomain
<1>m. ASSUME NEW u \in Units, NEW r \in Rows, Merges(u, r) PROVE LockInvariant'
  <2>1. \A v \in Units : (Live(v)' => Live(v)) /\ (Running(v)' => Running(v))
    BY <1>m, <1>t DEF Merges, Visiting, Begun, Live, Running
  <2>2. \A v \in Units, q \in Rows : seen[v][q] \in Tags => seen'[v][q] = seen[v][q]
    BY <1>m, <1>t DEF Merges, Loaded
  <2>3. \A v \in Units, q \in Rows : work'[v][q] = work[v][q] \/ work'[v][q] \in Pending
    BY <1>m, <1>t DEF Merges, Pending
  <2> QED BY <1>m, <2>1, <2>2, <2>3, StepLocks DEF Merges
<1>6. ASSUME NEW u \in Units, NEW r \in Rows, Flushes(u, r) PROVE LockInvariant'
  <2>1. \A v \in Units : (Live(v)' => Live(v)) /\ (Running(v)' => Running(v))
    BY <1>6, <1>t DEF Flushes, Visiting, Begun, Live, Running
  <2>2. \A v \in Units, q \in Rows : owner[q] = v => owner'[q] = v
    BY <1>6, <1>t, RepositoryAssumption DEF Flushes, Locked, Lockable
  <2>3. /\ work'[u][r] \in {"written", "deleted"} /\ owner'[r] = u
        /\ \A v \in Units, q \in Rows : <<v, q>> # <<u, r>> => work'[v][q] = work[v][q]
    BY <1>6, <1>t DEF Flushes, Locked
  <2>4. \A w \in lost' \ lost : w = <<u, r>> /\ r \notin safe[u]
    <3>1. Live(u)
      BY <1>6 DEF Flushes, Visiting, Live
    <3> QED BY <1>6, <3>1 DEF Flushes, Overwrites, LockInvariant, SafeCopiesAreCurrent
  <2>5. \A w \in lost' \ lost : w[2] \notin safe[w[1]] /\ work'[w[1]][w[2]] # "none"
    BY <2>3, <2>4
  <2>6. \A v \in Units, q \in Rows :
          \/ work'[v][q] = work[v][q] \/ work'[v][q] \in Pending
          \/ work'[v][q] \in {"written", "deleted"} /\ owner'[q] = v
    BY <2>3
  <2> QED BY <1>6, <2>1, <2>2, <2>5, <2>6, StepLocks DEF Flushes
<1>7. ASSUME NEW u \in Units, NEW r \in Rows, Executes(u, r) PROVE LockInvariant'
  <2>1. \A v \in Units : (Live(v)' => Live(v)) /\ (Running(v)' => Running(v))
    BY <1>7, <1>t DEF Executes, Visiting, Begun, Live, Running
  <2>2. \A v \in Units, q \in Rows : owner[q] = v => owner'[q] = v
    BY <1>7, <1>t, RepositoryAssumption DEF Executes, Locked, Lockable
  <2>3. \A v \in Units, q \in Rows :
          \/ work'[v][q] = work[v][q]
          \/ work'[v][q] \in {"written", "deleted"} /\ owner'[q] = v
    BY <1>7, <1>t DEF Executes, Locked
  <2> QED BY <1>7, <2>1, <2>2, <2>3, StepLocks DEF Executes
<1>8. ASSUME NEW u \in Units, Returns(u) PROVE LockInvariant'
  BY <1>8, StepLocks DEF Returns, Live, Running
<1>9. ASSUME NEW u \in Units, CallFails(u) PROVE LockInvariant'
  <2>1. ASSUME Refused(u) PROVE LockInvariant'
    <3>1. CASE UNCHANGED <<trans, owner, raised, reply, seen, safe, work>>
      BY <2>1, <3>1, StepLocks DEF Refused, Live, Running
    <3>2. CASE Leaves(u, Kind("OpenedState"), Answer(u, Translations["OpenedState"]))
      BY <2>1, <3>2, EndsLocks DEF Refused, Leaves
    <3> QED BY <2>1, <3>1, <3>2 DEF Refused
  <2>2. ASSUME NEW e \in Classes, NEW t \in {"new", "active", "aborted", "invalid"},
               InCall(u), Raises(u, e, t),
               t \in {"new", "active"} => trans[u] = t,
               t = "aborted" => trans[u] \in {"new", "active", "aborted"}
        PROVE  LockInvariant'
    <3>1. CASE Leaves(u, Kind(e), Answer(u, Translations[e]))
      BY <2>2, <3>1, EndsLocks DEF Raises, Leaves
    <3>2. CASE /\ trans' = [trans EXCEPT ![u] = t]
               /\ owner' = IF t = "invalid" THEN Unlocked(u) ELSE owner
               /\ UNCHANGED <<raised, reply, seen, safe, work>>
      <4>1. \A v \in Units : (Live(v)' => Live(v)) /\ (Running(v)' => Running(v))
        BY <2>2, <3>2, <1>t DEF Live, Running, InCall
      <4>2. \A v \in Units, q \in Rows : Live(v)' /\ owner[q] = v => owner'[q] = v
        BY <2>2, <3>2, <1>t DEF Live, Unlocked
      <4> QED BY <2>2, <3>2, <4>1, <4>2, StepLocks DEF Raises
    <3> QED BY <2>2, <3>1, <3>2 DEF Raises
  <2> QED BY <1>9, <2>1, <2>2, FailureShape, ErrorClasses DEF MethodErrors
<1>10. ASSUME NEW u \in Units, End(u) PROVE LockInvariant'
  <2>1. CASE Commits(u)
    BY <2>1, StepLocks DEF Commits, data, Live, Running
  <2>2. CASE Committed(u)
    <3>1. Live(u)
      BY <2>2 DEF Committed, CommitsAreSound, Live
    <3>2. \A r \in Rows : row'[r] = row[r] \/ (Live(u) /\ work[u][r] \in {"written", "deleted"})
      BY <2>2, <3>1 DEF Committed
    <3> QED BY <2>2, <3>2, EndsLocks DEF Committed
  <2>3. CASE CommitsAborted(u)
    BY <2>3, EndsLocks DEF CommitsAborted
  <2>4. CASE CommitFails(u)
    BY <2>4, EndsLocks DEF CommitFails, Leaves
  <2>5. CASE BodyRaises(u)
    BY <2>5, EndsLocks DEF BodyRaises, Leaves
  <2> QED BY <1>10, <2>1, <2>2, <2>3, <2>4, <2>5 DEF End
<1>11. ASSUME BreakerExpires PROVE LockInvariant'
  BY <1>11, StepLocks DEF BreakerExpires, data, Live, Running
<1> QED BY <1>0, <1>1, <1>2, <1>3, <1>4, <1>5, <1>m, <1>6, <1>7, <1>8, <1>9, <1>10, <1>11 DEF Next, Visit, AllDone

-----------------------------------------------------------------------------
(* Commits and answers *)

Sound == CommitsAreSound /\ AllOrNothing

\* A step that leaves the state of the transactions to themselves.
LEMMA StepSound ==
  ASSUME Sound, reply' = reply, swallowed' = swallowed,
         \A u \in Units : op'[u] = "commit" => op[u] = "commit",
         \A u \in Units : \/ trans'[u] = trans[u]
                          \/ trans[u] \in {"new", "active"} /\ trans'[u] \in {"new", "active"}
  PROVE  Sound'
BY DEF Sound, CommitsAreSound, AllOrNothing, Running

\* The end of a unit is not a success it did not have.
LEMMA EndsSound ==
  ASSUME TypeOK, Sound, NEW u \in Units, NEW t \in {"committed", "undone"}, NEW status,
         Ends(u, t, status), swallowed' = swallowed, op'[u] = "none",
         \A v \in Units \ {u} : op'[v] = op[v],
         t = "committed" => u \notin swallowed,
         status = 200 => t = "committed" \/ u \in swallowed
  PROVE  Sound'
<1>1. \A v \in Units : /\ trans'[v] = IF v = u THEN t ELSE trans[v]
                       /\ reply'[v] = IF v = u THEN status ELSE reply[v]
  <2>1. DOMAIN trans = Units /\ DOMAIN reply = Units
    BY DEF TypeOK
  <2>2. trans' = [trans EXCEPT ![u] = t] /\ reply' = [reply EXCEPT ![u] = status]
    BY DEF Ends
  <2> QED BY <2>1, <2>2
<1>2. CommitsAreSound'
  <2> SUFFICES ASSUME NEW v \in Units
               PROVE  /\ op'[v] = "commit" => trans'[v] \in {"new", "active"}
                      /\ v \in swallowed => trans'[v] \in {"aborted", "invalid", "undone"}
                      /\ trans'[v] \in {"aborted", "invalid"} => v \in swallowed
                      /\ trans'[v] \notin {"committed", "undone"} => reply'[v] = 0
    BY DEF CommitsAreSound, Running
  <2>1. CASE v = u
    BY <1>1, <2>1
  <2>2. CASE v # u
    BY <1>1, <2>2 DEF Sound, CommitsAreSound, Running
  <2> QED BY <2>1, <2>2
<1>3. AllOrNothing'
  BY <1>1 DEF Sound, CommitsAreSound, AllOrNothing
<1> QED BY <1>2, <1>3 DEF Sound

\* Every step keeps it.
LEMMA SoundStep == ASSUME TypeOK, Sound, [Next]_vars PROVE Sound'
<1>t. /\ trans \in [Units -> {"new", "active", "aborted", "invalid", "committed", "undone"}]
      /\ op \in [Units -> Ops] /\ reply \in [Units -> {0, 200} \cup (400..599)]
  BY DEF TypeOK
<1>0. CASE UNCHANGED vars
  BY <1>0, StepSound DEF vars
<1>1. ASSUME NEW u \in Units, Method(u) PROVE Sound'
  <2>1. PICK o \in Ops \ {"none", "commit"}, S \in SUBSET Rows, w \in [Rows -> Works] : Call(u, o, S, w)
    BY <1>1, MethodShape
  <2>2. \A v \in Units : op'[v] = "commit" => op[v] = "commit"
    BY <2>1, <1>t DEF Call
  <2> QED BY <2>1, <2>2, StepSound DEF Call
<1>2. ASSUME NEW u \in Units, Visit(u) PROVE Sound'
  <2>1. CASE Reads(u)
    BY <2>1, <1>t, StepSound DEF Reads, Visiting, Begun
  <2>2. ASSUME NEW r \in Rows, ReadsLocked(u, r) PROVE Sound'
    BY <2>2, <1>t, StepSound DEF ReadsLocked, Visiting, Begun
  <2>3. ASSUME NEW r \in Rows, SkipsLocked(u, r) PROVE Sound'
    BY <2>3, <1>t, StepSound DEF SkipsLocked, Visiting, Begun
  <2>4. ASSUME NEW r \in Rows, LocksForDomain(u, r) PROVE Sound'
    BY <2>4, <1>t, StepSound DEF LocksForDomain, Visiting, Begun
  <2>m. ASSUME NEW r \in Rows, Merges(u, r) PROVE Sound'
    BY <2>m, <1>t, StepSound DEF Merges, Visiting, Begun
  <2>5. ASSUME NEW r \in Rows, Flushes(u, r) PROVE Sound'
    BY <2>5, <1>t, StepSound DEF Flushes, Visiting, Begun
  <2>6. ASSUME NEW r \in Rows, Executes(u, r) PROVE Sound'
    BY <2>6, <1>t, StepSound DEF Executes, Visiting, Begun
  <2> QED BY <1>2, <2>1, <2>2, <2>3, <2>4, <2>m, <2>5, <2>6 DEF Visit
<1>3. ASSUME NEW u \in Units, Returns(u) PROVE Sound'
  <2>1. \A v \in Units : op'[v] = "commit" => op[v] = "commit"
    BY <1>3, <1>t DEF Returns
  <2> QED BY <1>3, <2>1, StepSound DEF Returns
<1>4. ASSUME NEW u \in Units, CallFails(u) PROVE Sound'
  <2>1. ASSUME Refused(u) PROVE Sound'
    <3>1. CASE UNCHANGED <<trans, owner, raised, reply, seen, safe, work>>
      BY <2>1, <3>1, StepSound DEF Refused
    <3>2. CASE Leaves(u, Kind("OpenedState"), Answer(u, Translations["OpenedState"]))
      <4>1. Answer(u, Translations["OpenedState"]) # 200
        BY AnswerTypes, ErrorClasses
      <4> QED BY <2>1, <3>2, <4>1, EndsSound DEF Refused, Leaves
    <3> QED BY <2>1, <3>1, <3>2 DEF Refused
  <2>2. ASSUME NEW e \in Classes, NEW t \in {"new", "active", "aborted", "invalid"},
               InCall(u), Raises(u, e, t), t \in {"new", "active"} => trans[u] = t
        PROVE  Sound'
    <3>0. op'[u] = "none" /\ \A v \in Units \ {u} : op'[v] = op[v]
      BY <2>2, <1>t DEF Raises
    <3>1. CASE Leaves(u, Kind(e), Answer(u, Translations[e])) /\ UNCHANGED swallowed
      <4>1. Answer(u, Translations[e]) # 200
        BY AnswerTypes
      <4> QED BY <3>0, <3>1, <4>1, EndsSound DEF Leaves
    <3>2. CASE /\ trans' = [trans EXCEPT ![u] = t]
               /\ swallowed' = IF t \in {"new", "active"} THEN swallowed ELSE swallowed \cup {u}
               /\ UNCHANGED reply
      <4>1. \A v \in Units : trans'[v] = IF v = u THEN t ELSE trans[v]
        BY <3>2, <1>t
      <4>2. Running(u) /\ reply[u] = 0
        BY <2>2 DEF InCall, Sound, CommitsAreSound
      <4>3. CommitsAreSound'
        <5>1. CASE t \in {"new", "active"}
          BY <5>1, <2>2, <3>0, <3>2, <4>1, <4>2 DEF Sound, CommitsAreSound, Running
        <5>2. CASE t \in {"aborted", "invalid"}
          BY <5>2, <3>0, <3>2, <4>1, <4>2 DEF Sound, CommitsAreSound, Running
        <5> QED BY <5>1, <5>2
      <4>4. AllOrNothing'
        BY <3>2, <4>1, <4>2 DEF Sound, AllOrNothing
      <4> QED BY <4>3, <4>4 DEF Sound
    <3> QED BY <2>2, <3>1, <3>2 DEF Raises
  <2> QED BY <1>4, <2>1, <2>2, FailureShape, ErrorClasses DEF MethodErrors
<1>5. ASSUME NEW u \in Units, End(u) PROVE Sound'
  <2>1. CASE Commits(u)
    <3>1. \A v \in Units : op'[v] = IF v = u THEN "commit" ELSE op[v]
      BY <2>1, <1>t DEF Commits
    <3> QED BY <2>1, <3>1 DEF Commits, Sound, CommitsAreSound, AllOrNothing, Running
  <2>2. CASE Committed(u)
    <3>1. u \notin swallowed
      BY <2>2 DEF Committed, Sound, CommitsAreSound
    <3>2. op'[u] = "none" /\ \A v \in Units \ {u} : op'[v] = op[v]
      BY <2>2, <1>t DEF Committed
    <3> QED BY <2>2, <3>1, <3>2, EndsSound DEF Committed
  <2>3. CASE CommitsAborted(u)
    <3>1. u \in swallowed
      BY <2>3 DEF CommitsAborted, Sound, CommitsAreSound
    <3> QED BY <2>3, <3>1, EndsSound DEF CommitsAborted, InBody
  <2>4. CASE CommitFails(u)
    <3>1. op'[u] = "none" /\ \A v \in Units \ {u} : op'[v] = op[v]
      BY <2>4, <1>t DEF CommitFails
    <3>2. PICK e \in CommitErrors : CommitRaises(u, e) /\ Ends(u, "undone", CommitAnswer(u, e))
      BY <2>4 DEF CommitFails, Leaves
    <3>3. CommitAnswer(u, e) # 200
      BY <3>2, CommitAnswers
    <3> QED BY <2>4, <3>1, <3>2, <3>3, EndsSound DEF CommitFails
  <2>5. CASE BodyRaises(u)
    <3>1. PICK e \in {"EntityNotFoundError", "QuotaExhaustedError"} : Leaves(u, "rule", Answer(u, e))
      BY <2>5 DEF BodyRaises
    <3>2. Answer(u, e) # 200
      BY AnswerTypes, ErrorClasses
    <3> QED BY <2>5, <3>1, <3>2, EndsSound DEF BodyRaises, Leaves, InBody
  <2> QED BY <1>5, <2>1, <2>2, <2>3, <2>4, <2>5 DEF End
<1>6. ASSUME BreakerExpires PROVE Sound'
  BY <1>6, StepSound DEF BreakerExpires
<1> QED BY <1>0, <1>1, <1>2, <1>3, <1>4, <1>5, <1>6 DEF Next, AllDone

\* Invariant is inductive.
LEMMA StepInvariant == Invariant /\ [Next]_vars => Invariant'
BY TypeStep, LocksStep, SoundStep DEF Invariant, LockInvariant, Sound

LEMMA InvariantHolds == Spec => []Invariant
BY InitInvariant, StepInvariant, PTL DEF Spec

-----------------------------------------------------------------------------

\* The variables keep their types: in particular an answer is always a status, and
\* the failures counted by the breaker never pass the threshold.
THEOREM TypeCorrect == Spec => []TypeOK
<1>1. Invariant => TypeOK
  BY DEF Invariant
<1> QED BY <1>1, InvariantHolds, PTL

\* However units that read, lock, write, fail and are cancelled are interleaved,
\* no update is lost by one that loaded its copy of the row under the lock
\* (select_one_for_update, select_many_for_update).
THEOREM LockedReadsLoseNothing == Spec => []LostOnlyIfReadUnlocked
<1>1. Invariant => LostOnlyIfReadUnlocked
  BY DEF Invariant, LostStaysUnsafe, LostOnlyIfReadUnlocked
<1> QED BY <1>1, InvariantHolds, PTL

\* A unit in which a statement has failed is never durable, and one that is not
\* durable is answered with success only if its body caught that failure.
THEOREM UnitsAreAllOrNothing == Spec => []AllOrNothing
<1>1. Invariant => AllOrNothing
  BY DEF Invariant
<1> QED BY <1>1, InvariantHolds, PTL

-----------------------------------------------------------------------------
(* Causes of answers *)

\* What ended a unit whose client is told to come back.
Retriable(u) == IF u \in Managed THEN "uncommitted" ELSE "transient"

\* The status of a unit that is answered fits what ended it, and a unit that is not yet
\* has met nothing that could end it.
Follows(u) ==
  IF reply[u] = 0 THEN raised[u] = "nothing"
  ELSE /\ reply[u] \in {408, 503} <=> raised[u] = Retriable(u)
       /\ reply[u] \in (400..499) \ {408} => raised[u] = "rule"

AnswersFollow == \A u \in Units : Follows(u)

\* A step that answers no unit.
LEMMA StepFollows ==
  ASSUME AnswersFollow, UNCHANGED <<raised, reply>>
  PROVE  AnswersFollow'
BY DEF AnswersFollow, Follows

\* A unit ends with what its block was left with.
LEMMA LeavesFollows ==
  ASSUME TypeOK, AnswersFollow, NEW u \in Units, NEW kind, NEW status \in 400..599, Leaves(u, kind, status),
         status \in {408, 503} <=> kind = Retriable(u),
         status \in (400..499) \ {408} => kind = "rule"
  PROVE  AnswersFollow'
<1>1. \A v \in Units : /\ raised'[v] = IF v = u THEN kind ELSE raised[v]
                       /\ reply'[v] = IF v = u THEN status ELSE reply[v]
  BY DEF Leaves, Ends, TypeOK
<1>2. status # 0
  OBVIOUS
<1>3. \A v \in Units : Retriable(v)' = Retriable(v)
  BY DEF Retriable
<1> HIDE DEF Retriable
<1> QED BY <1>1, <1>2, <1>3 DEF AnswersFollow, Follows

\* A unit that ends with a COMMIT is answered with success, and met nothing before.
LEMMA CommitFollows ==
  ASSUME TypeOK, CommitsAreSound, AnswersFollow, NEW u \in Units, NEW t, Running(u), Ends(u, t, 200), raised' = raised
  PROVE  AnswersFollow'
<1>1. \A v \in Units : reply'[v] = IF v = u THEN 200 ELSE reply[v]
  BY DEF Ends, TypeOK
<1>2. raised[u] = "nothing"
  BY DEF CommitsAreSound, AnswersFollow, Follows
<1>3. \A v \in Units : Retriable(v)' = Retriable(v) /\ Retriable(v) # "nothing"
  BY DEF Retriable
<1> HIDE DEF Retriable
<1> QED BY <1>1, <1>2, <1>3 DEF AnswersFollow, Follows

\* Every step keeps it.
LEMMA FollowsStep == ASSUME TypeOK, CommitsAreSound, AnswersFollow, [Next]_vars PROVE AnswersFollow'
<1>a. \A u \in Units, e \in Classes : Answer(u, e) = IF u \in Managed THEN 500 ELSE Responses[e]
  BY AnswersOfMethods DEF Answer
<1>b. \A e \in MethodErrors \cup {"OpenedState"} :
        /\ e \in Classes /\ Translations[e] \in Classes
        /\ IF Kind(e) = "transient" THEN Responses[Translations[e]] \in {408, 503}
                                   ELSE Responses[Translations[e]] = 500
  BY AnswersOfMethods, ErrorClasses, TranslationsAreClasses DEF MethodErrors, Kind, Transient
<1>c. ASSUME NEW u \in Units, NEW e \in MethodErrors \cup {"OpenedState"},
             Leaves(u, Kind(e), Answer(u, Translations[e]))
      PROVE  AnswersFollow'
  <2> DEFINE status == Answer(u, Translations[e])
  <2>1. IF Kind(e) = "transient" /\ u \notin Managed THEN status \in {408, 503} ELSE status = 500
    BY <1>a, <1>b
  <2>2. Leaves(u, Kind(e), status)
    BY <1>c
  <2> HIDE DEF status
  <2>3. /\ status \in 400..599
        /\ status \in {408, 503} <=> Kind(e) = Retriable(u)
        /\ status \notin (400..499) \ {408}
    BY <2>1 DEF Retriable, Kind
  <2> QED BY <2>2, <2>3, LeavesFollows
<1>1. ASSUME NEW u \in Units, Method(u) PROVE AnswersFollow'
  <2>1. PICK o \in Ops \ {"none", "commit"}, S \in SUBSET Rows, w \in [Rows -> Works] : Call(u, o, S, w)
    BY <1>1, MethodShape
  <2> QED BY <2>1, StepFollows DEF Call
<1>2. ASSUME NEW u \in Units, Visit(u) \/ Returns(u) PROVE AnswersFollow'
  BY <1>2, StepFollows DEF Visit, Reads, ReadsLocked, SkipsLocked, LocksForDomain, Merges, Flushes, Executes, Returns
<1>3. ASSUME NEW u \in Units, CallFails(u) PROVE AnswersFollow'
  <2>1. CASE Refused(u)
    BY <1>c, <2>1, StepFollows DEF Refused
  <2>2. ASSUME NEW e \in MethodErrors, NEW t, Raises(u, e, t) PROVE AnswersFollow'
    BY <1>c, <2>2, StepFollows DEF Raises
  <2> QED BY <1>3, <2>1, <2>2, FailureShape
<1>4. ASSUME NEW u \in Units, End(u) PROVE AnswersFollow'
  <2>1. CASE Commits(u)
    BY <2>1, StepFollows DEF Commits
  <2>2. CASE Committed(u)
    BY <2>2, CommitFollows DEF Committed, InCall
  <2>3. CASE CommitsAborted(u)
    BY <2>3, CommitFollows DEF CommitsAborted, InBody
  <2>4. CASE CommitFails(u)
    <3>1. PICK e \in CommitErrors : /\ CommitRaises(u, e)
                                   /\ Leaves(u, IF e \in Transient THEN "uncommitted" ELSE "other", CommitAnswer(u, e))
      BY <2>4 DEF CommitFails
    <3> DEFINE kind == IF e \in Transient THEN "uncommitted" ELSE "other"
               status == CommitAnswer(u, e)
    <3>2. /\ status \in 400..599
          /\ IF e \in Transient /\ u \in Managed THEN status \in {408, 503} ELSE status = 500
      BY <3>1, CommitAnswers
    <3>3. Leaves(u, kind, status)
      BY <3>1
    <3>4. kind = IF e \in Transient THEN "uncommitted" ELSE "other"
      OBVIOUS
    <3> HIDE DEF kind, status
    <3>5. /\ status \in {408, 503} <=> kind = Retriable(u)
          /\ status \notin (400..499) \ {408}
      BY <3>2, <3>4 DEF Retriable
    <3> QED BY <3>2, <3>3, <3>5, LeavesFollows
  <2>5. CASE BodyRaises(u)
    <3>1. PICK e \in {"EntityNotFoundError", "QuotaExhaustedError"} : Leaves(u, "rule", Answer(u, e))
      BY <2>5 DEF BodyRaises
    <3>2. Answer(u, e) \in {400, 404, 500}
      BY <1>a, AnswersOfMethods, ErrorClasses
    <3>3. "rule" # Retriable(u)
      BY DEF Retriable
    <3> QED BY <3>1, <3>2, <3>3, LeavesFollows
  <2> QED BY <1>4, <2>1, <2>2, <2>3, <2>4, <2>5 DEF End
<1>5. CASE BreakerExpires \/ AllDone \/ UNCHANGED vars
  BY <1>5, StepFollows DEF BreakerExpires, AllDone, vars
<1> QED BY <1>1, <1>2, <1>3, <1>4, <1>5 DEF Next

\* A client is told to come back (408, 503) exactly if a repository method met no connection
\* or no time on a bare session, or the COMMIT of a unit of work did, and is blamed only by a rule of the domain, whatever the
\* calls before the failure did.
THEOREM AnswersHaveCauses == Spec => []AnswersMatchCauses
<1>1. Init => AnswersFollow
  BY DEF Init, AnswersFollow, Follows
<1>2. Invariant /\ AnswersFollow /\ [Next]_vars => AnswersFollow'
  BY FollowsStep DEF Invariant
<1>3. AnswersFollow => AnswersMatchCauses
  BY DEF AnswersFollow, Follows, Retriable, AnswersMatchCauses
<1> QED BY <1>1, <1>2, <1>3, InvariantHolds, PTL DEF Spec

-----------------------------------------------------------------------------
(* Who holds a lock *)

\* A lock is held by a unit whose transaction is open in the database: none is left behind
\* by a unit that has ended, was cancelled, lost its connection or failed in a flush.
LocksHaveHolders == \A r \in Rows : owner[r] # Nobody => trans[owner[r]] \in {"active", "aborted"}

\* A committed row changes only when the unit that has its lock commits.
RowsChangeUnderLock ==
  [][\A r \in Rows : row'[r] # row[r] =>
       owner[r] \in Units /\ op[owner[r]] = "commit" /\ trans'[owner[r]] = "committed"]_vars

\* A step that gives locks only to open transactions, and closes a transaction only with
\* its locks.
LEMMA HoldersKept ==
  ASSUME TypeOK, LocksHaveHolders,
         \A r \in Rows : \/ owner'[r] \in {owner[r], Nobody}
                        \/ trans'[owner'[r]] \in {"active", "aborted"},
         \A u \in Units : \/ trans[u] \in {"active", "aborted"} => trans'[u] \in {"active", "aborted"}
                         \/ \A r \in Rows : owner'[r] # u
  PROVE  LocksHaveHolders'
<1> SUFFICES ASSUME NEW r \in Rows, owner'[r] # Nobody PROVE trans'[owner'[r]] \in {"active", "aborted"}
  BY DEF LocksHaveHolders
<1>1. CASE owner'[r] = owner[r]
  <2>1. owner[r] \in Units /\ trans[owner[r]] \in {"active", "aborted"}
    BY <1>1 DEF LocksHaveHolders, TypeOK
  <2> QED BY <1>1, <2>1
<1> QED BY <1>1

\* The end of a unit releases its locks.
LEMMA EndsHolders ==
  ASSUME TypeOK, LocksHaveHolders, NEW u \in Units, NEW t, NEW status, Ends(u, t, status)
  PROVE  LocksHaveHolders'
<1>1. \A r \in Rows : owner'[r] = IF owner[r] = u THEN Nobody ELSE owner[r]
  BY DEF Ends, Unlocked
<1>2. \A r \in Rows : owner'[r] # u
  BY <1>1, RepositoryAssumption
<1>3. \A v \in Units \ {u} : trans'[v] = trans[v]
  BY DEF Ends, TypeOK
<1> QED BY <1>1, <1>2, <1>3, HoldersKept

\* Every step keeps locks with open transactions.
LEMMA HoldersStep == ASSUME TypeOK, LocksHaveHolders, [Next]_vars PROVE LocksHaveHolders'
<1>t. /\ trans \in [Units -> {"new", "active", "aborted", "invalid", "committed", "undone"}]
      /\ owner \in [Rows -> Units \cup {Nobody}]
  BY DEF TypeOK
<1>1. ASSUME NEW u \in Units, Method(u) PROVE LocksHaveHolders'
  <2>1. PICK o \in Ops \ {"none", "commit"}, S \in SUBSET Rows, w \in [Rows -> Works] : Call(u, o, S, w)
    BY <1>1, MethodShape
  <2> QED BY <2>1, HoldersKept DEF Call
<1>2. ASSUME NEW u \in Units, Visit(u) PROVE LocksHaveHolders'
  <2>1. trans' = [trans EXCEPT ![u] = "active"]
    BY <1>2 DEF Visit, Reads, ReadsLocked, SkipsLocked, LocksForDomain, Merges, Flushes, Executes, Begun
  <2>2. owner' = owner \/ \E r \in Rows : owner' = [owner EXCEPT ![r] = u]
    BY <1>2 DEF Visit, Reads, ReadsLocked, SkipsLocked, LocksForDomain, Merges, Flushes, Executes, Locked
  <2>3. \A r \in Rows : owner'[r] = owner[r] \/ owner'[r] = u
    BY <1>t, <2>2
  <2>4. \A v \in Units : trans'[v] = IF v = u THEN "active" ELSE trans[v]
    BY <1>t, <2>1
  <2> QED BY <2>3, <2>4, HoldersKept
<1>3. ASSUME NEW u \in Units, Returns(u) PROVE LocksHaveHolders'
  BY <1>3, HoldersKept DEF Returns
<1>4. ASSUME NEW u \in Units, CallFails(u) PROVE LocksHaveHolders'
  <2>1. CASE Refused(u)
    BY <2>1, EndsHolders, HoldersKept DEF Refused, Leaves
  <2>2. ASSUME NEW e \in MethodErrors, NEW t \in {"new", "active", "aborted", "invalid"},
               Raises(u, e, t), t \in {"new", "active"} => trans[u] = t
        PROVE  LocksHaveHolders'
    <3>1. CASE Leaves(u, Kind(e), Answer(u, Translations[e]))
      BY <3>1, EndsHolders DEF Leaves
    <3>2. CASE /\ trans' = [trans EXCEPT ![u] = t]
               /\ owner' = IF t = "invalid" THEN Unlocked(u) ELSE owner
      <4>1. \A v \in Units : trans'[v] = IF v = u THEN t ELSE trans[v]
        BY <1>t, <3>2
      <4>2. CASE t = "invalid"
        <5>1. \A r \in Rows : owner'[r] = IF owner[r] = u THEN Nobody ELSE owner[r]
          BY <3>2, <4>2 DEF Unlocked
        <5>2. \A r \in Rows : owner'[r] # u
          BY <5>1, RepositoryAssumption
        <5> QED BY <4>1, <5>1, <5>2, HoldersKept
      <4>3. CASE t # "invalid"
        <5>1. owner' = owner
          BY <3>2, <4>3
        <5> QED BY <2>2, <4>1, <4>3, <5>1, HoldersKept
      <4> QED BY <4>2, <4>3
    <3> QED BY <2>2, <3>1, <3>2 DEF Raises
  <2> QED BY <1>4, <2>1, <2>2, FailureShape
<1>5. ASSUME NEW u \in Units, End(u) PROVE LocksHaveHolders'
  <2>1. CASE Commits(u)
    BY <2>1, HoldersKept DEF Commits, data
  <2> QED BY <1>5, <2>1, EndsHolders DEF End, Committed, CommitsAborted, CommitFails, BodyRaises, Leaves
<1>6. CASE BreakerExpires \/ AllDone \/ UNCHANGED vars
  BY <1>6, HoldersKept DEF BreakerExpires, AllDone, vars, data
<1> QED BY <1>1, <1>2, <1>3, <1>4, <1>5, <1>6 DEF Next

\* No lock outlives the transaction of its unit, however its call failed: whoever waits for
\* a row waits for a unit that has still to end.
THEOREM LocksEndWithUnits == Spec => []LocksHaveHolders
<1>1. Init => LocksHaveHolders
  BY DEF Init, LocksHaveHolders
<1>2. Invariant /\ LocksHaveHolders /\ [Next]_vars => LocksHaveHolders'
  BY HoldersStep DEF Invariant
<1> QED BY <1>1, <1>2, InvariantHolds, PTL DEF Spec

\* Nobody writes a row without its lock: what a unit commits it has locked, and no call,
\* failure or rollback of another unit changes it.
THEOREM WritesNeedLocks == Spec => RowsChangeUnderLock
<1>1. ASSUME Invariant, [Next]_vars, NEW r \in Rows, row'[r] # row[r]
      PROVE  owner[r] \in Units /\ op[owner[r]] = "commit" /\ trans'[owner[r]] = "committed"
  <2>1. ASSUME NEW u \in Units, Committed(u)
        PROVE  owner[r] \in Units /\ op[owner[r]] = "commit" /\ trans'[owner[r]] = "committed"
    <3>1. work[u][r] \in {"written", "deleted"}
      BY <1>1, <2>1 DEF Committed
    <3>2. op[u] = "commit" /\ trans[u] \in {"new", "active"}
      BY <1>1, <2>1 DEF Committed, Invariant, CommitsAreSound
    <3>3. owner[r] = u
      BY <1>1, <3>1, <3>2 DEF Invariant, WritersHaveLocks, Live
    <3>4. trans'[u] = "committed"
      BY <1>1, <2>1 DEF Committed, Ends, Invariant, TypeOK
    <3> QED BY <3>2, <3>3, <3>4
  <2>2. ASSUME NEW u \in Units, Method(u) PROVE row' = row
    <3>1. PICK o \in Ops \ {"none", "commit"}, S \in SUBSET Rows, w \in [Rows -> Works] : Call(u, o, S, w)
      BY <1>1, <2>2, MethodShape DEF Invariant
    <3> QED BY <3>1 DEF Call
  <2>3. ASSUME NEW u \in Units, Visit(u) \/ Returns(u) PROVE row' = row
    BY <2>3 DEF Visit, Reads, ReadsLocked, SkipsLocked, LocksForDomain, Merges, Flushes, Executes, Returns
  <2>4. ASSUME NEW u \in Units, CallFails(u) PROVE row' = row
    BY <1>1, <2>4, FailureShape DEF Refused, Raises, Invariant
  <2>5. ASSUME NEW u \in Units, End(u), ~Committed(u) PROVE row' = row
    BY <2>5 DEF End, Commits, CommitsAborted, CommitFails, BodyRaises, data
  <2>6. CASE BreakerExpires \/ AllDone \/ UNCHANGED vars
    BY <1>1, <2>6 DEF BreakerExpires, AllDone, vars, data
  <2> QED BY <1>1, <2>1, <2>2, <2>3, <2>4, <2>5, <2>6 DEF Next
<1>2. Invariant /\ [Next]_vars =>
        [\A r \in Rows : row'[r] # row[r] =>
           owner[r] \in Units /\ op[owner[r]] = "commit" /\ trans'[owner[r]] = "committed"]_vars
  BY <1>1
<1> QED BY <1>2, InvariantHolds, PTL DEF Spec, RowsChangeUnderLock

-----------------------------------------------------------------------------
(* Pages *)

\* Induction over the natural numbers, for a set: one that has 0, and the successor of
\* each of its elements, has them all.
LEMMA Induction ==
  ASSUME NEW S, 0 \in S, \A n \in Nat : n \in S => n + 1 \in S
  PROVE  Nat \subseteq S
<1> DEFINE Missing == {n \in Nat : n \notin S}
<1>1. SUFFICES ASSUME Missing # {} PROVE FALSE
  OBVIOUS
<1>2. PICK m \in Missing : \A n \in Missing : m <= n
  BY <1>1, LeastElement
<1>3. m - 1 \in Nat /\ (m - 1) + 1 = m /\ ~(m <= m - 1)
  BY <1>2
<1> QED BY <1>2, <1>3

\* FlattenSeq is any function that joins the sequences one by one.
LEMMA Joined ==
  ASSUME NEW seqs, Len(seqs) \in Nat \ {0}, NEW g,
         g = [i \in 1..Len(seqs) |-> IF i = 1 THEN seqs[i] ELSE g[i - 1] \o seqs[i]]
  PROVE  FlattenSeq(seqs) = g[Len(seqs)]
<1> DEFINE f[i \in 1..Len(seqs)] == IF i = 1 THEN seqs[i] ELSE f[i - 1] \o seqs[i]
<1>1. f = [i \in 1..Len(seqs) |-> IF i = 1 THEN seqs[i] ELSE f[i - 1] \o seqs[i]]
  BY DEF f
<1>2. FlattenSeq(seqs) = f[Len(seqs)]
  BY DEF FlattenSeq, f
<1> HIDE DEF f
<1> DEFINE S == {n \in Nat : n + 1 <= Len(seqs) => f[n + 1] = g[n + 1]}
<1>3. 0 \in S
  BY <1>1
<1>4. ASSUME NEW n \in Nat, n \in S PROVE n + 1 \in S
  <2>1. ASSUME (n + 1) + 1 <= Len(seqs) PROVE f[(n + 1) + 1] = g[(n + 1) + 1]
    <3>1. n + 1 \in 1..Len(seqs) /\ (n + 1) + 1 \in 1..Len(seqs) /\ (n + 1) + 1 # 1 /\ ((n + 1) + 1) - 1 = n + 1
      BY <2>1
    <3>2. f[(n + 1) + 1] = f[n + 1] \o seqs[(n + 1) + 1] /\ g[(n + 1) + 1] = g[n + 1] \o seqs[(n + 1) + 1]
      <4> DEFINE m == (n + 1) + 1
      <4>1. m \in 1..Len(seqs) /\ m # 1 /\ m - 1 = n + 1
        BY <3>1
      <4> HIDE DEF m
      <4>2. f[m] = f[m - 1] \o seqs[m] /\ g[m] = g[m - 1] \o seqs[m]
        BY <1>1, <4>1
      <4> QED BY <4>1, <4>2 DEF m
    <3>3. n + 1 <= Len(seqs)
      BY <2>1
    <3>4. f[n + 1] = g[n + 1]
      BY <1>4, <3>3
    <3> QED BY <3>2, <3>4
  <2>2. n + 1 \in Nat
    OBVIOUS
  <2> QED BY <2>1, <2>2
<1> HIDE DEF S
<1>5. Nat \subseteq S
  BY <1>3, <1>4, Induction
<1>6. Len(seqs) - 1 \in Nat /\ (Len(seqs) - 1) + 1 = Len(seqs)
  OBVIOUS
<1>7. Len(seqs) - 1 \in S => f[Len(seqs)] = g[Len(seqs)]
  <2> DEFINE l == Len(seqs) - 1
  <2>1. l \in Nat /\ l + 1 = Len(seqs) /\ l + 1 <= Len(seqs)
    BY <1>6
  <2> HIDE DEF l
  <2>2. l \in S => f[l + 1] = g[l + 1]
    BY <2>1 DEF S
  <2> QED BY <2>1, <2>2 DEF l
<1> QED BY <1>2, <1>5, <1>6, <1>7

\* Multiples grow with what is multiplied.
LEMMA Multiples ==
  ASSUME NEW a \in Nat, NEW b \in Nat, NEW s \in Nat, a <= b
  PROVE  a * s <= b * s /\ a * s \in Nat /\ b * s \in Nat /\ (a + 1) * s = a * s + s
<1>1. PICK k \in Nat : b = a + k
  BY b - a \in Nat
<1>2. (a + k) * s = a * s + k * s /\ a * s \in Nat /\ k * s \in Nat /\ (a + 1) * s = a * s + s
  OBVIOUS
<1> QED BY <1>1, <1>2

\* A quotient is the last multiple that is not above the dividend.
LEMMA Division ==
  ASSUME NEW n \in Nat, NEW s \in Nat \ {0}
  PROVE  n \div s \in Nat /\ (n \div s) * s <= n /\ n < (n \div s) * s + s
<1>1. n = (n \div s) * s + (n % s) /\ n % s \in 0..(s - 1) /\ n \div s \in Nat
  OBVIOUS
<1> QED BY <1>1

\* There is a next page exactly if the pages up to this one do not have all rows, whether
\* the number of pages is the repository's or that of the metadata of the response.
LEMMA LastPage ==
  ASSUME NEW total \in Nat, NEW size \in Nat \ {0}
  PROVE  /\ TotalPages(total, size) \in 1..(total + 1)
         /\ \A p \in Nat \ {0} : p < TotalPages(total, size) <=> p * size < total
         /\ \A p \in Nat \ {0} : p < (total + size - 1) \div size <=> p * size < total
<1> DEFINE pages == (total + size - 1) \div size
<1>1. /\ pages \in Nat /\ pages * size <= total + size - 1
      /\ total + size - 1 < pages * size + size
  <2>1. total + size - 1 \in Nat
    OBVIOUS
  <2> QED BY <2>1, Division
<1> HIDE DEF pages
<1>2. ASSUME NEW p \in Nat \ {0} PROVE p < pages <=> p * size < total
  <2>1. p * size \in Nat /\ pages * size \in Nat
    BY <1>1
  <2>2. p + 1 <= pages => p * size + size <= pages * size
    BY <1>1, Multiples
  <2>3. pages <= p => pages * size <= p * size
    BY <1>1, Multiples
  <2> QED BY <1>1, <2>1, <2>2, <2>3
<1>3. total = 0 => pages = 0
  <2>1. CASE total = 0 /\ 1 <= pages
    <3>1. 1 * size <= pages * size /\ pages * size \in Nat
      BY <1>1, <2>1, Multiples
    <3> QED BY <1>1, <2>1, <3>1
  <2> QED BY <1>1, <2>1
<1>4. total # 0 => pages # 0
  BY <1>1
<1>5. pages <= total + 1
  <2>1. CASE total + 1 < pages
    <3>1. (total + 1) * size < total
      BY <1>2, <2>1
    <3>2. (total + 1) * size = total * size + size /\ total * size \in Nat
      OBVIOUS
    <3>3. total * 1 <= total * size
      BY Multiples
    <3> QED BY <3>1, <3>2, <3>3
  <2> QED BY <1>1, <2>1
<1>6. TotalPages(total, size) = IF total > 0 THEN pages ELSE 1
  BY DEF TotalPages, pages
<1>7. \A p \in Nat \ {0} : p * size \in Nat
  OBVIOUS
<1>8. ASSUME NEW p \in Nat \ {0} PROVE p < TotalPages(total, size) <=> p * size < total
  BY <1>2, <1>3, <1>6, <1>7
<1>9. TotalPages(total, size) \in 1..(total + 1)
  BY <1>1, <1>3, <1>4, <1>5, <1>6
<1> QED BY <1>2, <1>8, <1>9 DEF pages

\* The numbers from one to the other, in their order.
Numbers(from, to) == [i \in 1..(to - from) |-> from + i]

\* Not more than all of them.
Upto(total, n) == IF n < total THEN n ELSE total

\* LIMIT and OFFSET select consecutive rows.
LEMMA Windows ==
  ASSUME NEW total \in Nat, NEW limit \in Nat, NEW offset \in Nat, offset <= total
  PROVE  Window([i \in 1..total |-> i], limit, offset) = Numbers(offset, Upto(total, offset + limit))
<1> DEFINE listing == [i \in 1..total |-> i]
           to == Upto(total, offset + limit)
<1>1. listing \in Seq(Nat) /\ Len(listing) = total
  OBVIOUS
<1>2. to \in Nat /\ offset <= to /\ to <= total
  BY DEF Upto
<1>3. \A i \in 1..(to - offset) : listing[offset + i] = offset + i
  BY <1>2
<1>4. Window(listing, limit, offset) = SubSeq(listing, offset + 1, to)
  BY <1>1 DEF Window, Upto
<1> HIDE DEF listing, to
<1>5. SubSeq(listing, offset + 1, to) = [i \in 1..(to - offset) |-> listing[offset + i]]
  BY <1>1, <1>2
<1>6. SubSeq(listing, offset + 1, to) = Numbers(offset, to)
  BY <1>3, <1>5 DEF Numbers
<1> QED BY <1>4, <1>6 DEF listing, to

\* A listing, whose rows are told apart by their places.
Listing(total) == [i \in 1..total |-> i]

\* A page goes on where the pages before it end, and is empty only if all are.
LEMMA Pages ==
  ASSUME NEW total \in Nat, NEW size \in Nat \ {0}, NEW page \in 1..TotalPages(total, size)
  PROVE  /\ (page - 1) * size \in Nat /\ page * size = (page - 1) * size + size
         /\ (page - 1) * size <= total /\ (page > 1 => (page - 1) * size < total)
         /\ PageWithMetadata(Listing(total), size, page).items
              = Numbers((page - 1) * size, Upto(total, page * size))
         /\ PageWithMetadata(Listing(total), size, page).has_next = (page * size < total)
         /\ PageWithMetadata(Listing(total), size, page).has_previous = (page > 1)
<1>0. TotalPages(total, size) \in 1..(total + 1)
  BY LastPage
<1>1. page \in Nat \ {0} /\ page - 1 \in Nat /\ (page - 1) + 1 = page /\ TotalPages(total, size) \in Nat
  BY <1>0
<1>2. page * size = (page - 1) * size + size /\ (page - 1) * size \in Nat
  <2> DEFINE q == page - 1
  <2>1. q \in Nat /\ q + 1 = page
    BY <1>1
  <2> HIDE DEF q
  <2>2. (q + 1) * size = q * size + size /\ q * size \in Nat
    BY <2>1, Multiples
  <2> QED BY <2>1, <2>2 DEF q
<1>3. page > 1 => (page - 1) * size < total
  <2>1. page > 1 => page - 1 \in Nat \ {0} /\ page - 1 < TotalPages(total, size)
    BY <1>1
  <2> QED BY <2>1, LastPage
<1>4. page = 1 => (page - 1) * size = 0
  <2>1. 0 * size = 0
    OBVIOUS
  <2> QED BY <2>1
<1>5. (page - 1) * size <= total
  BY <1>1, <1>2, <1>3, <1>4
<1>6. Len(Listing(total)) = total
  BY DEF Listing
<1>7. Window(Listing(total), size, (page - 1) * size)
        = Numbers((page - 1) * size, Upto(total, page * size))
  <2> DEFINE offset == (page - 1) * size
  <2>1. offset \in Nat /\ offset <= total /\ offset + size = page * size
    BY <1>2, <1>5
  <2> HIDE DEF offset
  <2>2. Window(Listing(total), size, offset) = Numbers(offset, Upto(total, offset + size))
    BY <2>1, Windows DEF Listing
  <2> QED BY <2>1, <2>2 DEF offset
<1>8. page < TotalPages(total, size) <=> page * size < total
  BY <1>1, LastPage
<1> QED BY <1>2, <1>3, <1>5, <1>6, <1>7, <1>8 DEF PageWithMetadata

\* How many they are.
LEMMA NumbersCounted ==
  ASSUME NEW a \in Nat, NEW b \in Nat, a <= b
  PROVE  Numbers(a, b) \in Seq(Nat) /\ Len(Numbers(a, b)) = b - a
<1>1. b - a \in Nat /\ \A i \in 1..(b - a) : a + i \in Nat
  OBVIOUS
<1> QED BY <1>1 DEF Numbers

\* Consecutive numbers joined.
LEMMA Concatenation ==
  ASSUME NEW a \in Nat, NEW b \in Nat, a <= b
  PROVE  Numbers(0, a) \o Numbers(a, b) = Numbers(0, b)
<1>1. Len(Numbers(0, a)) = a /\ Len(Numbers(a, b)) = b - a
  BY NumbersCounted
<1>2. Numbers(0, a) \in Seq(Nat) /\ Numbers(a, b) \in Seq(Nat)
  BY NumbersCounted
<1>3. /\ Numbers(0, a) \o Numbers(a, b) \in Seq(Nat)
      /\ Len(Numbers(0, a) \o Numbers(a, b)) = b
      /\ \A i \in 1..b : (Numbers(0, a) \o Numbers(a, b))[i]
           = IF i <= a THEN Numbers(0, a)[i] ELSE Numbers(a, b)[i - a]
  BY <1>1, <1>2, ConcatProperties
<1>4. \A i \in 1..b : (IF i <= a THEN Numbers(0, a)[i] ELSE Numbers(a, b)[i - a]) = i
  BY DEF Numbers
<1>5. /\ Numbers(0, b) \in Seq(Nat) /\ Len(Numbers(0, b)) = b
      /\ \A i \in 1..b : Numbers(0, b)[i] = i
  BY DEF Numbers
<1> QED BY <1>3, <1>4, <1>5, SeqEqual

\* The pages joined are the listing.
LEMMA AllRead ==
  ASSUME NEW total \in Nat, NEW size \in Nat \ {0}
  PROVE  FlattenSeq([p \in 1..TotalPages(total, size) |-> PageWithMetadata(Listing(total), size, p).items])
           = Listing(total)
<1> DEFINE pages == TotalPages(total, size)
           items == [p \in 1..pages |-> PageWithMetadata(Listing(total), size, p).items]
           read == [p \in 1..pages |-> Numbers(0, Upto(total, p * size))]
<1>1. pages \in Nat \ {0} /\ ~(pages * size < total)
  <2>1. pages \in Nat \ {0}
    BY LastPage
  <2>2. \A p \in Nat \ {0} : p * size < total => p < pages
    BY LastPage
  <2> HIDE DEF pages, items, read
  <2> QED BY <2>1, <2>2
<1>2. Len(items) = pages
  BY <1>1
<1>3. ASSUME NEW p \in 1..pages
      PROVE  read[p] = IF p = 1 THEN items[p] ELSE read[p - 1] \o items[p]
  <2>1. /\ (p - 1) * size \in Nat /\ p * size = (p - 1) * size + size
        /\ (p - 1) * size <= total
        /\ (p > 1 => (p - 1) * size < total)
        /\ items[p] = Numbers((p - 1) * size, Upto(total, p * size))
    BY Pages
  <2>2. CASE p = 1
    <3>1. (p - 1) * size = 0
      <4>1. 0 * size = 0
        OBVIOUS
      <4> QED BY <2>2, <4>1
    <3> QED BY <2>1, <2>2, <3>1
  <2>3. CASE p # 1
    <3>1. p > 1 /\ p - 1 \in 1..pages
      BY <1>1, <2>3
    <3>2. Upto(total, (p - 1) * size) = (p - 1) * size
      BY <2>1, <3>1 DEF Upto
    <3>3. /\ Upto(total, p * size) \in Nat
          /\ (p - 1) * size <= Upto(total, p * size)
      BY <2>1 DEF Upto
    <3>4. read[p - 1] = Numbers(0, (p - 1) * size)
      BY <3>1, <3>2
    <3>5. read[p - 1] \o items[p] = Numbers(0, Upto(total, p * size))
      BY <2>1, <3>3, <3>4, Concatenation
    <3> QED BY <2>3, <3>5
  <2> QED BY <2>2, <2>3
<1>4. read = [p \in 1..pages |-> read[p]]
  OBVIOUS
<1>5. read[pages] = Listing(total)
  <2>1. pages * size \in Nat
    BY <1>1, Multiples
  <2>3. Upto(total, pages * size) = total
    BY <1>1, <2>1 DEF Upto
  <2>4. total - 0 = total /\ \A i \in 1..total : 0 + i = i
    OBVIOUS
  <2>5. Numbers(0, total) = Listing(total)
    BY <2>4 DEF Numbers, Listing
  <2> QED BY <1>1, <2>3, <2>5
<1> HIDE DEF pages, items, read
<1>6. read = [p \in 1..Len(items) |-> IF p = 1 THEN items[p] ELSE read[p - 1] \o items[p]]
  BY <1>2, <1>3, <1>4
<1>7. FlattenSeq(items) = read[Len(items)]
  BY <1>1, <1>2, <1>6, Joined
<1> QED BY <1>2, <1>5, <1>7 DEF pages, items

\* Whoever goes on as long as has_next says so stops at the last page.
LEMMA LastIsLast ==
  ASSUME NEW total \in Nat, NEW size \in Nat \ {0}
  PROVE  TotalPages(total, size)
           = CHOOSE p \in 1..(total + 1) :
               /\ ~PageWithMetadata(Listing(total), size, p).has_next
               /\ \A q \in 1..(p - 1) : PageWithMetadata(Listing(total), size, q).has_next
<1> DEFINE pages == TotalPages(total, size)
           More(p) == PageWithMetadata(Listing(total), size, p).has_next
<1>1. pages \in 1..(total + 1)
  BY LastPage
<1>2. ASSUME NEW p \in Nat PROVE More(p) <=> p < pages
  <2>1. Len(Listing(total)) = total
    BY DEF Listing
  <2> QED BY <2>1 DEF PageWithMetadata
<1> HIDE DEF pages, More
<1>3. ~More(pages) /\ \A q \in 1..(pages - 1) : More(q)
  BY <1>1, <1>2
<1>4. ASSUME NEW p \in 1..(total + 1), ~More(p), \A q \in 1..(p - 1) : More(q) PROVE p = pages
  <2>1. pages <= p
    BY <1>1, <1>2, <1>4
  <2>2. p - 1 # 0 => p - 1 \in 1..(p - 1) /\ p - 1 \in Nat
    OBVIOUS
  <2>3. p - 1 # 0 => p - 1 < pages
    BY <1>2, <1>4, <2>2
  <2> QED BY <1>1, <2>1, <2>3
<1>5. pages = CHOOSE p \in 1..(total + 1) : ~More(p) /\ \A q \in 1..(p - 1) : More(q)
  BY <1>1, <1>3, <1>4
<1> QED BY <1>5 DEF pages, More

\* The variant that fetches one row more than the page returns the same page.
LEMMA FastAgrees ==
  ASSUME NEW total \in Nat, NEW size \in Nat \ {0}, NEW page \in 1..TotalPages(total, size)
  PROVE  PageFast(Listing(total), size, page)
           = [items        |-> PageWithMetadata(Listing(total), size, page).items,
              has_next     |-> PageWithMetadata(Listing(total), size, page).has_next,
              has_previous |-> PageWithMetadata(Listing(total), size, page).has_previous]
<1> DEFINE offset == (page - 1) * size
           read == page * size
           fetched == Window(Listing(total), size + 1, offset)
<1>1. /\ offset \in Nat /\ read = offset + size /\ offset <= total
      /\ PageWithMetadata(Listing(total), size, page).items = Numbers(offset, Upto(total, read))
      /\ PageWithMetadata(Listing(total), size, page).has_next = (read < total)
      /\ PageWithMetadata(Listing(total), size, page).has_previous = (page > 1)
  BY Pages
<1> HIDE DEF offset, read
<1>2. fetched = Numbers(offset, Upto(total, offset + (size + 1)))
  BY <1>1, Windows DEF Listing
<1> HIDE DEF fetched
<1> DEFINE to == Upto(total, offset + (size + 1))
<1>3. /\ to \in Nat /\ offset <= to
      /\ to - offset > size <=> read < total
      /\ Upto(to - offset, size) = Upto(total, read) - offset
      /\ Upto(total, read) \in Nat /\ offset <= Upto(total, read) /\ Upto(total, read) <= to
  BY <1>1 DEF Upto
<1>4. fetched \in Seq(Nat) /\ Len(fetched) = to - offset
  <2>1. fetched = Numbers(offset, to)
    BY <1>2
  <2> HIDE DEF to
  <2> QED BY <1>1, <1>3, <2>1, NumbersCounted
<1>5. Window(fetched, size, 0) = Numbers(offset, Upto(total, read))
  <2> DEFINE n == Upto(total, read) - offset
  <2>1. n \in Nat /\ n <= to - offset /\ n = Upto(to - offset, size)
    BY <1>1, <1>3
  <2>2. Window(fetched, size, 0) = SubSeq(fetched, 1, n)
    BY <1>4, <2>1 DEF Window, Upto
  <2> HIDE DEF to
  <2>3. \A i \in 1..n : fetched[i] = offset + i
    BY <1>1, <1>2, <1>3, <2>1 DEF Numbers, to
  <2> HIDE DEF n
  <2>4. SubSeq(fetched, 1, n) = [i \in 1..n |-> fetched[i]]
    BY <1>3, <1>4, <2>1
  <2>5. SubSeq(fetched, 1, n) = [i \in 1..n |-> offset + i]
    BY <2>3, <2>4
  <2> QED BY <2>2, <2>5 DEF Numbers, n
<1> HIDE DEF to
<1>6. PageFast(Listing(total), size, page)
        = [items |-> Window(fetched, size, 0), has_next |-> Len(fetched) > size, has_previous |-> page > 1]
  BY DEF PageFast, fetched, offset
<1>7. (Len(fetched) > size) = (read < total)
  BY <1>3, <1>4
<1> QED BY <1>1, <1>5, <1>6, <1>7

\* Pages cover any listing, by pages of any size.
LEMMA ListingsCovered ==
  ASSUME NEW total \in Nat, NEW size \in Nat \ {0}
  PROVE  CoversListing(total, size)
<1> DEFINE pages == TotalPages(total, size)
           Page(p) == PageWithMetadata(Listing(total), size, p)
<1>1. pages = CHOOSE p \in 1..(total + 1) : ~Page(p).has_next /\ \A q \in 1..(p - 1) : Page(q).has_next
  BY LastIsLast
<1>2. FlattenSeq([p \in 1..pages |-> Page(p).items]) = Listing(total)
  BY AllRead
<1>3. pages \in 1..(total + 1) /\ \A p \in 1..pages : p \in Nat \ {0}
  BY LastPage
<1>4. ASSUME NEW p \in 1..pages
      PROVE  /\ p > 1 => Page(p).items # << >>
             /\ PageFast(Listing(total), size, p)
                  = [items |-> Page(p).items, has_next |-> Page(p).has_next, has_previous |-> Page(p).has_previous]
             /\ Meta(p, size, total).has_next = Page(p).has_next
             /\ Meta(p, size, total).has_prev = Page(p).has_previous
             /\ LET dtos == MapPage(Page(p), [x \in 1..total |-> -x])
                IN Len(dtos.items) = Len(Page(p).items) /\ dtos.has_next = Page(p).has_next
  <2>1. /\ (p - 1) * size \in Nat /\ p * size = (p - 1) * size + size
        /\ p > 1 => (p - 1) * size < total
        /\ Page(p).items = Numbers((p - 1) * size, Upto(total, p * size))
        /\ Page(p).has_next = (p * size < total)
        /\ Page(p).has_previous = (p > 1)
        /\ (p - 1) * size <= total
    BY Pages
  <2>2. Upto(total, p * size) \in Nat /\ (p - 1) * size <= Upto(total, p * size)
        /\ (p > 1 => (p - 1) * size < Upto(total, p * size))
    BY <2>1 DEF Upto
  <2>3. Len(Page(p).items) = Upto(total, p * size) - (p - 1) * size
    <3> DEFINE offset == (p - 1) * size
               to == Upto(total, p * size)
    <3>1. offset \in Nat /\ to \in Nat /\ offset <= to
      BY <2>1, <2>2
    <3> HIDE DEF offset, to
    <3>2. Len(Numbers(offset, to)) = to - offset
      BY <3>1, NumbersCounted
    <3> QED BY <2>1, <3>2 DEF offset, to
  <2>4. p > 1 => Page(p).items # << >>
    BY <2>1, <2>2, <2>3
  <2>5. PageFast(Listing(total), size, p)
          = [items |-> Page(p).items, has_next |-> Page(p).has_next, has_previous |-> Page(p).has_previous]
    BY FastAgrees
  <2>6. Meta(p, size, total).has_next = Page(p).has_next /\ Meta(p, size, total).has_prev = Page(p).has_previous
    <3>1. p < (total + size - 1) \div size <=> p * size < total
      BY <1>3, LastPage
    <3> QED BY <2>1, <3>1 DEF Meta
  <2>7. LET dtos == MapPage(Page(p), [x \in 1..total |-> -x])
        IN Len(dtos.items) = Len(Page(p).items) /\ dtos.has_next = Page(p).has_next
    BY <2>1, <2>3 DEF MapPage, PageWithMetadata, Numbers
  <2> QED BY <2>4, <2>5, <2>6, <2>7
<1> QED BY <1>1, <1>2, <1>4 DEF CoversListing, Listing

\* Whatever the units have written so far, the pages of a table of any size, by pages of
\* any size, are the whole table once and in order, and all ways to tell whether there is
\* a next page agree.
THEOREM PagesCover == Spec => []PagesCoverListing
<1>1. TypeOK => PagesCoverListing
  <2> SUFFICES ASSUME NEW others \in OtherRows, NEW size \in PageSizes
               PROVE  CoversListing(others + Cardinality({r \in Rows : row[r] # Absent}), size)
    BY DEF PagesCoverListing
  <2> DEFINE present == {r \in Rows : row[r] # Absent}
  <2>1. IsFiniteSet(present)
    BY PagesAssumption, FS_Subset
  <2>2. Cardinality(present) \in Nat
    BY <2>1, FS_CardinalityType
  <2>3. others + Cardinality(present) \in Nat /\ size \in Nat \ {0}
    BY <2>2, PagesAssumption
  <2> QED BY <2>3, ListingsCovered
<1> QED BY <1>1, TypeCorrect, PTL
===============================================================================
