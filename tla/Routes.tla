------------------------------- MODULE Routes -------------------------------
(***************************************************************************)
(* Which handler answers a path, and with what: the factory in main.cpp,   *)
(* the processRequest of each handler, and StaticHandler::onRequest; and   *)
(* the links and forms of the pages, which are where the paths come from.  *)
(* One browser walks through the site; other tabs of it may sign in and    *)
(* out meanwhile, and articles and files are added.                        *)
(*                                                                         *)
(* A path is the sequence of its segments: "/edit/new" is <<"edit",        *)
(* "new">>, "/" is <<"">>, and "/edit/" is <<"edit", "">>.                 *)
(***************************************************************************)
EXTENDS Naturals, Sequences, SequencesExt

CONSTANTS
    Ids,                 \* ids articles may get, as digits
    Files,               \* names uploaded files may get
    Segments,            \* what paths may consist of
    Decoded,             \* Decoded[s]: what parsePath makes of segment s,
    Refused,             \* or this, if a '%' in it is followed by no number
    Typed,               \* paths people type themselves
    SameDir,             \* uploadDest is staticBase/uploads
    MaxChanges           \* bound: times another tab signs in or out

(* The segment of "/", and the one after the slash of "/edit/".            *)
Empty == ""

(* The segments of the links, forms and redirects below.                   *)
Words == {Empty, "about", "archives", "article", "user", "login", "logout",
          "changepass", "add", "edit", "new", "savearticle", "upload",
          "viewupload", "static", "uploads"}

(* parsePath finds what the browser sent, so that from a link a space of a *)
(* name comes back, but not a '+'.  The words have nothing to decode.      *)
ASSUME DecodedAssumption ==
    /\ Refused \notin Segments
    /\ Decoded \in [Segments -> Segments \cup {Refused}]
    /\ \A w \in Words : Decoded[w] = w

ASSUME RoutesAssumption == /\ SameDir \in BOOLEAN /\ MaxChanges \in Nat
                           /\ Words \cup Ids \cup Files \subseteq Segments
                           /\ Empty \notin Ids \cup Files
                           /\ Typed \subseteq Seq(Segments)

Home == <<Empty>>
Login == <<"user", "login">>

VARIABLES
    signedIn,            \* what the next lookup of the session will find
    articles, files,     \* what there is
    asked,               \* the request: method, path, and how it came about
    answer,              \* status, page or location, and the menu shown
    changes              \* so many changes by another tab

routesVars == <<signedIn, articles, files, asked, answer, changes>>

PageNames == {"front", "archive", "article", "main", "editor", "select",
              "saved", "upload", "uploaded", "uploads", "login",
              "changepass", "add", "added", "file", "error"}

Page(name) == [status |-> 200, page |-> name, to |-> Home]
Error(status) == [status |-> status, page |-> "error", to |-> Home]
Redirect(to) == [status |-> 303, page |-> "error", to |-> to]

-----------------------------------------------------------------------------
(* The handlers.                                                           *)

(* A slash at the end is taken off, by EditHandler and UserHandler.        *)
Stripped(p) == IF Len(p) > 1 /\ Last(p) = Empty THEN Front(p) ELSE p

(* processEditArticle looks at the path as it came.                        *)
EditArticle(p) ==
    IF p = <<"edit", "article">> THEN {Page("select")}
    ELSE IF Len(p) = 3 /\ p[3] \in Ids
    THEN {IF p[3] \in articles THEN Page("editor") ELSE Error(500)}
    ELSE {Error(404)}

EditAnswers(method, p) ==
    LET q == Stripped(p)
    IN  CASE ~signedIn -> {Redirect(Login)}
          [] signedIn /\ q = <<"edit">> -> {Page("main")}
          [] signedIn /\ q = <<"edit", "new">> -> {Page("editor")}
          [] signedIn /\ q = <<"edit", "savearticle">> ->
                IF method = "POST"
                THEN {Page("saved"), Error(400), Error(401), Error(500)}
                ELSE {Error(405)}
          [] signedIn /\ IsPrefix(<<"edit", "article">>, q) -> EditArticle(p)
          [] signedIn /\ q = <<"edit", "upload">> ->
                IF method = "POST"
                THEN {Page("uploaded"), Error(400), Error(401)}
                ELSE {Page("upload")}
          [] signedIn /\ q = <<"edit", "viewupload">> ->
                {Page("uploads"), Error(500)}
          [] OTHER -> {Error(404)}

(* Mutant: nobody is asked to sign in twice.                               *)
LoginToEdit == {Redirect(<<"edit">>)}

LoginPage == {IF signedIn THEN Redirect(<<"edit">>) ELSE Page("login")}

UserAnswers(method, p) ==
    LET q == Stripped(p)
    IN  CASE q = Login -> IF method = "POST"
                          THEN {Redirect(Home), Page("login")} ELSE LoginPage
          [] q # Login /\ ~signedIn -> {Redirect(Login)}
          [] signedIn /\ q = <<"user", "logout">> -> {Redirect(Home)}
          [] signedIn /\ q = <<"user", "changepass">> ->
                IF method = "POST" THEN {Redirect(Home), Page("changepass")}
                ELSE {Page("changepass")}
          [] signedIn /\ q = <<"user", "add">> ->
                IF method = "POST" THEN {Page("added"), Error(200), Error(400)}
                ELSE {Page("add")}
          [] OTHER -> {Error(404)}

(* Mutant: staticBase for both directories.                                *)
StaticOnly(p) == /\ p[1] = "static" /\ SameDir
                 /\ Len(p) = 3 /\ p[2] = "uploads" /\ p[3] \in files

(* uploads/x is the file x of uploadDest; static/uploads/x is uploads/x of *)
(* staticBase.                                                             *)
Exists(p) == \/ p[1] = "uploads" /\ Len(p) = 2 /\ p[2] \in files
             \/ p[1] = "static" /\ SameDir
                /\ Len(p) = 3 /\ p[2] = "uploads" /\ p[3] \in files

(* parsePath, which the other handlers do without.                         *)
ParsePath(p) == [i \in DOMAIN p |-> Decoded[p[i]]]

StaticAnswers(method, p) ==
    LET path == ParsePath(p)
    IN  IF method # "GET" \/ \E i \in DOMAIN p : path[i] = Refused
        THEN {Error(400)}
        ELSE IF path = <<"favicon.ico">> THEN {Page("file"), Error(404)}
        ELSE {IF Exists(path) THEN Page("file") ELSE Error(404)}

PrimaryAnswers(p) ==
    CASE p = Home -> {Page("front")}
      [] p = <<"archives">> -> {Page("archive")}
      [] Len(p) = 2 /\ p[1] = "article" /\ p[2] \in articles ->
            {Page("article")}
      [] OTHER -> {Error(404)}

IsStatic(p) == \/ p[1] \in {"static", "uploads"} /\ Len(p) > 1
               \/ p = <<"favicon.ico">>

(* MimeographerHandlerFactory::onRequest compares the first characters of  *)
(* the path, so "/users" is taken for UserHandler's.                       *)
Answers(method, p) ==
    CASE p[1] \in {"edit", "editor"} -> EditAnswers(method, p)
      [] IsStatic(p) -> StaticAnswers(method, p)
      [] p[1] \in {"user", "users"} -> UserAnswers(method, p)
      [] OTHER -> PrimaryAnswers(p)

-----------------------------------------------------------------------------
(* The pages.                                                              *)

(* buildPageHeader and its templates, for somebody signed in or not.       *)
Menu(member) ==
    {Home, <<"archives">>, <<"about">>} \cup
    IF member THEN {<<"edit", "new">>, <<"edit", "article">>,
                    <<"edit", "upload">>, <<"edit", "viewupload">>,
                    <<"user", "add">>, <<"user", "logout">>,
                    <<"user", "changepass">>}
    ELSE {Login}

(* What a page offers besides: lists of the articles as and of the files   *)
(* fs, the editor's start page, and where an uploaded file is found.       *)
ArchiveLinks(as) == {<<"article", a>> : a \in as}
SelectLinks(as) == {<<"edit", "article", a>> : a \in as}
MainLinks == {<<"edit", "new">>, <<"edit", "article">>,
              <<"edit", "upload">>, <<"edit", "viewupload">>}
ViewedLinks(fs) == {<<"static", "uploads", f>> : f \in fs}
UploadedLink(fs) == {<<"uploads", f>> : f \in fs \ files}

Content(page, as, fs) ==
    CASE page = "archive" -> ArchiveLinks(as)
      [] page = "select" -> SelectLinks(as)
      [] page = "main" -> MainLinks
      [] page = "uploads" -> ViewedLinks(fs)
      [] page = "uploaded" -> UploadedLink(fs)
      [] OTHER -> {}

(* Mutant: a file is shown within a page of the site.                      *)
EverywhereShown(a, as, fs) == Menu(signedIn) \cup Content(a.page, as, fs)

(* StaticHandler's errors have the menu too (buildPageHeader), its files   *)
(* and a redirect have none.                                               *)
Shown(a, as, fs) ==
    IF a.page = "file" \/ a.status = 303 THEN {}
    ELSE Menu(signedIn) \cup Content(a.page, as, fs)

(* Where the forms are posted to.                                          *)
EditorForm == <<"edit", "savearticle">>
UploadForm == <<"edit", "upload">>
LoginForm == Login
ChangePassForm == <<"user", "changepass">>
AddUserForm == <<"user", "add">>

Form(page) == CASE page = "editor" -> {EditorForm}
                [] page = "upload" -> {UploadForm}
                [] page = "login" -> {LoginForm}
                [] page = "changepass" -> {ChangePassForm}
                [] page = "add" -> {AddUserForm}
                [] OTHER -> {}

-----------------------------------------------------------------------------

(* The type invariant: in particular only a page offers anything.          *)
RoutesTypeOK ==
    /\ signedIn \in BOOLEAN
    /\ articles \subseteq Ids /\ files \subseteq Files
    /\ asked \in [method : {"GET", "POST"}, path : Seq(Segments),
                  how : {"link", "form", "redirect", "typed"}]
    /\ answer \in [status : {200, 303, 400, 401, 404, 405, 500},
                   page : PageNames, to : Seq(Segments),
                   links : SUBSET Seq(Segments)]
    /\ answer.page = "file" \/ answer.status = 303 => answer.links = {}
    /\ changes \in 0..MaxChanges

RoutesInit == /\ signedIn \in BOOLEAN
        /\ articles \in SUBSET Ids /\ files \in SUBSET Files
        /\ asked = [method |-> "GET", path |-> Home, how |-> "typed"]
        /\ answer = [status |-> 200, page |-> "front", to |-> Home,
                     links |-> Menu(signedIn)]
        /\ changes = 0

(* Bound: an upload succeeds only while there is a name left for it (each  *)
(* begins with a new uuid).                                                *)
Possible(a) == a.page = "uploaded" => files # Files

(* What a request does besides being answered.                             *)
Effect(method, p, a) ==
    LET q == Stripped(p)
    IN  /\ signedIn' = \/ signedIn /\ q # <<"user", "logout">>
                       \/ method = "POST" /\ q = Login /\ a.status = 303
        /\ articles' \in IF a.page = "saved"
                         THEN {articles \cup {i} : i \in Ids} ELSE {articles}
        /\ files' \in IF a.page = "uploaded"
                      THEN {files \cup {f} : f \in Files \ files} ELSE {files}

Ask(method, p, how) ==
    /\ asked' = [method |-> method, path |-> p, how |-> how]
    /\ \E a \in Answers(method, p) :
          /\ Possible(a)
          /\ Effect(method, p, a)
          /\ answer' = [status |-> a.status, page |-> a.page, to |-> a.to,
                        links |-> Shown(a, articles', files')]
    /\ UNCHANGED changes

FollowLink == /\ answer.status # 303
              /\ \E p \in answer.links : Ask("GET", p, "link")

PostForm == \E p \in Form(answer.page) : Ask("POST", p, "form")

FollowRedirect == answer.status = 303 /\ Ask("GET", answer.to, "redirect")

TypePath == \E p \in Typed : Ask("GET", p, "typed")

(* Another tab signs in or out, or the session expires.                    *)
Elsewhere == /\ changes < MaxChanges /\ changes' = changes + 1
             /\ signedIn' = ~signedIn
             /\ UNCHANGED <<articles, files, asked, answer>>

RoutesNext == FollowLink \/ PostForm \/ FollowRedirect \/ TypePath \/ Elsewhere

RoutesSpec == RoutesInit /\ [][RoutesNext]_routesVars

(* A browser follows every redirect.  That other tabs sign in and out only *)
(* so often (MaxChanges) matters: one that did so before each step could   *)
(* send this one to and fro forever.                                       *)
RoutesFairness == WF_routesVars(FollowRedirect)

RoutesFairSpec == RoutesSpec /\ RoutesFairness

-----------------------------------------------------------------------------
(* Properties.                                                             *)

(* parsePath makes of p what the name was that the link was made from.     *)
Plain(p) == \A i \in DOMAIN p : Decoded[p[i]] = p[i]

(* Nobody comes to a page that does not exist, or by the wrong method, by  *)
(* what the pages themselves offer: however old the page is, and whoever   *)
(* signed in or out meanwhile.  Not there are "About", in the menu, and    *)
(* files whose names parsePath changes or refuses, such as "a+b": the list *)
(* of the uploads links to a name as it is.                                *)
OffersAreServed ==
    asked.how # "typed" /\ asked.path # <<"about">> /\ Plain(asked.path) =>
        answer.status \notin {404, 405}

(* Redirects end: to the login page and from it back to the editor is not  *)
(* a circle.                                                               *)
RedirectsEnd == answer.status = 303 ~> answer.status # 303

=============================================================================
