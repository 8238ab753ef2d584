---------------------------- MODULE MCDatabasePull ----------------------------
(***************************************************************************)
(* Databases for DatabasePull.                                             *)
(***************************************************************************)
EXTENDS DatabasePull

Capitals ==
  [user |-> "User", role |-> "Role", post |-> "Post", node |-> "Node", id |-> "Id",
   author |-> "Author", editor |-> "Editor", email |-> "Email", title |-> "Title",
   parent |-> "Parent", made |-> "Made", at |-> "At", score |-> "Score", type |-> "Type",
   string |-> "String"]

\* names
user == <<"user">>
role == <<"role">>
post == <<"post">>
node == <<"node">>
id   == <<"id">>
author_id == <<"author", "_", "id">>
editor_id == <<"editor", "_", "id">>
parent_id == <<"parent", "_", "id">>
title     == <<"title">>
type_id   == <<"type", "_", "id">>

\* default texts
None    == << >>
Serial  == <<"nextval", "(", "'", "seq", "'", "::regclass", ")">>
Now     == <<"now", "()">>
NewUuid == <<"gen_random_uuid", "()">>
Cast(label, type) == <<"'", label, "'", type>>

Col(type, notNull, expr) == [type |-> type, notNull |-> notNull, identity |-> FALSE, expr |-> expr]

Identity(type) == [Col(type, TRUE, None) EXCEPT !.identity = TRUE]

Key(cols, target, refs, del, upd) ==
  [cols |-> cols, refTable |-> target, refCols |-> refs, onDelete |-> del, onUpdate |-> upd]

Table(cols, pk) == [cols |-> cols, pk |-> pk, uniques |-> {}, indexes |-> {}, fks |-> {}]

Users ==
  [Table(id :> Col(<<"int8">>, TRUE, Serial)
           @@ <<"email">> :> Col(<<"varchar">>, TRUE, Cast("x", "::text"))
           @@ role :> Col(role, FALSE, Cast("admin", "::role"))
           @@ <<"made", "_", "at">> :> Col(<<"timestamptz">>, TRUE, <<"CURRENT_TIMESTAMP">>),
         <<id>>)
     EXCEPT !.uniques = {<<<<"email">>>>}]

Posts ==
  [Table(id :> Col(<<"uuid">>, TRUE, NewUuid)
           @@ author_id :> Col(<<"int8">>, TRUE, None)
           @@ editor_id :> Col(<<"int8">>, FALSE, None)
           @@ title :> Col(<<"_", "text">>, FALSE, None)
           @@ <<"score">> :> Col(<<"float4">>, TRUE, <<"0">>),
         <<id>>)
     EXCEPT !.uniques = {<<author_id, title>>},
            !.indexes = {[cols |-> <<author_id>>, unique |-> FALSE],
                         [cols |-> <<editor_id>>, unique |-> TRUE]},
            !.fks = {Key(<<author_id>>, user, <<id>>, "c", "a"),
                     Key(<<editor_id>>, user, <<id>>, "n", "r")}]

\* a key of two columns into the table itself, and an index over an expression
Nodes ==
  [Table(user :> Col(<<"int4">>, TRUE, None) @@ id :> Identity(<<"int4">>)
           @@ parent_id :> Col(<<"int4">>, FALSE, None),
         <<user, id>>)
     EXCEPT !.fks = {Key(<<user, parent_id>>, node, <<user, id>>, "d", "a")},
            !.indexes = {[cols |-> <<parent_id, id>>, unique |-> TRUE],
                         [cols |-> << >>, unique |-> FALSE]}]

Roles == role :> <<<<"admin">>, <<"guest">>>>

NoKeys(t) == [t EXCEPT !.fks = {}]

Db(tables, enums) == [tables |-> tables, enums |-> enums]

Shop      == Db(user :> Users @@ post :> Posts, Roles)
PostsOnly == Db(post :> NoKeys(Posts), Roles)
Trees     == Db(node :> Nodes @@ user :> Table(id :> Identity(<<"int4">>), <<id>>), << >>)
\* the column became a date, and the type is gone
NoRoles   == Db(user :> [Users EXCEPT !.cols[role] = Col(<<"date">>, FALSE, None)]
                  @@ post :> Posts, << >>)
\* tables the generator quotes: User exists only as "User"
Quoted    == Db(<<"User">> :> Users @@ post :> NoKeys(Posts), Roles)
\* a type the mapping does not know; names the writer refuses or the parser does
Unknown   == Db(post :> Table(id :> Col(<<"inet">>, FALSE, None), << >>), << >>)
Reserved  == Db(<<"string">> :> Table(id :> Col(<<"int4">>, TRUE, None), <<id>>), << >>)
Keyword   == Db(post :> Table(<<"type">> :> Col(<<"text">>, FALSE, <<"NULL", "::text">>), << >>),
                << >>)
\* a key whose column is called type_id
Typed     == Db(user :> Table(id :> Identity(<<"int4">>), <<id>>)
                  @@ post :> [Table(type_id :> Col(<<"int4">>, TRUE, None), << >>)
                       EXCEPT !.fks = {Key(<<type_id>>, user, <<id>>, "a", "a")}], << >>)

\* defaults the writer cuts short, or that close their string
OneColumn(type, expr) == Db(post :> Table(title :> Col(type, TRUE, expr), << >>), << >>)
Tomorrow  == OneColumn(<<"timestamptz">>, <<"now", "()", "+", "'", "1 day", "'", "::interval">>)
Precise   == OneColumn(<<"timestamptz">>, <<"CURRENT_TIMESTAMP", "(", "3", ")">>)
Inches    == OneColumn(<<"text">>, <<"'", "x", "\"", "'", "::text">>)

Databases ==
  {Shop, PostsOnly, Trees, NoRoles, Quoted, Unknown, Reserved, Keyword, Typed, Tomorrow, Precise,
   Inches}
=============================================================================
