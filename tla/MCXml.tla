------------------------------- MODULE MCXml -------------------------------
(***************************************************************************)
(* Instance of the XML plugin.  A behaviour works with a tree, with the    *)
(* attributes of elements, with namespaces, with parsers, or with an XPath *)
(* context.                                                                *)
(***************************************************************************)
EXTENDS XmlTree, XmlAttributes, XmlNamespaces, XmlParsers, XPath, TLC

CONSTANTS D, E1, E2,     \* a document, elements
          I1, I2,        \* what an element has: texts, attributes, namespaces
          N1, N2         \* names of attributes

\* Contents of attributes.
MCWords == {<<>>, <<"x">>}

\* All of a kind are alike.
Alike == {a @@ b @@ c : a \in Permutations({E1, E2}), b \in Permutations({I1, I2}), c \in Permutations({N1, N2})}

VARIABLE part \* what this behaviour works with

MCInit ==
  /\ part \in {"tree", "attributes", "namespaces", "parsers", "xpath"}
  /\ TreeInit /\ AttrInit /\ NsInit /\ ParserInit /\ XPathInit
  /\ loaded = "object" => part = "parsers"

MCNext ==
  /\ UNCHANGED part
  /\ \/ part = "tree" /\ TreeNext /\ UNCHANGED <<attrVars, nsVars, parserVars, xpathVars>>
     \/ part = "attributes" /\ AttrNext /\ UNCHANGED <<treeVars, nsVars, parserVars, xpathVars>>
     \/ part = "namespaces" /\ NsNext /\ UNCHANGED <<treeVars, attrVars, parserVars, xpathVars>>
     \/ part = "parsers" /\ ParserNext /\ UNCHANGED <<treeVars, attrVars, nsVars, xpathVars>>
     \/ part = "xpath" /\ XPathNext /\ UNCHANGED <<treeVars, attrVars, nsVars, parserVars>>

MCSpec == MCInit /\ [][MCNext]_<<part, treeVars, attrVars, nsVars, parserVars, xpathVars>>
=============================================================================
