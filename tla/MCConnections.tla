---------------------------- MODULE MCConnections -----------------------------
EXTENDS Connections, TLC

CONSTANTS t1, t2

Field(categories, meta) == [categories |-> categories, meta |-> meta]
Param(identity, references) == [identity |-> identity, references |-> references]
Ref(dataset, collection, field, direction) ==
    [field |-> <<dataset, collection, field>>, direction |-> direction]

Member == [after |-> {}, fields |-> [id |-> Field({"id"}, Absent), email |-> Field({"email"}, Absent)]]
Owned == [after |-> {},
          fields |-> [id |-> Field({"id"}, Param("member_id", {Ref("shop", "order", "id", Absent)})),
                      email |-> Field({"email"}, Param("work_email", {}))]]

\* A dataset for a SaaS config, another version of it that has references and
\* identities of its own, and one for another config.
MCDocs ==
    {[key |-> "crm", after |-> {}, collections |-> [member |-> Member]],
     [key |-> "crm", after |-> {}, collections |-> [member |-> Owned]],
     [key |-> "shop", after |-> {}, collections |-> [member |-> Member, order |-> Member]]}

\* Params that meet fields of the dataset and one that does not; an endpoint that
\* the dataset lacks; an endpoint without fields; one without a read request.
MCConfigs ==
    {[key |-> "crm", connectorParams |-> {"domain"},
      endpoints |-> [member |-> [after |-> {}, grouped |-> {"email"},
                                 params |-> [email |-> Param("email", {}), limit |-> Param(Absent, {})]],
                     history |-> [after |-> {}, grouped |-> {},
                                  params |-> [id |-> Param(Absent, {Ref("crm", "member", "id", "from")})]],
                     status |-> [after |-> {}, grouped |-> {}, params |-> [limit |-> Param(Absent, {})]]]],
     [key |-> "shop", connectorParams |-> {"domain", "token"},
      endpoints |-> [order |-> [after |-> {}, grouped |-> {},
                                params |-> [id |-> Param(Absent, {Ref("crm", "member", "id", "from")})]],
                     address |-> [after |-> {<<"shop", "order">>}, grouped |-> {},
                                  params |-> [id |-> Param(Absent, {Ref("shop", "order", "id", "from")})]]]],
     [key |-> "crm", connectorParams |-> {"domain"},
      endpoints |-> [member |-> [after |-> {}, grouped |-> {}, params |-> Absent]]]}

Symmetry == Permutations({t1, t2})
===============================================================================
