------------------------------ MODULE AstSchema ------------------------------
(* The parse tree: the structs of ast/node.go with the structs they embed,   *)
(* the getters each declares and the conversion each getter makes, and the   *)
(* struct newNode makes for each kind.                                       *)
EXTENDS Shapes, TLC

AstRoots ==
  [BaseNode |-> Class(NoBase, [ID |-> ReadOnly(Num), Kind |-> ReadOnly(Enum("Kind")),
       NumChildren |-> ReadOnly(Num), SingleNodeDebugString |-> ReadOnly(Text),
       Parent |-> ReadOnly(One("Node")), IsTableExpression |-> ReadOnly(Flag),
       IsQueryExpression |-> ReadOnly(Flag), IsExpression |-> ReadOnly(Flag),
       IsType |-> ReadOnly(Flag), IsLeaf |-> ReadOnly(Flag), IsStatement |-> ReadOnly(Flag),
       IsScriptStatement |-> ReadOnly(Flag), IsLoopStatement |-> ReadOnly(Flag),
       IsSqlStatement |-> ReadOnly(Flag), IsDdlStatement |-> ReadOnly(Flag),
       IsCreateStatement |-> ReadOnly(Flag), IsAlterStatement |-> ReadOnly(Flag),
       ParseLocationRange |-> ReadOnly(Obj("ParseLocationRange")),
       LocationString |-> ReadOnly(Text)])]

QueryNodes ==
  [StatementBaseNode |-> Class("BaseNode", NoFields),
   QueryStatementNode |-> Class("StatementBaseNode", [Query |-> Child("QueryNode")]),
   QueryExpressionBaseNode |-> Class("BaseNode", [Parenthesized |-> Flag]),
   QueryNode |-> Class("QueryExpressionBaseNode", [IsNested |-> Flag, IsPivotInput |-> Flag,
       WithClause |-> Child("WithClauseNode"), QueryExpr |-> Child("QueryExpressionNode"),
       OrderBy |-> Child("OrderByNode"), LimitOffset |-> Child("LimitOffsetNode")])]

SelectNodes ==
  [SelectNode |-> Class("QueryExpressionBaseNode", [Distinct |-> Flag, Hint |-> Child("HintNode"),
       AnonymizationOptions |-> Child("OptionsListNode"), SelectAs |-> Child("SelectAsNode"),
       SelectList |-> Child("SelectListNode"), FromClause |-> Child("FromClauseNode"),
       WhereClause |-> Child("WhereClauseNode"), GroupBy |-> Child("GroupByNode"),
       Having |-> Child("HavingNode"), Qualify |-> Child("QualifyNode"),
       WindowClause |-> Child("WindowClauseNode")]),
   SelectListNode |-> Class("BaseNode", [Columns |-> Children("SelectColumnNode")]),
   SelectColumnNode |-> Class("BaseNode", [Expression |-> Unguarded("ExpressionNode"),
       Alias |-> Child("AliasNode")])]

AstLeaves ==
  [ExpressionBaseNode |-> Class("BaseNode", [Parenthesized |-> Flag,
       IsAllowedInComparison |-> ReadOnly(Flag)]),
   LeafBaseNode |-> Class("ExpressionBaseNode", [Image |-> Text]),
   IntLiteralNode |-> Class("LeafBaseNode", [IsHex |-> ReadOnly(Flag), Value |-> Text]),
   IdentifierNode |-> Class("ExpressionBaseNode", [Name |-> Text]),
   AliasNode |-> Class("BaseNode", [Identifier |-> Child("IdentifierNode"),
       Name |-> ReadOnly(Text)]),
   GeneralizedPathExpressionBaseNode |-> Class("ExpressionBaseNode", NoFields),
   PathExpressionNode |-> Class("GeneralizedPathExpressionBaseNode",
       [Names |-> Children("IdentifierNode")]),
   TableExpressionBaseNode |-> Class("BaseNode", NoFields)]

FromNodes ==
  [TablePathExpressionNode |-> Class("TableExpressionBaseNode",
       [PathExpr |-> Child("PathExpressionNode"), UnnestExpr |-> Child("UnnestExpressionNode"),
        Hint |-> Child("HintNode"), WithOffset |-> Child("WithOffsetNode"),
        PivotClause |-> Child("PivotClauseNode"), UnpivotClause |-> Child("UnpivotClauseNode"),
        ForSystemTime |-> Child("ForSystemTimeNode"), SampleClause |-> Child("SampleClauseNode"),
        Alias |-> Child("AliasNode")]),
   FromClauseNode |-> Class("BaseNode", [TableExpression |-> Unguarded("TableExpressionNode")]),
   WhereClauseNode |-> Class("BaseNode", [Expression |-> Unguarded("ExpressionNode")]),
   BooleanLiteralNode |-> Class("LeafBaseNode", [Value |-> Flag]),
   AndExprNode |-> Class("ExpressionBaseNode", [Conjuncts |-> Children("ExpressionNode")])]

BinaryExprs ==
  [BinaryExpressionNode |-> Class("ExpressionBaseNode", [Op |-> Enum("BinaryOp"), IsNot |-> Flag,
       Lhs |-> Unguarded("ExpressionNode"), Rhs |-> Unguarded("ExpressionNode"),
       SQLForOperator |-> ReadOnly(Text)]),
   StringLiteralNode |-> Class("LeafBaseNode", [Value |-> Text]),
   StarNode |-> Class("LeafBaseNode", NoFields),
   OrExprNode |-> Class("ExpressionBaseNode", [Disjuncts |-> Children("ExpressionNode")]),
   GroupingItemNode |-> Class("BaseNode", [Expression |-> Child("ExpressionNode"),
       Rollup |-> Child("RollupNode")]),
   GroupByNode |-> Class("BaseNode", [Hint |-> Child("HintNode"),
       GroupingItems |-> Children("GroupingItemNode")])]

OrderingExprs ==
  [OrderingExpressionNode |-> Class("BaseNode", [OrderingSpec |-> Enum("OrderingSpec"),
       Expression |-> Child("ExpressionNode"), Collate |-> Child("CollateNode"),
       NullOrder |-> Child("NullOrderNode")]),
   OrderByNode |-> Class("BaseNode", [Hint |-> Child("HintNode"),
       OrderingExpressions |-> Children("OrderingExpressionNode")]),
   LimitOffsetNode |-> Class("BaseNode", [Limit |-> Child("ExpressionNode"),
       Offset |-> Child("ExpressionNode")]),
   FloatLiteralNode |-> Class("LeafBaseNode", [Value |-> Text]),
   NullLiteralNode |-> Class("LeafBaseNode", NoFields),
   OnClauseNode |-> Class("BaseNode", [Expression |-> Child("ExpressionNode")]),
   WithClauseEntryNode |-> Class("BaseNode", [Alias |-> Child("IdentifierNode"),
       Query |-> Child("QueryNode")])]

JoinNodes ==
  [JoinNode |-> Class("TableExpressionBaseNode", [JoinType |-> Enum("JoinType"),
       JoinHint |-> Enum("JoinHint"), Natural |-> Flag, UnmatchedJoinCount |-> Num,
       TransformationNeeded |-> Flag, ContainsCommaJoin |-> Flag,
       Lhs |-> Child("TableExpressionNode"), Rhs |-> Child("TableExpressionNode"),
       Hint |-> Child("HintNode"), OnClause |-> Child("OnClauseNode"),
       UsingClause |-> Child("UsingClauseNode"), ParseError |-> ReadOnly(Obj("JoinParseError")),
       SQLForJoinType |-> ReadOnly(Text), SQLForJoinHint |-> ReadOnly(Text)]),
   JoinParseError |-> Class(NoBase, [ErrorNode |-> Child("Node"), Message |-> ReadOnly(Text),
       Error |-> ReadOnly(Text)])]

WithAndTypes ==
  [WithClauseNode |-> Class("BaseNode", [Recursive |-> Flag,
       With |-> Children("WithClauseEntryNode")]),
   HavingNode |-> Class("BaseNode", [Expression |-> Child("ExpressionNode")]),
   TypeBaseNode |-> Class("BaseNode", [TypeParameters |-> Child("TypeParameterListNode"),
       Collate |-> Child("CollateNode")]),
   SimpleTypeNode |-> Class("TypeBaseNode", [TypeName |-> Child("PathExpressionNode")]),
   ArrayTypeNode |-> Class("TypeBaseNode", [ElementType |-> Child("TypeNode")]),
   StructFieldNode |-> Class("BaseNode", [Name |-> Child("IdentifierNode"),
       Type |-> Child("TypeNode")]),
   StructTypeNode |-> Class("TypeBaseNode", [StructFields |-> Children("StructFieldNode")])]

CastNodes ==
  [CastExpressionNode |-> Class("ExpressionBaseNode", [IsSafeCast |-> Flag,
       Expr |-> Child("ExpressionNode"), Type |-> Child("TypeNode"),
       Format |-> Child("FormatClauseNode")]),
   SelectAsNode |-> Class("BaseNode", [AsMode |-> Enum("AsMode"),
       TypeName |-> Child("PathExpressionNode"), IsSelectAsStruct |-> ReadOnly(Flag),
       IsSelectAsValue |-> ReadOnly(Flag)]),
   RollupNode |-> Class("BaseNode", [Expressions |-> Children("ExpressionNode")])]

FunctionCalls ==
  [FunctionCallNode |-> Class("ExpressionBaseNode",
       [NullHandlingModifier |-> Enum("NullHandlingModifier"), Distinct |-> Flag,
        IsCurrentDateTimeWithoutParentheses |-> Flag, Function |-> Child("PathExpressionNode"),
        HavingModifier |-> Child("HavingModifierNode"),
        ClampedBetweenModifier |-> Child("ClampedBetweenModifierNode"),
        OrderBy |-> Child("OrderByNode"), LimitOffset |-> Child("LimitOffsetNode"),
        Hint |-> Child("HintNode"), WithGroupRows |-> Child("WithGroupRowsNode"),
        Arguments |-> Children("ExpressionNode"), HasModifiers |-> ReadOnly(Flag)]),
   ArrayConstructorNode |-> Class("ExpressionBaseNode", [Type |-> Child("ArrayTypeNode"),
       Elements |-> Children("ExpressionNode")])]

StructAndInExprs ==
  [StructConstructorArgNode |-> Class("BaseNode", [Expression |-> Child("ExpressionNode"),
       Alias |-> Child("AliasNode")]),
   StructConstructorWithParensNode |-> Class("ExpressionBaseNode",
       [FieldExpressions |-> Children("ExpressionNode")]),
   StructConstructorWithKeywordNode |-> Class("ExpressionBaseNode",
       [StructType |-> Child("StructTypeNode"), Fields |-> Children("StructConstructorArgNode")]),
   InExpressionNode |-> Class("ExpressionBaseNode", [IsNot |-> Flag,
       Lhs |-> Child("ExpressionNode"), Hint |-> Child("HintNode"), InList |-> Child("InListNode"),
       Query |-> Child("QueryNode"), UnnestExpr |-> Child("UnnestExpressionNode")]),
   InListNode |-> Class("BaseNode", [List |-> Children("ExpressionNode")])]

LiteralExprs ==
  [BetweenExpressionNode |-> Class("ExpressionBaseNode", [IsNot |-> Flag,
       Lhs |-> Child("ExpressionNode"), Low |-> Child("ExpressionNode"),
       High |-> Child("ExpressionNode")]),
   NumericLiteralNode |-> Class("LeafBaseNode", [Value |-> Text]),
   BigNumericLiteralNode |-> Class("LeafBaseNode", [Value |-> Text]),
   BytesLiteralNode |-> Class("LeafBaseNode", [Value |-> Text]),
   DateOrTimeLiteralNode |-> Class("ExpressionBaseNode", [TypeKind |-> Enum("TypeKind"),
       StringLiteral |-> Child("StringLiteralNode")]),
   MaxLiteralNode |-> Class("LeafBaseNode", [Value |-> Text]),
   JSONLiteralNode |-> Class("LeafBaseNode", [Value |-> Text]),
   CaseValueExpressionNode |-> Class("ExpressionBaseNode",
       [Arguments |-> Children("ExpressionNode")])]

FieldAccessExprs ==
  [CaseNoValueExpressionNode |-> Class("ExpressionBaseNode",
       [Arguments |-> Children("ExpressionNode")]),
   ArrayElementNode |-> Class("GeneralizedPathExpressionBaseNode",
       [Array |-> Child("ExpressionNode"), Position |-> Child("ExpressionNode")]),
   BitwiseShiftExpressionNode |-> Class("ExpressionBaseNode", [IsLeftShift |-> Flag,
       Lhs |-> Child("ExpressionNode"), Rhs |-> Child("ExpressionNode")]),
   CollateNode |-> Class("BaseNode", [Name |-> Child("ExpressionNode")]),
   DotGeneralizedFieldNode |-> Class("GeneralizedPathExpressionBaseNode",
       [Expr |-> Child("ExpressionNode"), Path |-> Child("PathExpressionNode")]),
   DotIdentifierNode |-> Class("GeneralizedPathExpressionBaseNode",
       [Expr |-> Child("ExpressionNode"), Name |-> Child("IdentifierNode")]),
   DotStarNode |-> Class("ExpressionBaseNode", [Expr |-> Child("ExpressionNode")])]

ModifierExprs ==
  [DotStarWithModifiersNode |-> Class("ExpressionBaseNode", [Expr |-> Child("ExpressionNode"),
       Modifiers |-> Child("StarModifiersNode")]),
   ExpressionSubqueryNode |-> Class("ExpressionBaseNode",
       [Modifier |-> Enum("ExpressionSubqueryModifier"), Hint |-> Child("HintNode"),
        Query |-> Child("QueryNode")]),
   ExtractExpressionNode |-> Class("ExpressionBaseNode", [LhsExpr |-> Child("ExpressionNode"),
       RhsExpr |-> Child("ExpressionNode"), TimeZoneExpr |-> Child("ExpressionNode")]),
   HavingModifierNode |-> Class("BaseNode", [ModifierKind |-> Enum("HavingModifierKind"),
       Expr |-> Child("ExpressionNode")])]

IntervalExprs ==
  [IntervalExprNode |-> Class("ExpressionBaseNode", [InternalValue |-> Child("ExpressionNode"),
       DatePartName |-> Child("IdentifierNode"), DatePartNameTo |-> Child("IdentifierNode")]),
   NamedArgumentNode |-> Class("ExpressionBaseNode", [Name |-> Child("IdentifierNode"),
       Expr |-> Child("ExpressionNode")]),
   NullOrderNode |-> Class("BaseNode", [NullsFirst |-> Flag]),
   OnOrUsingClauseListNode |-> Class("BaseNode", [OnOrUsingClauseList |-> Children("Node")]),
   ParenthesizedJoinNode |-> Class("TableExpressionBaseNode", [Join |-> Child("JoinNode"),
       SampleClause |-> Child("SampleClauseNode")]),
   PartitionByNode |-> Class("BaseNode", [Hint |-> Child("HintNode"),
       PartitioningExpressions |-> Children("ExpressionNode")])]

SetOperations ==
  [SetOperationNode |-> Class("QueryExpressionBaseNode", [OpType |-> Enum("SetOperationType"),
       Distinct |-> Flag, Hint |-> Child("HintNode"), Inputs |-> Children("QueryExpressionNode"),
       SQLForOperation |-> ReadOnly(Text)]),
   StarExceptListNode |-> Class("BaseNode", [Identifiers |-> Children("IdentifierNode")]),
   StarModifiersNode |-> Class("BaseNode", [ExceptList |-> Child("StarExceptListNode"),
       ReplaceItems |-> Children("StarReplaceItemNode")]),
   StarReplaceItemNode |-> Class("BaseNode", [Expression |-> Child("ExpressionNode"),
       Alias |-> Child("IdentifierNode")]),
   StarWithModifiersNode |-> Class("ExpressionBaseNode",
       [Modifiers |-> Child("StarModifiersNode")])]

TableSubqueries ==
  [TableSubqueryNode |-> Class("TableExpressionBaseNode", [Subquery |-> Child("QueryNode"),
       PivotClause |-> Child("PivotClauseNode"), UnpivotClause |-> Child("UnpivotClauseNode"),
       SampleClause |-> Child("SampleClauseNode"), Alias |-> Child("AliasNode")]),
   UnaryExpressionNode |-> Class("ExpressionBaseNode", [Op |-> Enum("UnaryExpressionOp"),
       Operand |-> Child("ExpressionNode"), SQLForOperator |-> ReadOnly(Text)]),
   UnnestExpressionNode |-> Class("BaseNode", [Expression |-> Child("ExpressionNode")]),
   WindowClauseNode |-> Class("BaseNode", [Windows |-> Children("WindowDefinitionNode")])]

WindowNodes ==
  [WindowDefinitionNode |-> Class("BaseNode", [Name |-> Child("IdentifierNode"),
       WindowSpec |-> Child("WindowSpecificationNode")]),
   WindowFrameNode |-> Class("BaseNode", [StartExpr |-> Child("WindowFrameExprNode"),
       EndExpr |-> Child("WindowFrameExprNode"), FrameUnit |-> Enum("WindowFrameUnit"),
       FrameUnitString |-> ReadOnly(Text)]),
   WindowFrameExprNode |-> Class("BaseNode", [BoundaryType |-> Enum("WindowFrameBoundaryType"),
       Expression |-> Child("ExpressionNode")])]

LikeExprs ==
  [LikeExpressionNode |-> Class("ExpressionBaseNode", [IsNot |-> Flag,
       Lhs |-> Child("ExpressionNode"), Op |-> Child("AnySomeAllOpNode"),
       Hint |-> Child("HintNode"), InList |-> Child("InListNode"), Query |-> Child("QueryNode"),
       UnnestExpr |-> Child("UnnestExpressionNode")]),
   WindowSpecificationNode |-> Class("BaseNode", [BaseWindowName |-> Child("IdentifierNode"),
       PartitionBy |-> Child("PartitionByNode"), OrderBy |-> Child("OrderByNode"),
       WindowFrame |-> Child("WindowFrameNode")]),
   WithOffsetNode |-> Class("BaseNode", [Alias |-> Child("AliasNode")])]

ScriptStatements ==
  [AnySomeAllOpNode |-> Class("BaseNode", [Op |-> Enum("AnySomeAllOpType"),
       SQLForOperator |-> ReadOnly(Text)]),
   ParameterExprBaseNode |-> Class("ExpressionBaseNode", NoFields),
   StatementListNode |-> Class("BaseNode", [VariableDeclarationsAllowed |-> Flag,
       StatementList |-> Children("StatementNode")]),
   ScriptStatementNode |-> Class("StatementBaseNode", NoFields),
   HintedStatementNode |-> Class("StatementBaseNode", [Hint |-> Child("HintNode"),
       Statement |-> Child("StatementNode")]),
   ExplainStatementNode |-> Class("StatementBaseNode", [Statement |-> Child("StatementNode")]),
   DescribeStatementNode |-> Class("StatementBaseNode",
       [OptionalIdentifier |-> Child("IdentifierNode"), Name |-> Child("PathExpressionNode"),
        OptionalFromName |-> Child("PathExpressionNode")]),
   ShowStatementNode |-> Class("StatementBaseNode", [Identifier |-> Child("IdentifierNode"),
       OptionalName |-> Child("PathExpressionNode"),
       OptionalLikeString |-> Child("StringLiteralNode")])]

TransactionStatements ==
  [TransactionModeBaseNode |-> Class("BaseNode", NoFields),
   TransactionIsolationLevelNode |-> Class("TransactionModeBaseNode",
       [Identifier1 |-> Child("IdentifierNode"), Identifier2 |-> Child("IdentifierNode")]),
   TransactionReadWriteModeNode |-> Class("TransactionModeBaseNode",
       [Mode |-> Enum("TransactionReadWriteModeType")]),
   TransactionModeListNode |-> Class("BaseNode", [Elements |-> Children("TransactionModeNode")]),
   BeginStatementNode |-> Class("StatementBaseNode",
       [ModeList |-> Child("TransactionModeListNode")]),
   SetTransactionStatementNode |-> Class("StatementBaseNode",
       [ModeList |-> Child("TransactionModeListNode")]),
   CommitStatementNode |-> Class("StatementBaseNode", NoFields),
   RollbackStatementNode |-> Class("StatementBaseNode", NoFields),
   StartBatchStatementNode |-> Class("StatementBaseNode", [BatchType |-> Child("IdentifierNode")]),
   RunBatchStatementNode |-> Class("StatementBaseNode", NoFields),
   AbortBatchStatementNode |-> Class("StatementBaseNode", NoFields),
   DdlStatementBaseNode |-> Class("StatementBaseNode",
       [DdlTarget |-> Child("PathExpressionNode")])]

DropEntityStatements ==
  [DropEntityStatementNode |-> Class("DdlStatementBaseNode", [IsIfExists |-> Flag,
       EntityType |-> Child("IdentifierNode"), Name |-> Child("PathExpressionNode")]),
   DropFunctionStatementNode |-> Class("DdlStatementBaseNode", [IsIfExists |-> Flag,
       Name |-> Child("PathExpressionNode"), Parameters |-> Child("FunctionParametersNode")]),
   DropTableFunctionStatementNode |-> Class("DdlStatementBaseNode", [IsIfExists |-> Flag,
       Name |-> Child("PathExpressionNode")]),
   DropAllRowAccessPoliciesStatementNode |-> Class("StatementBaseNode", [HasAccessKeyword |-> Flag,
       TableName |-> Child("PathExpressionNode")]),
   DropMaterializedViewStatementNode |-> Class("DdlStatementBaseNode", [IsIfExists |-> Flag,
       Name |-> Child("PathExpressionNode")])]

DropSnapshotStatements ==
  [DropSnapshotTableStatementNode |-> Class("DdlStatementBaseNode", [IsIfExists |-> Flag,
       Name |-> Child("PathExpressionNode")]),
   DropSearchIndexStatementNode |-> Class("DdlStatementBaseNode", [IsIfExists |-> Flag,
       Name |-> Child("PathExpressionNode"), TableName |-> Child("PathExpressionNode")]),
   RenameStatementNode |-> Class("StatementBaseNode", [Identifier |-> Child("IdentifierNode"),
       OldName |-> Child("PathExpressionNode"), NewName |-> Child("PathExpressionNode")])]

ImportStatements ==
  [ImportStatementNode |-> Class("StatementBaseNode", [ImportKind |-> Enum("ImportStatementKind"),
       Name |-> Child("PathExpressionNode"), StringValue |-> Child("StringLiteralNode"),
       Alias |-> Child("AliasNode"), IntoAlias |-> Child("IntoAliasNode"),
       OptionsList |-> Child("OptionsListNode")]),
   ModuleStatementNode |-> Class("StatementBaseNode", [Name |-> Child("PathExpressionNode"),
       OptionsList |-> Child("OptionsListNode")]),
   WithConnectionClauseNode |-> Class("BaseNode",
       [ConnectionClause |-> Child("ConnectionClauseNode")]),
   IntoAliasNode |-> Class("BaseNode", [Identifier |-> Child("IdentifierNode"),
       Name |-> ReadOnly(Text)]),
   UnnestExpressionWithOptAliasAndOffsetNode |-> Class("BaseNode",
       [UnnestExpression |-> Child("UnnestExpressionNode"), OptionalAlias |-> Child("AliasNode"),
        OptionalWithOffset |-> Child("WithOffsetNode")])]

PivotNodes ==
  [PivotExpressionNode |-> Class("BaseNode", [Expression |-> Child("ExpressionNode"),
       Alias |-> Child("AliasNode")]),
   PivotValueNode |-> Class("BaseNode", [Value |-> Child("ExpressionNode"),
       Alias |-> Child("AliasNode")]),
   PivotExpressionListNode |-> Class("BaseNode",
       [Expressions |-> Children("PivotExpressionNode")]),
   PivotValueListNode |-> Class("BaseNode", [Values |-> Children("PivotValueNode")]),
   PivotClauseNode |-> Class("BaseNode", [PivotExpressions |-> Child("PivotExpressionListNode"),
       ForExpression |-> Child("ExpressionNode"), PivotValues |-> Child("PivotValueListNode"),
       OutputAlias |-> Child("AliasNode")]),
   UnpivotInItemNode |-> Class("BaseNode", [UnpivotColumns |-> Child("PathExpressionListNode"),
       Alias |-> Child("UnpivotInItemLabelNode")])]

UnpivotNodes ==
  [UnpivotInItemListNode |-> Class("BaseNode", [InItems |-> Children("UnpivotInItemNode")]),
   UnpivotClauseNode |-> Class("BaseNode", [NullFilter |-> Enum("UnpivotNullFilter"),
       UnpivotOutputValueColumns |-> Child("PathExpressionListNode"),
       UnpivotOutputNameColumn |-> Child("PathExpressionNode"),
       UnpivotInItems |-> Child("UnpivotInItemListNode"), OutputAlias |-> Child("AliasNode")]),
   UsingClauseNode |-> Class("BaseNode", [Keys |-> Children("IdentifierNode")]),
   ForSystemTimeNode |-> Class("BaseNode", [Expression |-> Child("ExpressionNode")]),
   QualifyNode |-> Class("BaseNode", [Expression |-> Child("ExpressionNode")]),
   ClampedBetweenModifierNode |-> Class("BaseNode", [Low |-> Child("ExpressionNode"),
       High |-> Child("ExpressionNode")])]

FormatNodes ==
  [FormatClauseNode |-> Class("BaseNode", [Format |-> Child("ExpressionNode"),
       TimeZoneExpr |-> Child("ExpressionNode")]),
   PathExpressionListNode |-> Class("BaseNode",
       [PathExpressionList |-> Children("PathExpressionNode")]),
   ParameterExprNode |-> Class("ParameterExprBaseNode", [Position |-> Num,
       Name |-> Child("IdentifierNode")]),
   SystemVariableExprNode |-> Class("ParameterExprBaseNode",
       [Path |-> Child("PathExpressionNode")]),
   WithGroupRowsNode |-> Class("BaseNode", [Subquery |-> Child("QueryNode")]),
   LambdaNode |-> Class("ExpressionBaseNode", [ArgumentList |-> Child("ExpressionNode"),
       Body |-> Child("ExpressionNode")]),
   AnalyticFunctionCallNode |-> Class("ExpressionBaseNode",
       [WindowSpec |-> Child("WindowSpecificationNode"), Function |-> Child("FunctionCallNode"),
        FunctionWithGroupRows |-> Child("FunctionCallWithGroupRowsNode")])]

ConstructorNodes ==
  [FunctionCallWithGroupRowsNode |-> Class("ExpressionBaseNode",
       [Function |-> Child("FunctionCallNode"), Subquery |-> Child("QueryNode")]),
   ClusterByNode |-> Class("BaseNode", [ClusteringExpressions |-> Children("ExpressionNode")]),
   NewConstructorArgNode |-> Class("BaseNode", [Expression |-> Child("ExpressionNode"),
       OptionalIdentifier |-> Child("IdentifierNode"),
       OptionalPathExpression |-> Child("PathExpressionNode")]),
   NewConstructorNode |-> Class("ExpressionBaseNode", [TypeName |-> Child("SimpleTypeNode"),
       Arguments |-> Children("NewConstructorArgNode")]),
   OptionsListNode |-> Class("BaseNode", [OptionsEntries |-> Children("OptionsEntryNode")]),
   OptionsEntryNode |-> Class("BaseNode", [Name |-> Child("IdentifierNode"),
       Value |-> Child("ExpressionNode")])]

CreateStatements ==
  [CreateStatementNode |-> Class("DdlStatementBaseNode", [Scope |-> Enum("CreateStatementScope"),
       IsOrReplace |-> Flag, IsIfNotExists |-> Flag, IsDefaultScope |-> ReadOnly(Flag),
       IsPrivate |-> ReadOnly(Flag), IsPublic |-> ReadOnly(Flag), IsTemp |-> ReadOnly(Flag)])]

FunctionDeclarations ==
  [FunctionParameterNode |-> Class("BaseNode",
       [ProcedureParameterMode |-> Enum("ProcedureParameterMode"), IsNotAggregate |-> Flag,
        Name |-> Child("IdentifierNode"), Type |-> Child("TypeNode"),
        TemplatedParameterType |-> Child("TemplatedParameterTypeNode"),
        TVFSchema |-> Child("TVFSchemaNode"), Alias |-> Child("AliasNode"),
        DefaultValue |-> Child("ExpressionNode"), IsTableParameter |-> ReadOnly(Flag),
        IsTemplated |-> ReadOnly(Flag)]),
   FunctionParametersNode |-> Class("BaseNode",
       [ParameterEntries |-> Children("FunctionParameterNode")]),
   FunctionDeclarationNode |-> Class("BaseNode", [Name |-> Child("PathExpressionNode"),
       Parameters |-> Child("FunctionParametersNode"), IsTemplated |-> ReadOnly(Flag)]),
   SqlFunctionBodyNode |-> Class("BaseNode", [Expression |-> Child("ExpressionNode")])]

TvfNodes ==
  [TVFArgumentNode |-> Class("BaseNode", [Expr |-> Child("ExpressionNode"),
       TableClause |-> Child("TableClauseNode"), ModelClause |-> Child("ModelClauseNode"),
       ConnectionClause |-> Child("ConnectionClauseNode"),
       Descriptor |-> Child("DescriptorNode")]),
   TVFNode |-> Class("TableExpressionBaseNode", [Name |-> Child("PathExpressionNode"),
       Hint |-> Child("HintNode"), Alias |-> Child("AliasNode"),
       PivotClause |-> Child("PivotClauseNode"), UnpivotClause |-> Child("UnpivotClauseNode"),
       SampleClause |-> Child("SampleClauseNode"),
       ArgumentEntries |-> Children("TVFArgumentNode")]),
   TableClauseNode |-> Class("BaseNode", [TablePath |-> Child("PathExpressionNode"),
       TVF |-> Child("TVFNode")])]

DataSources ==
  [ModelClauseNode |-> Class("BaseNode", [ModelPath |-> Child("PathExpressionNode")]),
   ConnectionClauseNode |-> Class("BaseNode", [ConnectionPath |-> Child("PathExpressionNode")]),
   TableDataSourceNode |-> Class("TableExpressionBaseNode",
       [PathExpr |-> Child("PathExpressionNode"), ForSystemTime |-> Child("ForSystemTimeNode"),
        WhereClause |-> Child("WhereClauseNode")]),
   CloneDataSourceNode |-> Class("TableDataSourceNode", NoFields),
   CopyDataSourceNode |-> Class("TableDataSourceNode", NoFields),
   CloneDataSourceListNode |-> Class("BaseNode",
       [DataSources |-> Children("CloneDataSourceNode")]),
   CloneDataStatementNode |-> Class("StatementBaseNode",
       [TargetPath |-> Child("PathExpressionNode"),
        DataSourceList |-> Child("CloneDataSourceListNode")]),
   CreateConstantStatementNode |-> Class("CreateStatementNode",
       [Name |-> Child("PathExpressionNode"), Expr |-> Child("ExpressionNode")]),
   CreateDatabaseStatementNode |-> Class("StatementBaseNode",
       [Name |-> Child("PathExpressionNode"), OptionsList |-> Child("OptionsListNode")])]

ProcedureAndModelStatements ==
  [CreateProcedureStatementNode |-> Class("CreateStatementNode",
       [Name |-> Child("PathExpressionNode"), Parameters |-> Child("FunctionParametersNode"),
        OptionsList |-> Child("OptionsListNode"), Body |-> Child("ScriptNode")]),
   CreateSchemaStatementNode |-> Class("CreateStatementNode",
       [Name |-> Child("PathExpressionNode"), Collate |-> Child("CollateNode"),
        OptionsList |-> Child("OptionsListNode")]),
   TransformClauseNode |-> Class("BaseNode", [SelectList |-> Child("SelectListNode")]),
   CreateModelStatementNode |-> Class("CreateStatementNode", [Name |-> Child("PathExpressionNode"),
       TransformClause |-> Child("TransformClauseNode"), OptionsList |-> Child("OptionsListNode"),
       Query |-> Child("QueryNode")]),
   IndexAllColumnsNode |-> Class("LeafBaseNode", NoFields),
   IndexItemListNode |-> Class("BaseNode",
       [OrderingExpressions |-> Children("OrderingExpressionNode")])]

IndexStatements ==
  [IndexStoringExpressionListNode |-> Class("BaseNode",
       [Expressions |-> Children("ExpressionNode")]),
   IndexUnnestExpressionListNode |-> Class("BaseNode",
       [UnnestExpressions |-> Children("UnnestExpressionWithOptAliasAndOffsetNode")]),
   CreateIndexStatementNode |-> Class("CreateStatementNode", [IsUnique |-> Flag, IsSearch |-> Flag,
       Name |-> Child("PathExpressionNode"), TableName |-> Child("PathExpressionNode"),
       OptionalTableAlias |-> Child("AliasNode"),
       OptionalIndexUnnestExpressionList |-> Child("IndexUnnestExpressionListNode"),
       IndexItemList |-> Child("IndexItemListNode"),
       OptionalIndexSotringExpressions |-> Child("IndexStoringExpressionListNode"),
       OptionsList |-> Child("OptionsListNode")]),
   ExportDataStatementNode |-> Class("StatementBaseNode",
       [WithConnectionClause |-> Child("WithConnectionClauseNode"),
        OptionsList |-> Child("OptionsListNode"), Query |-> Child("QueryNode")])]

ExportStatements ==
  [ExportModelStatementNode |-> Class("StatementBaseNode",
       [ModelNamePath |-> Child("PathExpressionNode"),
        WithConnectionClause |-> Child("WithConnectionClauseNode"),
        OptionsList |-> Child("OptionsListNode")]),
   CallStatementNode |-> Class("StatementBaseNode", [ProcedureName |-> Child("PathExpressionNode"),
       Arguments |-> Children("TVFArgumentNode")]),
   DefineTableStatementNode |-> Class("StatementBaseNode", [Name |-> Child("PathExpressionNode"),
       OptionsList |-> Child("OptionsListNode")]),
   WithPartitionColumnsClauseNode |-> Class("BaseNode",
       [TableElementList |-> Child("TableElementListNode")]),
   CreateSnapshotTableStatementNode |-> Class("CreateStatementNode",
       [Name |-> Child("PathExpressionNode"), CloneDataSource |-> Child("CloneDataSourceNode"),
        OptionsList |-> Child("OptionsListNode")]),
   TypeParameterListNode |-> Class("BaseNode", [Parameters |-> Children("LeafNode")])]

TvfSchemas ==
  [TVFSchemaNode |-> Class("BaseNode", [Columns |-> Children("TVFSchemaColumnNode")]),
   TVFSchemaColumnNode |-> Class("BaseNode", [Name |-> Child("IdentifierNode"),
       Type |-> Child("TypeNode")]),
   TableAndColumnInfoNode |-> Class("BaseNode", [TableName |-> Child("PathExpressionNode"),
       ColumnList |-> Child("ColumnListNode")]),
   TableAndColumnInfoListNode |-> Class("BaseNode",
       [TableAndColumnInfoEntries |-> Children("TableAndColumnInfoNode")]),
   TemplatedParameterTypeNode |-> Class("BaseNode",
       [TemplatedKind |-> ReadOnly(Enum("TemplatedTypeKind"))]),
   DefaultLiteralNode |-> Class("ExpressionBaseNode", NoFields),
   AnalyzeStatementNode |-> Class("StatementBaseNode", [OptionsList |-> Child("OptionsListNode"),
       TableAndColumnInfoList |-> Child("TableAndColumnInfoListNode")])]

DeleteStatements ==
  [AssertStatementNode |-> Class("StatementBaseNode", [Expr |-> Child("ExpressionNode"),
       Description |-> Child("StringLiteralNode")]),
   AssertRowsModifiedNode |-> Class("BaseNode", [NumRows |-> Child("ExpressionNode")]),
   ReturningClauseNode |-> Class("BaseNode", [SelectList |-> Child("SelectListNode"),
       ActionAlias |-> Child("AliasNode")]),
   DeleteStatementNode |-> Class("StatementBaseNode",
       [TargetPath |-> Child("GeneralizedPathExpressionNode"), Alias |-> Child("AliasNode"),
        Offset |-> Child("WithOffsetNode"), Where |-> Child("ExpressionNode"),
        AssertRowsModified |-> Child("AssertRowsModifiedNode"),
        Returning |-> Child("ReturningClauseNode")]),
   ColumnAttributeBaseNode |-> Class("BaseNode", NoFields),
   NotNullColumnAttributeNode |-> Class("ColumnAttributeBaseNode", NoFields),
   HiddenColumnAttributeNode |-> Class("ColumnAttributeBaseNode", NoFields),
   PrimaryKeyColumnAttributeNode |-> Class("ColumnAttributeBaseNode", [Enforced |-> Flag])]

ColumnAttributes ==
  [ForeignKeyColumnAttributeNode |-> Class("ColumnAttributeBaseNode",
       [ConstraintName |-> Child("IdentifierNode"),
        Reference |-> Child("ForeignKeyReferenceNode")]),
   ColumnAttributeListNode |-> Class("BaseNode", [Values |-> Children("ColumnAttributeNode")]),
   StructColumnFieldNode |-> Class("BaseNode", [Name |-> Child("IdentifierNode"),
       Schema |-> Child("ColumnSchemaNode")]),
   GeneratedColumnInfoNode |-> Class("BaseNode",
       [StoredMode |-> Enum("GeneratedColumnInfoStoredMode"),
        Expression |-> Child("ExpressionNode"), SqlForStoredMode |-> ReadOnly(Text)]),
   TableElementBaseNode |-> Class("BaseNode", NoFields),
   ColumnDefinitionNode |-> Class("TableElementBaseNode", [Name |-> Child("IdentifierNode"),
       Schema |-> Child("ColumnSchemaNode")]),
   TableElementListNode |-> Class("BaseNode", [Elements |-> Children("TableElementNode")])]

ColumnLists ==
  [ColumnListNode |-> Class("BaseNode", [Identifiers |-> Children("IdentifierNode")]),
   ColumnPositionNode |-> Class("BaseNode", [Type |-> Enum("ColumnRelativePositionType"),
       Identifier |-> Child("IdentifierNode")]),
   InsertValuesRowNode |-> Class("BaseNode", [Values |-> Children("ExpressionNode")]),
   InsertValuesRowListNode |-> Class("BaseNode", [Rows |-> Children("InsertValuesRowNode")])]

InsertStatements ==
  [InsertStatementNode |-> Class("StatementBaseNode", [ParseProgress |-> Enum("ParseProgress"),
       InsertMode |-> Enum("InsertMode"), TargetPath |-> Child("GeneralizedPathExpressionNode"),
       ColumnList |-> Child("ColumnListNode"), Rows |-> Child("InsertValuesRowListNode"),
       Query |-> Child("QueryNode"), AssertRowsModified |-> Child("AssertRowsModifiedNode"),
       Returning |-> Child("ReturningClauseNode"), SQLForInsertMode |-> ReadOnly(Text)]),
   UpdateSetValueNode |-> Class("BaseNode", [Path |-> Child("GeneralizedPathExpressionNode"),
       Value |-> Child("ExpressionNode")]),
   UpdateItemNode |-> Class("BaseNode", [SetValue |-> Child("UpdateSetValueNode"),
       InsertStatement |-> Child("InsertStatementNode"),
       DeleteStatement |-> Child("DeleteStatementNode"),
       UpdateStatement |-> Child("UpdateStatementNode")])]

UpdateStatements ==
  [UpdateItemListNode |-> Class("BaseNode", [UpdateItems |-> Children("UpdateItemNode")]),
   UpdateStatementNode |-> Class("StatementBaseNode",
       [TargetPath |-> Child("GeneralizedPathExpressionNode"), Alias |-> Child("AliasNode"),
        Offset |-> Child("WithOffsetNode"), UpdateItemList |-> Child("UpdateItemListNode"),
        FromClause |-> Child("FromClauseNode"), Where |-> Child("ExpressionNode"),
        AssertRowsModified |-> Child("AssertRowsModifiedNode"),
        Returning |-> Child("ReturningClauseNode")]),
   TrucateStatementNode |-> Class("StatementBaseNode", [TargetPath |-> Child("PathExpressionNode"),
       Where |-> Child("ExpressionNode")])]

MergeActions ==
  [MergeActionNode |-> Class("BaseNode", [ActionType |-> Enum("MergeActionType"),
       InsertColumnList |-> Child("ColumnListNode"), InsertRow |-> Child("InsertValuesRowNode"),
       UpdateItemList |-> Child("UpdateItemListNode")]),
   MergeWhenClauseNode |-> Class("BaseNode", [MatchType |-> Enum("MergeMatchType"),
       SearchCondition |-> Child("ExpressionNode"), Action |-> Child("MergeActionNode"),
       SQLForMatchType |-> ReadOnly(Text)]),
   MergeWhenClauseListNode |-> Class("BaseNode", [ClauseList |-> Children("MergeWhenClauseNode")])]

MergeAndGrantStatements ==
  [MergeStatementNode |-> Class("StatementBaseNode", [TargetPath |-> Child("PathExpressionNode"),
       Alias |-> Child("AliasNode"), TableExpression |-> Child("TableExpressionNode"),
       MergeCondition |-> Child("ExpressionNode"),
       WhenClauses |-> Child("MergeWhenClauseListNode")]),
   PrivilegeNode |-> Class("BaseNode", [PrivilegeAction |-> Child("IdentifierNode"),
       Paths |-> Child("PathExpressionListNode")]),
   PrivilegesNode |-> Class("BaseNode", [Privileges |-> Children("PrivilegeNode"),
       IsAllPrivileges |-> ReadOnly(Flag)]),
   GranteeListNode |-> Class("BaseNode", [GranteeList |-> Children("ExpressionNode")]),
   GrantStatementNode |-> Class("StatementBaseNode", [Privileges |-> Child("PrivilegesNode"),
       TargetType |-> Child("IdentifierNode"), TargetPath |-> Child("PathExpressionNode"),
       GranteeList |-> Child("GranteeListNode")])]

RevokeStatements ==
  [RevokeStatementNode |-> Class("StatementBaseNode", [Privileges |-> Child("PrivilegesNode"),
       TargetType |-> Child("IdentifierNode"), TargetPath |-> Child("PathExpressionNode"),
       GranteeList |-> Child("GranteeListNode")]),
   RepeatableClauseNode |-> Class("BaseNode", [Argument |-> Child("ExpressionNode")]),
   FilterFieldsArgNode |-> Class("BaseNode", [FilterType |-> Enum("FilterType"),
       PathExpression |-> Child("GeneralizedPathExpressionNode"),
       SQLForOperator |-> ReadOnly(Text)]),
   ReplaceFieldsArgNode |-> Class("BaseNode", [Expression |-> Child("ExpressionNode"),
       PathExpression |-> Child("GeneralizedPathExpressionNode")]),
   ReplaceFieldsExpressionNode |-> Class("ExpressionBaseNode", [Expr |-> Child("ExpressionNode"),
       Arguments |-> Children("ReplaceFieldsArgNode")])]

SampleNodes ==
  [SampleSizeNode |-> Class("BaseNode", [Unit |-> Enum("SampleSizeUnit"),
       Size |-> Child("ExpressionNode"), PartitionBy |-> Child("PartitionByNode"),
       SQLForUnit |-> ReadOnly(Text)]),
   WithWeightNode |-> Class("BaseNode", [Alias |-> Child("AliasNode")]),
   SampleSuffixNode |-> Class("BaseNode", [Weight |-> Child("WithWeightNode"),
       Repeat |-> Child("RepeatableClauseNode")]),
   SampleClauseNode |-> Class("BaseNode", [SampleMethod |-> Child("IdentifierNode"),
       SampleSize |-> Child("SampleSizeNode"), SampleSuffix |-> Child("SampleSuffixNode")]),
   AlterActionBaseNode |-> Class("BaseNode", [SQLForAlterAction |-> ReadOnly(Text)]),
   SetOptionsActionNode |-> Class("AlterActionBaseNode",
       [OptionsList |-> Child("OptionsListNode")]),
   SetAsActionNode |-> Class("AlterActionBaseNode", [JSONBody |-> Child("JSONLiteralNode"),
       TextBody |-> Child("StringLiteralNode")])]

ConstraintActions ==
  [AddConstraintActionNode |-> Class("AlterActionBaseNode", [IsIfNotExists |-> Flag,
       Constraint |-> Child("TableConstraintNode")]),
   DropPrimaryKeyActionNode |-> Class("AlterActionBaseNode", [IsIfExists |-> Flag]),
   DropConstraintActionNode |-> Class("AlterActionBaseNode", [IsIfExists |-> Flag,
       ConstraintName |-> Child("IdentifierNode")]),
   AlterConstraintEnforcementActionNode |-> Class("AlterActionBaseNode", [IsIfExists |-> Flag,
       IsEnforced |-> Flag, ConstraintName |-> Child("IdentifierNode")]),
   AlterConstraintSetOptionsActionNode |-> Class("AlterActionBaseNode", [IsIfExists |-> Flag,
       ConstraintName |-> Child("IdentifierNode"), OptionsList |-> Child("OptionsListNode")])]

ColumnActions ==
  [AddColumnActionNode |-> Class("AlterActionBaseNode", [IsIfNotExists |-> Flag,
       ColumnDefinition |-> Child("ColumnDefinitionNode"),
       ColumnPosition |-> Child("ColumnPositionNode"),
       FillExpression |-> Child("ExpressionNode")]),
   DropColumnActionNode |-> Class("AlterActionBaseNode", [IsIfExists |-> Flag,
       ColumnName |-> Child("IdentifierNode")]),
   RenameColumnActionNode |-> Class("AlterActionBaseNode", [IsIfExists |-> Flag,
       ColumnName |-> Child("IdentifierNode"), NewColumnName |-> Child("IdentifierNode")]),
   AlterColumnTypeActionNode |-> Class("AlterActionBaseNode", [IsIfExists |-> Flag,
       ColumnName |-> Child("IdentifierNode"), Schema |-> Child("ColumnSchemaNode"),
       Collate |-> Child("CollateNode")])]

ColumnOptionActions ==
  [AlterColumnOptionsActionNode |-> Class("AlterActionBaseNode", [IsIfExists |-> Flag,
       ColumnName |-> Child("IdentifierNode"), OptionsList |-> Child("OptionsListNode")]),
   AlterColumnSetDefaultActionNode |-> Class("AlterActionBaseNode", [IsIfExists |-> Flag,
       ColumnName |-> Child("IdentifierNode"), DefaultExpression |-> Child("ExpressionNode")]),
   AlterColumnDropDefaultActionNode |-> Class("AlterActionBaseNode", [IsIfExists |-> Flag,
       ColumnName |-> Child("IdentifierNode")]),
   AlterColumnDropNotNullActionNode |-> Class("AlterActionBaseNode", [IsIfExists |-> Flag,
       ColumnName |-> Child("IdentifierNode")]),
   GrantToClauseNode |-> Class("AlterActionBaseNode", [HasGrantKeywordAndParens |-> Flag,
       GranteeList |-> Child("GranteeListNode")]),
   RestrictToClauseNode |-> Class("AlterActionBaseNode",
       [RestricteeList |-> Child("GranteeListNode")])]

PolicyClauses ==
  [AddToRestricteeListClauseNode |-> Class("AlterActionBaseNode", [IsIfNotExists |-> Flag,
       RestricteeList |-> Child("GranteeListNode")]),
   RemoveFromRestricteeListClauseNode |-> Class("AlterActionBaseNode", [IsIfExists |-> Flag,
       RestricteeList |-> Child("GranteeListNode")]),
   FilterUsingClauseNode |-> Class("AlterActionBaseNode", [HasFilterKeyword |-> Flag,
       Predicate |-> Child("ExpressionNode")]),
   RevokeFromClauseNode |-> Class("AlterActionBaseNode", [IsRevokeFromAll |-> Flag,
       RevokeFromList |-> Child("GranteeListNode")]),
   RenameToClauseNode |-> Class("AlterActionBaseNode", [NewName |-> Child("PathExpressionNode")]),
   SetCollateClauseNode |-> Class("AlterActionBaseNode", [Collate |-> Child("CollateNode")]),
   AlterActionListNode |-> Class("BaseNode", [Actions |-> Children("AlterActionNode")])]

ForeignKeyNodes ==
  [AlterAllRowAccessPoliciesStatementNode |-> Class("StatementBaseNode",
       [TableNamePath |-> Child("PathExpressionNode"), AlterAction |-> Child("AlterActionNode")]),
   ForeignKeyActionsNode |-> Class("BaseNode", [UpdateAction |-> Enum("ForeignKeyAction"),
       DeleteAction |-> Enum("ForeignKeyAction")]),
   ForeignKeyReferenceNode |-> Class("BaseNode", [Match |-> Enum("ForeignKeyReferenceMatch"),
       Enforced |-> Flag, TableName |-> Child("PathExpressionNode"),
       ColumnList |-> Child("ColumnListNode"), Actions |-> Child("ForeignKeyActionsNode")])]

IfStatements ==
  [ScriptBaseNode |-> Class("BaseNode", [StatementListNode |-> Child("StatementListNode"),
       StatementList |-> Children("StatementNode")]),
   ElseifClauseNode |-> Class("BaseNode", [Condition |-> Child("ExpressionNode"),
       Body |-> Child("StatementListNode"), IfStmt |-> Child("IfStatementNode")]),
   ElseifClauseListNode |-> Class("BaseNode", [ElseifClauses |-> Children("ElseifClauseNode")]),
   IfStatementNode |-> Class("ScriptStatementNode", [Condition |-> Child("ExpressionNode"),
       ThenList |-> Child("StatementListNode"), ElseifClauses |-> Child("ElseifClauseListNode"),
       ElseList |-> Child("StatementListNode")]),
   WhenThenClauseNode |-> Class("BaseNode", [Condition |-> Child("ExpressionNode"),
       Body |-> Child("StatementListNode"), CaseStmt |-> Child("CaseStatementNode")])]

CaseAndHintNodes ==
  [WhenThenClauseListNode |-> Class("BaseNode",
       [WhenThenClauses |-> Children("WhenThenClauseNode")]),
   CaseStatementNode |-> Class("ScriptStatementNode", [Expression |-> Child("ExpressionNode"),
       WhenThenClauses |-> Child("WhenThenClauseListNode"),
       ElseList |-> Child("StatementListNode")]),
   HintNode |-> Class("BaseNode", [NumShardsHint |-> Child("IntLiteralNode"),
       HintEntries |-> Children("HintEntryNode")]),
   HintEntryNode |-> Class("BaseNode", [Qualifier |-> Child("IdentifierNode"),
       Name |-> Child("IdentifierNode"), Value |-> Child("ExpressionNode")]),
   UnpivotInItemLabelNode |-> Class("BaseNode", [Label |-> Child("LeafNode")]),
   DescriptorNode |-> Class("BaseNode", [Columns |-> Child("DescriptorColumnListNode")])]

ColumnSchemas ==
  [ColumnSchemaNode |-> Class("BaseNode", [TypeParameters |-> Child("TypeParameterListNode"),
       GeneratedColumnInfo |-> Child("GeneratedColumnInfoNode"),
       DefaultExpression |-> Child("ExpressionNode"), Collate |-> Child("CollateNode"),
       Attributes |-> Child("ColumnAttributeListNode"), OptionsList |-> Child("OptionsListNode")]),
   SimpleColumnSchemaNode |-> Class("ColumnSchemaNode",
       [TypeName |-> Child("PathExpressionNode")]),
   ArrayColumnSchemaNode |-> Class("ColumnSchemaNode",
       [ElementSchema |-> Child("ColumnSchemaNode")]),
   TableConstraintBaseNode |-> Class("TableElementBaseNode",
       [ConstraintName |-> Child("IdentifierNode")]),
   PrimaryKeyNode |-> Class("TableConstraintBaseNode", [Enforced |-> Flag,
       ColumnList |-> Child("ColumnListNode"), OptionsList |-> Child("OptionsListNode")])]

ConstraintNodes ==
  [ForeignKeyNode |-> Class("TableConstraintBaseNode", [ColumnList |-> Child("ColumnListNode"),
       Reference |-> Child("ForeignKeyReferenceNode"), OptionsList |-> Child("OptionsListNode")]),
   CheckConstraintNode |-> Class("TableConstraintBaseNode", [IsEnforced |-> Flag,
       Expression |-> Child("ExpressionNode"), OptionsList |-> Child("OptionsListNode")]),
   DescriptorColumnNode |-> Class("BaseNode", [Name |-> Child("IdentifierNode")]),
   DescriptorColumnListNode |-> Class("BaseNode",
       [DescriptorColumnList |-> Children("DescriptorColumnNode")]),
   CreateEntityStatementNode |-> Class("CreateStatementNode", [Type |-> Child("IdentifierNode"),
       Name |-> Child("PathExpressionNode"), OptionsList |-> Child("OptionsListNode"),
       JSONBody |-> Child("JSONLiteralNode"), TextBody |-> Child("StringLiteralNode")])]

BlockStatements ==
  [RaiseStatementNode |-> Class("ScriptStatementNode", [Message |-> Child("ExpressionNode"),
       IsRethrow |-> ReadOnly(Flag)]),
   ExceptionHandlerNode |-> Class("BaseNode", [StatementList |-> Child("StatementListNode")]),
   ExceptionHandlerListNode |-> Class("BaseNode",
       [ExceptionHandlerList |-> Children("ExceptionHandlerNode")]),
   BeginEndBlockNode |-> Class("ScriptStatementNode", [Label |-> Child("LabelNode"),
       StatementListNode |-> Child("StatementListNode"),
       HandlerList |-> Child("ExceptionHandlerListNode"),
       StatementList |-> Children("StatementNode"), HasExceptionHandler |-> ReadOnly(Flag)]),
   IdentifierListNode |-> Class("BaseNode", [IdentifierList |-> Children("IdentifierNode")]),
   VariableDeclarationNode |-> Class("ScriptStatementNode",
       [VariableList |-> Child("IdentifierListNode"), Type |-> Child("TypeNode"),
        DefaultValue |-> Child("ExpressionNode")])]

LoopControls ==
  [UntilClauseNode |-> Class("BaseNode", [Condition |-> Child("ExpressionNode"),
       RepeatStmt |-> Child("RepeatStatementNode")]),
   BreakContinueStatementNode |-> Class("ScriptStatementNode", [Label |-> Child("LabelNode"),
       Keyword |-> Enum("BreakContinueKeyword")]),
   BreakStatementNode |-> Class("BreakContinueStatementNode",
       [Keyword |-> Enum("BreakContinueKeyword")]),
   ContinueStatementNode |-> Class("BreakContinueStatementNode",
       [Keyword |-> Enum("BreakContinueKeyword")]),
   DropPrivilegeRestrictionStatementNode |-> Class("DdlStatementBaseNode", [IsIfExists |-> Flag,
       Privileges |-> Child("PrivilegesNode"), ObjectType |-> Child("IdentifierNode"),
       NamePath |-> Child("PathExpressionNode")])]

PolicyStatements ==
  [DropRowAccessPolicyStatementNode |-> Class("DdlStatementBaseNode", [IsIfExists |-> Flag,
       TableName |-> Child("PathExpressionNode"), Name |-> Child("IdentifierNode")]),
   CreatePrivilegeRestrictionStatementNode |-> Class("CreateStatementNode",
       [Privileges |-> Child("PrivilegesNode"), ObjectType |-> Child("IdentifierNode"),
        NamePath |-> Child("PathExpressionNode"), RestrictTo |-> Child("RestrictToClauseNode")]),
   CreateRowAccessPolicyStatementNode |-> Class("CreateStatementNode", [HasAccessKeyword |-> Flag,
       TargetPath |-> Child("PathExpressionNode"), GrantTo |-> Child("GrantToClauseNode"),
       FilterUsing |-> Child("FilterUsingClauseNode"), Name |-> Child("IdentifierNode")])]

Assignments ==
  [DropStatementNode |-> Class("DdlStatementBaseNode", [DropMode |-> Enum("DropMode"),
       IsIfExists |-> Flag, SchemaObjectKind |-> Enum("SchemaObjectKind"),
       Name |-> Child("PathExpressionNode")]),
   ReturnStatementNode |-> Class("ScriptStatementNode", NoFields),
   SingleAssignmentNode |-> Class("ScriptStatementNode", [Variable |-> Child("IdentifierNode"),
       Expression |-> Child("ExpressionNode")]),
   ParameterAssignmentNode |-> Class("StatementBaseNode",
       [Parameter |-> Child("ParameterExprNode"), Expression |-> Child("ExpressionNode")]),
   SystemVariableAssignmentNode |-> Class("StatementBaseNode",
       [SystemVariable |-> Child("SystemVariableExprNode"),
        Expression |-> Child("ExpressionNode")]),
   AssignmentFromStructNode |-> Class("ScriptStatementNode",
       [Variables |-> Child("IdentifierListNode"), StructExpression |-> Child("ExpressionNode")])]

CreateTableStatements ==
  [CreateTableStmtBaseNode |-> Class("CreateStatementNode", [Name |-> Child("PathExpressionNode"),
       TableElementList |-> Child("TableElementListNode"),
       OptionsList |-> Child("OptionsListNode"), LikeTableName |-> Child("PathExpressionNode"),
       Collate |-> Child("CollateNode")]),
   CreateTableStatementNode |-> Class("CreateTableStmtBaseNode",
       [CloneDataSource |-> Child("CloneDataSourceNode"),
        CopyDataSource |-> Child("CopyDataSourceNode"), PartitionBy |-> Child("PartitionByNode"),
        ClusterBy |-> Child("ClusterByNode"), Query |-> Child("QueryNode")]),
   CreateExternalTableStatementNode |-> Class("CreateTableStmtBaseNode",
       [WithPartitionColumnsClause |-> Child("WithPartitionColumnsClauseNode"),
        WithConnectionClause |-> Child("WithConnectionClauseNode")])]

ViewAndLoopStatements ==
  [CreateViewStatementBaseNode |-> Class("CreateStatementNode",
       [Name |-> Child("PathExpressionNode"), ColumnList |-> Child("ColumnListNode"),
        OptionsList |-> Child("OptionsListNode"), Query |-> Child("QueryNode")]),
   CreateViewStatementNode |-> Class("CreateViewStatementBaseNode", NoFields),
   CreateMaterializedViewStatementNode |-> Class("CreateViewStatementBaseNode",
       [PartitionBy |-> Child("PartitionByNode"), ClusterBy |-> Child("ClusterByNode")]),
   LoopStatementNode |-> Class("ScriptStatementNode", [Label |-> Child("LabelNode"),
       Body |-> Child("StatementListNode"), IsLoopStatement |-> ReadOnly(Flag)]),
   WhileStatementNode |-> Class("LoopStatementNode", [Condition |-> Child("ExpressionNode")]),
   RepeatStatementNode |-> Class("LoopStatementNode", [UntilClause |-> Child("UntilClauseNode")]),
   ForInStatementNode |-> Class("LoopStatementNode", [Variable |-> Child("IdentifierNode"),
       Query |-> Child("QueryNode")])]

AlterStatements ==
  [AlterStatementBaseNode |-> Class("DdlStatementBaseNode", [IsIfExists |-> Flag,
       Path |-> Child("PathExpressionNode"), ActionList |-> Child("AlterActionListNode")]),
   AlterDatabaseStatementNode |-> Class("AlterStatementBaseNode", NoFields),
   AlterSchemaStatementNode |-> Class("AlterStatementBaseNode", NoFields),
   AlterTableStatementNode |-> Class("AlterStatementBaseNode", NoFields),
   AlterViewStatementNode |-> Class("AlterStatementBaseNode", NoFields),
   AlterMaterializedViewStatementNode |-> Class("AlterStatementBaseNode", NoFields),
   AlterPrivilegeRestrictionStatementNode |-> Class("AlterStatementBaseNode",
       [Privileges |-> Child("PrivilegesNode"), ObjectType |-> Child("IdentifierNode")]),
   AlterRowAccessPolicyStatementNode |-> Class("AlterStatementBaseNode",
       [Name |-> Child("IdentifierNode")]),
   AlterEntityStatementNode |-> Class("AlterStatementBaseNode",
       [Type |-> Child("IdentifierNode")])]

CreateFunctionStatements ==
  [CreateFunctionStmtBaseNode |-> Class("CreateStatementNode",
       [DeterminismLevel |-> Enum("DeterminismLevel"), SqlSecurity |-> Enum("SqlSecurity"),
        FunctionDeclaration |-> Child("FunctionDeclarationNode"),
        Language |-> Child("IdentifierNode"), Code |-> Child("StringLiteralNode"),
        OptionsList |-> Child("OptionsListNode")]),
   CreateFunctionStatementNode |-> Class("CreateFunctionStmtBaseNode", [IsAggregate |-> Flag,
       IsRemote |-> Flag, ReturnType |-> Child("TypeNode"),
       SqlFunctionBody |-> Child("SqlFunctionBodyNode"),
       WithConnectionClause |-> Child("WithConnectionClauseNode")]),
   CreateTableFunctionStatementNode |-> Class("CreateFunctionStmtBaseNode",
       [ReturnTVFSchema |-> Child("TVFSchemaNode"), Query |-> Child("QueryNode")]),
   StructColumnSchemaNode |-> Class("ColumnSchemaNode",
       [StructFields |-> Children("StructColumnFieldNode")])]

ExecuteStatements ==
  [InferredTypeColumnSchemaNode |-> Class("ColumnSchemaNode", NoFields),
   ExecuteIntoClauseNode |-> Class("BaseNode", [Identifiers |-> Child("IdentifierListNode")]),
   ExecuteUsingArgumentNode |-> Class("BaseNode", [Expression |-> Child("ExpressionNode"),
       Alias |-> Child("AliasNode")]),
   ExecuteUsingClauseNode |-> Class("BaseNode",
       [Arguments |-> Children("ExecuteUsingArgumentNode")]),
   ExecuteImmediateStatementNode |-> Class("StatementBaseNode", [SQL |-> Child("ExpressionNode"),
       IntoClause |-> Child("ExecuteIntoClauseNode"),
       UsingClause |-> Child("ExecuteUsingClauseNode")]),
   AuxLoadDataFromFilesOptionsListNode |-> Class("BaseNode",
       [OptionsList |-> Child("OptionsListNode")])]

LoadDataStatements ==
  [AuxLoadDataStatementNode |-> Class("CreateTableStmtBaseNode",
       [InsertionMode |-> Enum("InsertionMode"), PartitionBy |-> Child("PartitionByNode"),
        ClusterBy |-> Child("ClusterByNode"),
        FromFiles |-> Child("AuxLoadDataFromFilesOptionsListNode"),
        WithPartitionColumnsClause |-> Child("WithPartitionColumnsClauseNode"),
        WithConnectionClause |-> Child("WithConnectionClauseNode")]),
   LabelNode |-> Class("BaseNode", [Name |-> Child("IdentifierNode")])]

\* All structs of the parse tree.
AstClasses ==
  AstRoots @@ QueryNodes @@ SelectNodes @@ AstLeaves @@ FromNodes @@ BinaryExprs @@
   OrderingExprs @@ JoinNodes @@ WithAndTypes @@ CastNodes @@ FunctionCalls @@ StructAndInExprs @@
   LiteralExprs @@ FieldAccessExprs @@ ModifierExprs @@ IntervalExprs @@ SetOperations @@
   TableSubqueries @@ WindowNodes @@ LikeExprs @@ ScriptStatements @@ TransactionStatements @@
   DropEntityStatements @@ DropSnapshotStatements @@ ImportStatements @@ PivotNodes @@
   UnpivotNodes @@ FormatNodes @@ ConstructorNodes @@ CreateStatements @@ FunctionDeclarations @@
   TvfNodes @@ DataSources @@ ProcedureAndModelStatements @@ IndexStatements @@ ExportStatements @@
   TvfSchemas @@ DeleteStatements @@ ColumnAttributes @@ ColumnLists @@ InsertStatements @@
   UpdateStatements @@ MergeActions @@ MergeAndGrantStatements @@ RevokeStatements @@
   SampleNodes @@ ConstraintActions @@ ColumnActions @@ ColumnOptionActions @@ PolicyClauses @@
   ForeignKeyNodes @@ IfStatements @@ CaseAndHintNodes @@ ColumnSchemas @@ ConstraintNodes @@
   BlockStatements @@ LoopControls @@ PolicyStatements @@ Assignments @@ CreateTableStatements @@
   ViewAndLoopStatements @@ AlterStatements @@ CreateFunctionStatements @@ ExecuteStatements @@
   LoadDataStatements

\* The getter asks for nil in place of newJoinParseError.
JoinErrorWrapper == [JoinParseError |-> NilIsNil]

-----------------------------------------------------------------------------
(* Interfaces: the C++ class the name stands for, and the getters a struct   *)
(* needs to have.  All but one ask for no more than Node does, so that every *)
(* node satisfies them.                                                      *)

PlainInterfaces ==
  [Node |-> Interface("BaseNode", {}), StatementNode |-> Interface("StatementBaseNode", {}),
   ScriptNode |-> Interface("ScriptBaseNode", {}), TypeNode |-> Interface("TypeBaseNode", {}),
   ExpressionNode |-> Interface("ExpressionBaseNode", {}),
   LeafNode |-> Interface("LeafBaseNode", {})]

OtherInterfaces ==
  [QueryExpressionNode |-> Interface("QueryExpressionBaseNode", {"Parenthesized"}),
   GeneralizedPathExpressionNode |-> Interface("GeneralizedPathExpressionBaseNode", {}),
   TableExpressionNode |-> Interface("TableExpressionBaseNode", {}),
   TransactionModeNode |-> Interface("TransactionModeBaseNode", {}),
   DdlStatementNode |-> Interface("DdlStatementBaseNode", {}),
   ColumnAttributeNode |-> Interface("ColumnAttributeBaseNode", {}),
   TableElementNode |-> Interface("TableElementBaseNode", {}),
   TableConstraintNode |-> Interface("TableConstraintBaseNode", {}),
   AlterActionNode |-> Interface("AlterActionBaseNode", {})]

\* No type assertion asks for the C++ class: a Go interface is its methods.
AstInterfaces == PlainInterfaces @@ OtherInterfaces

\* Classes of the C++ parse tree whose kinds newNode does not wrap, with the
\* struct the package has for each: cases that return nil, and kinds of a
\* later C++ library, which become a BaseNode.
AstKindsWithoutStruct ==
  [FilterFieldsExpression |-> "ExpressionBaseNode", JoinLiteral |-> "JSONLiteralNode",
   StarBatchStatement |-> "StartBatchStatementNode",
   NewerExpression |-> "ExpressionBaseNode", NewerStatement |-> "StatementBaseNode",
   NewerQueryExpression |-> "QueryExpressionBaseNode"]

-----------------------------------------------------------------------------
(* Kinds *)

DispatchUnknownToBooleanLiteral ==
  [Unknown |-> NilNode, Fake |-> NilNode, AbortBatchStatement |-> "AbortBatchStatementNode",
   AddColumnAction |-> "AddColumnActionNode", AddConstraintAction |-> "AddConstraintActionNode",
   AddToRestricteeListClause |-> "AddToRestricteeListClauseNode",
   FunctionCallWithGroupRows |-> "FunctionCallWithGroupRowsNode", Alias |-> "AliasNode",
   AlterActionList |-> "AlterActionListNode",
   AlterAllRowAccessPoliciesStatement |-> "AlterAllRowAccessPoliciesStatementNode",
   AlterColumnOptionsAction |-> "AlterColumnOptionsActionNode",
   AlterColumnDropNotNullAction |-> "AlterColumnDropNotNullActionNode",
   AlterColumnTypeAction |-> "AlterColumnTypeActionNode",
   AlterColumnSetDefaultAction |-> "AlterColumnSetDefaultActionNode",
   AlterColumnDropDefaultAction |-> "AlterColumnDropDefaultActionNode",
   AlterConstraintEnforcementAction |-> "AlterConstraintEnforcementActionNode",
   AlterConstraintSetOptionsAction |-> "AlterConstraintSetOptionsActionNode",
   AlterDatabaseStatement |-> "AlterDatabaseStatementNode",
   AlterEntityStatement |-> "AlterEntityStatementNode",
   AlterMaterializedViewStatement |-> "AlterMaterializedViewStatementNode",
   AlterPrivilegeRestrictionStatement |-> "AlterPrivilegeRestrictionStatementNode",
   AlterRowAccessPolicyStatement |-> "AlterRowAccessPolicyStatementNode",
   AlterSchemaStatement |-> "AlterSchemaStatementNode",
   AlterTableStatement |-> "AlterTableStatementNode",
   AlterViewStatement |-> "AlterViewStatementNode",
   AnalyticFunctionCall |-> "AnalyticFunctionCallNode",
   AnalyzeStatement |-> "AnalyzeStatementNode", AndExpr |-> "AndExprNode",
   AnySomeAllOp |-> "AnySomeAllOpNode", ArrayColumnSchema |-> "ArrayColumnSchemaNode",
   ArrayConstructor |-> "ArrayConstructorNode", ArrayElement |-> "ArrayElementNode",
   ArrayType |-> "ArrayTypeNode", AssertRowsModified |-> "AssertRowsModifiedNode",
   AssertStatement |-> "AssertStatementNode", AssignmentFromStruct |-> "AssignmentFromStructNode",
   BeginStatement |-> "BeginStatementNode", BetweenExpression |-> "BetweenExpressionNode",
   AuxLoadDataFromFilesOptionsList |-> "AuxLoadDataFromFilesOptionsListNode",
   AuxLoadDataStatement |-> "AuxLoadDataStatementNode",
   BignumericLiteral |-> "BigNumericLiteralNode", BinaryExpression |-> "BinaryExpressionNode",
   BitwiseShiftExpression |-> "BitwiseShiftExpressionNode", BeginEndBlock |-> "BeginEndBlockNode",
   BooleanLiteral |-> "BooleanLiteralNode"]

DispatchBreakStatementToDescriptorColumnList ==
  [BreakStatement |-> "BreakStatementNode", BytesLiteral |-> "BytesLiteralNode",
   CallStatement |-> "CallStatementNode", CaseStatement |-> "CaseStatementNode",
   CaseNoValueExpression |-> "CaseNoValueExpressionNode",
   CaseValueExpression |-> "CaseValueExpressionNode", CastExpression |-> "CastExpressionNode",
   CheckConstraint |-> "CheckConstraintNode",
   ClampedBetweenModifier |-> "ClampedBetweenModifierNode",
   CloneDataSource |-> "CloneDataSourceNode", CloneDataSourceList |-> "CloneDataSourceListNode",
   CloneDataStatement |-> "CloneDataStatementNode", ClusterBy |-> "ClusterByNode",
   Collate |-> "CollateNode", ColumnAttributeList |-> "ColumnAttributeListNode",
   ColumnDefinition |-> "ColumnDefinitionNode", ColumnList |-> "ColumnListNode",
   ColumnPosition |-> "ColumnPositionNode", CommitStatement |-> "CommitStatementNode",
   ConnectionClause |-> "ConnectionClauseNode", ContinueStatement |-> "ContinueStatementNode",
   CopyDataSource |-> "CopyDataSourceNode",
   CreateConstantStatement |-> "CreateConstantStatementNode",
   CreateDatabaseStatement |-> "CreateDatabaseStatementNode",
   CreateExternalTableStatement |-> "CreateExternalTableStatementNode",
   CreateFunctionStatement |-> "CreateFunctionStatementNode",
   CreateIndexStatement |-> "CreateIndexStatementNode",
   CreateModelStatement |-> "CreateModelStatementNode",
   CreateProcedureStatement |-> "CreateProcedureStatementNode",
   CreatePrivilegeRestrictionStatement |-> "CreatePrivilegeRestrictionStatementNode",
   CreateRowAccessPolicyStatement |-> "CreateRowAccessPolicyStatementNode",
   CreateSchemaStatement |-> "CreateSchemaStatementNode",
   CreateSnapshotTableStatement |-> "CreateSnapshotTableStatementNode",
   CreateTableFunctionStatement |-> "CreateTableFunctionStatementNode",
   CreateTableStatement |-> "CreateTableStatementNode",
   CreateEntityStatement |-> "CreateEntityStatementNode",
   CreateViewStatement |-> "CreateViewStatementNode",
   CreateMaterializedViewStatement |-> "CreateMaterializedViewStatementNode",
   DateOrTimeLiteral |-> "DateOrTimeLiteralNode", DefaultLiteral |-> "DefaultLiteralNode",
   DefineTableStatement |-> "DefineTableStatementNode", DeleteStatement |-> "DeleteStatementNode",
   DescribeStatement |-> "DescribeStatementNode", DescriptorColumn |-> "DescriptorColumnNode",
   DescriptorColumnList |-> "DescriptorColumnListNode"]

DispatchDescriptorToFunctionDeclaration ==
  [Descriptor |-> "DescriptorNode", DotGeneralizedField |-> "DotGeneralizedFieldNode",
   DotIdentifier |-> "DotIdentifierNode", DotStar |-> "DotStarNode",
   DotStarWithModifiers |-> "DotStarWithModifiersNode",
   DropAllRowAccessPoliciesStatement |-> "DropAllRowAccessPoliciesStatementNode",
   DropColumnAction |-> "DropColumnActionNode",
   DropConstraintAction |-> "DropConstraintActionNode",
   DropEntityStatement |-> "DropEntityStatementNode",
   DropFunctionStatement |-> "DropFunctionStatementNode",
   DropPrimaryKeyAction |-> "DropPrimaryKeyActionNode",
   DropPrivilegeRestrictionStatement |-> "DropPrivilegeRestrictionStatementNode",
   DropRowAccessPolicyStatement |-> "DropRowAccessPolicyStatementNode",
   DropSearchIndexStatement |-> "DropSearchIndexStatementNode",
   DropStatement |-> "DropStatementNode",
   DropTableFunctionStatement |-> "DropTableFunctionStatementNode",
   DropMaterializedViewStatement |-> "DropMaterializedViewStatementNode",
   DropSnapshotTableStatement |-> "DropSnapshotTableStatementNode",
   ElseifClause |-> "ElseifClauseNode", ElseifClauseList |-> "ElseifClauseListNode",
   ExceptionHandler |-> "ExceptionHandlerNode",
   ExceptionHandlerList |-> "ExceptionHandlerListNode",
   ExecuteImmediateStatement |-> "ExecuteImmediateStatementNode",
   ExecuteIntoClause |-> "ExecuteIntoClauseNode",
   ExecuteUsingArgument |-> "ExecuteUsingArgumentNode",
   ExecuteUsingClause |-> "ExecuteUsingClauseNode", ExplainStatement |-> "ExplainStatementNode",
   ExportDataStatement |-> "ExportDataStatementNode",
   ExportModelStatement |-> "ExportModelStatementNode",
   ExpressionSubquery |-> "ExpressionSubqueryNode", ExtractExpression |-> "ExtractExpressionNode",
   FilterFieldsArg |-> "FilterFieldsArgNode", FilterFieldsExpression |-> NilNode,
   FilterUsingClause |-> "FilterUsingClauseNode", FloatLiteral |-> "FloatLiteralNode",
   ForInStatement |-> "ForInStatementNode", ForeignKey |-> "ForeignKeyNode",
   ForeignKeyActions |-> "ForeignKeyActionsNode",
   ForeignKeyColumnAttribute |-> "ForeignKeyColumnAttributeNode",
   ForeignKeyReference |-> "ForeignKeyReferenceNode", FormatClause |-> "FormatClauseNode",
   ForSystemTime |-> "ForSystemTimeNode", FromClause |-> "FromClauseNode",
   FunctionCall |-> "FunctionCallNode", FunctionDeclaration |-> "FunctionDeclarationNode"]

DispatchFunctionParameterToModuleStatement ==
  [FunctionParameter |-> "FunctionParameterNode", FunctionParameters |-> "FunctionParametersNode",
   GeneratedColumnInfo |-> "GeneratedColumnInfoNode", GranteeList |-> "GranteeListNode",
   GrantStatement |-> "GrantStatementNode", GrantToClause |-> "GrantToClauseNode",
   RestrictToClause |-> "RestrictToClauseNode", GroupBy |-> "GroupByNode",
   GroupingItem |-> "GroupingItemNode", Having |-> "HavingNode",
   HavingModifier |-> "HavingModifierNode", HiddenColumnAttribute |-> "HiddenColumnAttributeNode",
   Hint |-> "HintNode", HintedStatement |-> "HintedStatementNode", HintEntry |-> "HintEntryNode",
   Identifier |-> "IdentifierNode", IdentifierList |-> "IdentifierListNode",
   IfStatement |-> "IfStatementNode", ImportStatement |-> "ImportStatementNode",
   InExpression |-> "InExpressionNode", InList |-> "InListNode",
   IndexAllColumns |-> "IndexAllColumnsNode", IndexItemList |-> "IndexItemListNode",
   IndexStoringExpressionList |-> "IndexStoringExpressionListNode",
   IndexUnnestExpressionList |-> "IndexUnnestExpressionListNode",
   InferredTypeColumnSchema |-> "InferredTypeColumnSchemaNode",
   InsertStatement |-> "InsertStatementNode", InsertValuesRow |-> "InsertValuesRowNode",
   InsertValuesRowList |-> "InsertValuesRowListNode", IntervalExpr |-> "IntervalExprNode",
   IntoAlias |-> "IntoAliasNode", IntLiteral |-> "IntLiteralNode", Join |-> "JoinNode",
   JoinLiteral |-> NilNode, Label |-> "LabelNode", Lambda |-> "LambdaNode",
   LikeExpression |-> "LikeExpressionNode", LimitOffset |-> "LimitOffsetNode",
   MaxLiteral |-> "MaxLiteralNode", MergeAction |-> "MergeActionNode",
   MergeStatement |-> "MergeStatementNode", MergeWhenClause |-> "MergeWhenClauseNode",
   MergeWhenClauseList |-> "MergeWhenClauseListNode", ModelClause |-> "ModelClauseNode",
   ModuleStatement |-> "ModuleStatementNode"]

DispatchNamedArgumentToReplaceFieldsExpression ==
  [NamedArgument |-> "NamedArgumentNode", NewConstructor |-> "NewConstructorNode",
   NewConstructorArg |-> "NewConstructorArgNode",
   NotNullColumnAttribute |-> "NotNullColumnAttributeNode", NullLiteral |-> "NullLiteralNode",
   NullOrder |-> "NullOrderNode", NumericLiteral |-> "NumericLiteralNode",
   OnClause |-> "OnClauseNode", OnOrUsingClauseList |-> "OnOrUsingClauseListNode",
   OptionsEntry |-> "OptionsEntryNode", OptionsList |-> "OptionsListNode",
   OrderBy |-> "OrderByNode", OrderingExpression |-> "OrderingExpressionNode",
   OrExpr |-> "OrExprNode", ParameterAssignment |-> "ParameterAssignmentNode",
   ParameterExpr |-> "ParameterExprNode", ParenthesizedJoin |-> "ParenthesizedJoinNode",
   PartitionBy |-> "PartitionByNode", PathExpression |-> "PathExpressionNode",
   PathExpressionList |-> "PathExpressionListNode", PivotClause |-> "PivotClauseNode",
   UnpivotClause |-> "UnpivotClauseNode", UnpivotInItemLabel |-> "UnpivotInItemLabelNode",
   UnpivotInItem |-> "UnpivotInItemNode", UnpivotInItemList |-> "UnpivotInItemListNode",
   PivotExpression |-> "PivotExpressionNode", PivotExpressionList |-> "PivotExpressionListNode",
   PivotValue |-> "PivotValueNode", PivotValueList |-> "PivotValueListNode",
   PrimaryKey |-> "PrimaryKeyNode", PrimaryKeyColumnAttribute |-> "PrimaryKeyColumnAttributeNode",
   Privilege |-> "PrivilegeNode", Privileges |-> "PrivilegesNode", Qualify |-> "QualifyNode",
   Query |-> "QueryNode", QueryStatement |-> "QueryStatementNode",
   RaiseStatement |-> "RaiseStatementNode",
   RemoveFromRestricteeListClause |-> "RemoveFromRestricteeListClauseNode",
   RenameColumnAction |-> "RenameColumnActionNode", RenameToClause |-> "RenameToClauseNode",
   RenameStatement |-> "RenameStatementNode", RepeatStatement |-> "RepeatStatementNode",
   RepeatableClause |-> "RepeatableClauseNode", ReplaceFieldsArg |-> "ReplaceFieldsArgNode",
   ReplaceFieldsExpression |-> "ReplaceFieldsExpressionNode"]

DispatchReturnStatementToTableClause ==
  [ReturnStatement |-> "ReturnStatementNode", ReturningClause |-> "ReturningClauseNode",
   RevokeFromClause |-> "RevokeFromClauseNode", RevokeStatement |-> "RevokeStatementNode",
   RollbackStatement |-> "RollbackStatementNode", Rollup |-> "RollupNode",
   RunBatchStatement |-> "RunBatchStatementNode", SampleClause |-> "SampleClauseNode",
   SampleSize |-> "SampleSizeNode", SampleSuffix |-> "SampleSuffixNode",
   Script |-> "ScriptBaseNode", Select |-> "SelectNode", SelectAs |-> "SelectAsNode",
   SelectColumn |-> "SelectColumnNode", SelectList |-> "SelectListNode",
   SetOperation |-> "SetOperationNode", SetOptionsAction |-> "SetOptionsActionNode",
   SetAsAction |-> "SetAsActionNode", SetCollateClause |-> "SetCollateClauseNode",
   SetTransactionStatement |-> "SetTransactionStatementNode",
   SingleAssignment |-> "SingleAssignmentNode", ShowStatement |-> "ShowStatementNode",
   SimpleColumnSchema |-> "SimpleColumnSchemaNode", SimpleType |-> "SimpleTypeNode",
   SqlFunctionBody |-> "SqlFunctionBodyNode", Star |-> "StarNode",
   StarExceptList |-> "StarExceptListNode", StarModifiers |-> "StarModifiersNode",
   StarReplaceItem |-> "StarReplaceItemNode", StarWithModifiers |-> "StarWithModifiersNode",
   StarBatchStatement |-> NilNode, StatementList |-> "StatementListNode",
   StringLiteral |-> "StringLiteralNode", StructColumnField |-> "StructColumnFieldNode",
   StructColumnSchema |-> "StructColumnSchemaNode",
   StructConstructorArg |-> "StructConstructorArgNode",
   StructConstructorWithKeyword |-> "StructConstructorWithKeywordNode",
   StructConstructorWithParens |-> "StructConstructorWithParensNode",
   StructField |-> "StructFieldNode", StructType |-> "StructTypeNode",
   SystemVariableAssignment |-> "SystemVariableAssignmentNode",
   SystemVariableExpr |-> "SystemVariableExprNode",
   TableAndColumnInfo |-> "TableAndColumnInfoNode",
   TableAndColumnInfoList |-> "TableAndColumnInfoListNode", TableClause |-> "TableClauseNode"]

DispatchTableElementListToWithWeight ==
  [TableElementList |-> "TableElementListNode", TablePathExpression |-> "TablePathExpressionNode",
   TableSubquery |-> "TableSubqueryNode", TemplatedParameterType |-> "TemplatedParameterTypeNode",
   TransactionIsolationLevel |-> "TransactionIsolationLevelNode",
   TransactionModeList |-> "TransactionModeListNode",
   TransactionReadWriteMode |-> "TransactionReadWriteModeNode",
   TransformClause |-> "TransformClauseNode", TrucateStatement |-> "TrucateStatementNode",
   Tvf |-> "TVFNode", TvfArgument |-> "TVFArgumentNode", TvfSchema |-> "TVFSchemaNode",
   TvfSchemaColumn |-> "TVFSchemaColumnNode", TypeParameterList |-> "TypeParameterListNode",
   UnaryExpression |-> "UnaryExpressionNode", UnnestExpression |-> "UnnestExpressionNode",
   UnnestExpressionWithOptAliasAndOffset |-> "UnnestExpressionWithOptAliasAndOffsetNode",
   UntilClause |-> "UntilClauseNode", UpdateItem |-> "UpdateItemNode",
   UpdateItemList |-> "UpdateItemListNode", UpdateSetValue |-> "UpdateSetValueNode",
   UpdateStatement |-> "UpdateStatementNode", UsingClause |-> "UsingClauseNode",
   VariableDeclaration |-> "VariableDeclarationNode", WhenThenClause |-> "WhenThenClauseNode",
   WhenThenClauseList |-> "WhenThenClauseListNode", WhereClause |-> "WhereClauseNode",
   WhileStatement |-> "WhileStatementNode", WindowClause |-> "WindowClauseNode",
   WindowDefinition |-> "WindowDefinitionNode", WindowFrame |-> "WindowFrameNode",
   WindowFrameExpr |-> "WindowFrameExprNode", WindowSpecification |-> "WindowSpecificationNode",
   WithClause |-> "WithClauseNode", WithClauseEntry |-> "WithClauseEntryNode",
   WithConnectionClause |-> "WithConnectionClauseNode", WithGroupRows |-> "WithGroupRowsNode",
   WithOffset |-> "WithOffsetNode",
   WithPartitionColumnsClause |-> "WithPartitionColumnsClauseNode",
   WithWeight |-> "WithWeightNode"]

\* The struct newNode makes for each kind.
AstNewNodeOf ==
  DispatchUnknownToBooleanLiteral @@ DispatchBreakStatementToDescriptorColumnList @@
   DispatchDescriptorToFunctionDeclaration @@ DispatchFunctionParameterToModuleStatement @@
   DispatchNamedArgumentToReplaceFieldsExpression @@ DispatchReturnStatementToTableClause @@
   DispatchTableElementListToWithWeight

=============================================================================
